-------------------------- MODULE ValueCalls_proof --------------------------
(* What the calls of the builders do to their records, and those of the     *)
(* parsers to the variables of their callers, for arrays, vectors and texts *)
(* of every length, and with whichever schema the file holds.  A run of     *)
(* calls is a set of states that is closed under the moves of a call; each  *)
(* part of a builder or parser is shown to run from what precedes it to     *)
(* what follows, and the invariant says that the rest of the calls runs to  *)
(* the record meant, or to the values the caller is to get.                 *)
EXTENDS ValueCalls, AvroBinary_proof, FiniteSetTheorems

-----------------------------------------------------------------------------
(* Places in a record, one key longer at a time.                             *)

Places == Seq(Keys)

LEMMA Longer ==
    ASSUME NEW p \in Places, NEW k \in Keys
    PROVE  /\ Append(p, k) \in Places /\ Len(p) \in Nat /\ Len(Append(p, k)) = Len(p) + 1
           /\ \A i \in 1..Len(p) : Append(p, k)[i] = p[i]
           /\ Append(p, k)[Len(p) + 1] = k
BY DEF Places

\* The values on the way to a place.
Path(v, p, h) == h = [i \in 0..Len(p) |-> IF i = 0 THEN v ELSE h[i - 1][p[i]]]

LEMMA PathExists == ASSUME NEW v, NEW p \in Places PROVE \E h : Path(v, p, h)
<1> DEFINE F(h, n) == [i \in 0..n |-> IF i = 0 THEN v ELSE h[i - 1][p[i]]]
           T == {n \in Nat : \E h : h = F(h, n)}
<1>1. 0 \in T
  <2> DEFINE h == [i \in 0..0 |-> v]
  <2>1. h = F(h, 0)
    OBVIOUS
  <2> QED
    BY <2>1
<1>2. ASSUME NEW n \in T PROVE n + 1 \in T
  <2>1. PICK h : h = F(h, n)
    BY <1>2
  <2> DEFINE g == [i \in 0..(n + 1) |-> IF i = n + 1 THEN h[n][p[i]] ELSE h[i]]
  <2>2. n \in Nat
    OBVIOUS
  <2>3. \A i \in 0..n : h[i] = IF i = 0 THEN v ELSE h[i - 1][p[i]]
    BY <2>1
  <2>4. \A i \in 0..n : g[i] = h[i]
    BY <2>2
  <2>5. g[n + 1] = h[n][p[n + 1]]
    BY <2>2
  <2>6. g = [i \in 0..(n + 1) |-> g[i]]
    OBVIOUS
  <2> HIDE DEF g
  <2>7. \A i \in 0..(n + 1) : g[i] = IF i = 0 THEN v ELSE g[i - 1][p[i]]
    BY <2>2, <2>3, <2>4, <2>5
  <2>8. g = F(g, n + 1)
    BY <2>6, <2>7
  <2> QED
    BY <2>2, <2>8
<1>3. T \in SUBSET Nat /\ Len(p) \in Nat
  BY DEF Places
<1> HIDE DEF T
<1>4. Len(p) \in T
  BY <1>1, <1>2, <1>3, Induction
<1> QED
  BY <1>4 DEF T, Path

LEMMA PathIs ==
    ASSUME NEW v, NEW p \in Places
    PROVE  \E h : Path(v, p, h) /\ At(v, p) = h[Len(p)]
<1> DEFINE h == CHOOSE h : Path(v, p, h)
<1>1. Path(v, p, h)
  BY PathExists
<1>2. At(v, p) = h[Len(p)]
  BY DEF At, Path
<1> QED
  BY <1>1, <1>2

\* The value of a field or an item is that field or item of the value around it.
LEMMA AtPlace ==
    ASSUME NEW v, NEW p \in Places, NEW k \in Keys
    PROVE  /\ At(v, <<>>) = v
           /\ At(v, Append(p, k)) = At(v, p)[k]
<1> DEFINE q == Append(p, k)
           n == Len(p)
<1>1. /\ q \in Places /\ n \in Nat /\ Len(q) = n + 1 /\ q[n + 1] = k
      /\ \A i \in 1..n : q[i] = p[i]
  BY Longer
<1>2. PICK h : Path(v, p, h) /\ At(v, p) = h[n]
  BY PathIs
<1> HIDE DEF q
<1>3. PICK g : Path(v, q, g) /\ At(v, q) = g[Len(q)]
  BY <1>1, PathIs
<1>4. \A i \in 0..n : h[i] = IF i = 0 THEN v ELSE h[i - 1][p[i]]
  BY <1>2 DEF Path
<1>5. \A i \in 0..(n + 1) : g[i] = IF i = 0 THEN v ELSE g[i - 1][q[i]]
  BY <1>1, <1>3 DEF Path
<1> DEFINE T == {i \in Nat : i <= n => g[i] = h[i]}
<1>6. 0 \in T
  BY <1>1, <1>4, <1>5
<1>7. ASSUME NEW i \in T PROVE i + 1 \in T
  <2> SUFFICES ASSUME i + 1 <= n PROVE g[i + 1] = h[i + 1]
    OBVIOUS
  <2>1. /\ i \in Nat /\ g[i] = h[i] /\ i + 1 \in 0..n /\ i + 1 \in 0..(n + 1) /\ i + 1 # 0
        /\ (i + 1) - 1 = i /\ q[i + 1] = p[i + 1]
    BY <1>1
  <2>2. g[i + 1] = g[i][q[i + 1]] /\ h[i + 1] = h[i][p[i + 1]]
    BY <1>4, <1>5, <2>1
  <2> QED
    BY <2>1, <2>2
<1>8. T \in SUBSET Nat
  OBVIOUS
<1> HIDE DEF T
<1>9. n \in T
  BY <1>1, <1>6, <1>7, <1>8, Induction
<1>10. g[n] = h[n]
  BY <1>1, <1>9 DEF T
<1>11. g[n + 1] = g[n][k]
  <2>1. n + 1 \in 0..(n + 1) /\ n + 1 # 0 /\ (n + 1) - 1 = n
    BY <1>1
  <2> QED
    BY <1>1, <1>5, <2>1
<1>12. At(v, q) = At(v, p)[k]
  BY <1>1, <1>2, <1>3, <1>10, <1>11
<1>13. At(v, <<>>) = v
  <2>1. <<>> \in Places /\ Len(<<>>) = 0
    BY DEF Places
  <2>2. PICK e : Path(v, <<>>, e) /\ At(v, <<>>) = e[Len(<<>>)]
    BY <2>1, PathIs
  <2>3. \A i \in 0..0 : e[i] = IF i = 0 THEN v ELSE e[i - 1][<<>>[i]]
    BY <2>1, <2>2 DEF Path
  <2> QED
    BY <2>1, <2>2, <2>3
<1> QED
  BY <1>12, <1>13 DEF q

\* The schemas on the way to a place.
SchemaPath(v, p, h) == h = [i \in 0..Len(p) |-> IF i = 0 THEN v ELSE Inside(h[i - 1], p[i])]

LEMMA SchemaPathExists == ASSUME NEW v, NEW p \in Places PROVE \E h : SchemaPath(v, p, h)
<1> DEFINE F(h, n) == [i \in 0..n |-> IF i = 0 THEN v ELSE Inside(h[i - 1], p[i])]
           T == {n \in Nat : \E h : h = F(h, n)}
<1>1. 0 \in T
  <2> DEFINE h == [i \in 0..0 |-> v]
  <2>1. h = F(h, 0)
    OBVIOUS
  <2> QED
    BY <2>1
<1>2. ASSUME NEW n \in T PROVE n + 1 \in T
  <2>1. PICK h : h = F(h, n)
    BY <1>2
  <2> DEFINE g == [i \in 0..(n + 1) |-> IF i = n + 1 THEN Inside(h[n], p[i]) ELSE h[i]]
  <2>2. n \in Nat
    OBVIOUS
  <2>3. \A i \in 0..n : h[i] = IF i = 0 THEN v ELSE Inside(h[i - 1], p[i])
    BY <2>1
  <2>4. \A i \in 0..n : g[i] = h[i]
    BY <2>2
  <2>5. g[n + 1] = Inside(h[n], p[n + 1])
    BY <2>2
  <2>6. g = [i \in 0..(n + 1) |-> g[i]]
    OBVIOUS
  <2> HIDE DEF g
  <2>7. \A i \in 0..(n + 1) : g[i] = IF i = 0 THEN v ELSE Inside(g[i - 1], p[i])
    BY <2>2, <2>3, <2>4, <2>5
  <2>8. g = F(g, n + 1)
    BY <2>6, <2>7
  <2> QED
    BY <2>2, <2>8
<1>3. T \in SUBSET Nat /\ Len(p) \in Nat
  BY DEF Places
<1> HIDE DEF T
<1>4. Len(p) \in T
  BY <1>1, <1>2, <1>3, Induction
<1> QED
  BY <1>4 DEF T, SchemaPath

LEMMA SchemaPathIs ==
    ASSUME NEW v, NEW p \in Places
    PROVE  \E h : SchemaPath(v, p, h) /\ SchemaAt(v, p) = h[Len(p)]
<1> DEFINE h == CHOOSE h : SchemaPath(v, p, h)
<1>1. SchemaPath(v, p, h)
  BY SchemaPathExists
<1>2. SchemaAt(v, p) = h[Len(p)]
  BY DEF SchemaAt, SchemaPath
<1> QED
  BY <1>1, <1>2

\* The schema of a field or an item is found in the schema around it.
LEMMA SchemaAtPlace ==
    ASSUME NEW v, NEW p \in Places, NEW k \in Keys
    PROVE  /\ SchemaAt(v, <<>>) = v
           /\ SchemaAt(v, Append(p, k)) = Inside(SchemaAt(v, p), k)
<1> DEFINE q == Append(p, k)
           n == Len(p)
<1>1. /\ q \in Places /\ n \in Nat /\ Len(q) = n + 1 /\ q[n + 1] = k
      /\ \A i \in 1..n : q[i] = p[i]
  BY Longer
<1>2. PICK h : SchemaPath(v, p, h) /\ SchemaAt(v, p) = h[n]
  BY SchemaPathIs
<1> HIDE DEF q
<1>3. PICK g : SchemaPath(v, q, g) /\ SchemaAt(v, q) = g[Len(q)]
  BY <1>1, SchemaPathIs
<1>4. \A i \in 0..n : h[i] = IF i = 0 THEN v ELSE Inside(h[i - 1], p[i])
  BY <1>2 DEF SchemaPath
<1>5. \A i \in 0..(n + 1) : g[i] = IF i = 0 THEN v ELSE Inside(g[i - 1], q[i])
  BY <1>1, <1>3 DEF SchemaPath
<1> DEFINE T == {i \in Nat : i <= n => g[i] = h[i]}
<1>6. 0 \in T
  BY <1>1, <1>4, <1>5
<1>7. ASSUME NEW i \in T PROVE i + 1 \in T
  <2> SUFFICES ASSUME i + 1 <= n PROVE g[i + 1] = h[i + 1]
    OBVIOUS
  <2>1. /\ i \in Nat /\ g[i] = h[i] /\ i + 1 \in 0..n /\ i + 1 \in 0..(n + 1) /\ i + 1 # 0
        /\ (i + 1) - 1 = i /\ q[i + 1] = p[i + 1]
    BY <1>1
  <2>2. g[i + 1] = Inside(g[i], q[i + 1]) /\ h[i + 1] = Inside(h[i], p[i + 1])
    BY <1>4, <1>5, <2>1
  <2> QED
    BY <2>1, <2>2
<1>8. T \in SUBSET Nat
  OBVIOUS
<1> HIDE DEF T
<1>9. n \in T
  BY <1>1, <1>6, <1>7, <1>8, Induction
<1>10. g[n] = h[n]
  BY <1>1, <1>9 DEF T
<1>11. g[n + 1] = Inside(g[n], k)
  <2>1. n + 1 \in 0..(n + 1) /\ n + 1 # 0 /\ (n + 1) - 1 = n
    BY <1>1
  <2> QED
    BY <1>1, <1>5, <2>1
<1>12. SchemaAt(v, q) = Inside(SchemaAt(v, p), k)
  BY <1>1, <1>2, <1>3, <1>10, <1>11
<1>13. SchemaAt(v, <<>>) = v
  <2>1. <<>> \in Places /\ Len(<<>>) = 0
    BY DEF Places
  <2>2. PICK e : SchemaPath(v, <<>>, e) /\ SchemaAt(v, <<>>) = e[Len(<<>>)]
    BY <2>1, SchemaPathIs
  <2>3. \A i \in 0..0 : e[i] = IF i = 0 THEN v ELSE Inside(e[i - 1], <<>>[i])
    BY <2>1, <2>2 DEF SchemaPath
  <2> QED
    BY <2>1, <2>2, <2>3
<1> QED
  BY <1>12, <1>13 DEF q

\* The value around the last i keys of p, when what is in it becomes w.
Under(v, p, i, w) == [At(v, SubSeq(p, 1, Len(p) - i)) EXCEPT ![p[Len(p) - i + 1]] = w]

\* The values from a place outwards.
Outwards(v, p, x, h) == h = [i \in 0..Len(p) |-> IF i = 0 THEN x ELSE Under(v, p, i, h[i - 1])]

LEMMA OutwardsExists == ASSUME NEW v, NEW x, NEW p \in Places PROVE \E h : Outwards(v, p, x, h)
<1> DEFINE F(h, n) == [i \in 0..n |-> IF i = 0 THEN x ELSE Under(v, p, i, h[i - 1])]
           T == {n \in Nat : \E h : h = F(h, n)}
<1>1. 0 \in T
  <2> DEFINE h == [i \in 0..0 |-> x]
  <2>1. h = F(h, 0)
    OBVIOUS
  <2> QED
    BY <2>1
<1>2. ASSUME NEW n \in T PROVE n + 1 \in T
  <2>1. PICK h : h = F(h, n)
    BY <1>2
  <2> DEFINE g == [i \in 0..(n + 1) |-> IF i = n + 1 THEN Under(v, p, i, h[n]) ELSE h[i]]
  <2>2. n \in Nat
    OBVIOUS
  <2>3. \A i \in 0..n : h[i] = IF i = 0 THEN x ELSE Under(v, p, i, h[i - 1])
    BY <2>1
  <2>4. \A i \in 0..n : g[i] = h[i]
    BY <2>2
  <2>5. g[n + 1] = Under(v, p, n + 1, h[n])
    BY <2>2
  <2>6. g = [i \in 0..(n + 1) |-> g[i]]
    OBVIOUS
  <2> HIDE DEF g
  <2>7. \A i \in 0..(n + 1) : g[i] = IF i = 0 THEN x ELSE Under(v, p, i, g[i - 1])
    BY <2>2, <2>3, <2>4, <2>5
  <2>8. g = F(g, n + 1)
    BY <2>6, <2>7
  <2> QED
    BY <2>2, <2>8
<1>3. T \in SUBSET Nat /\ Len(p) \in Nat
  BY DEF Places
<1> HIDE DEF T
<1>4. Len(p) \in T
  BY <1>1, <1>2, <1>3, Induction
<1> QED
  BY <1>4 DEF T, Outwards

LEMMA OutwardsIs ==
    ASSUME NEW v, NEW x, NEW p \in Places
    PROVE  \E h : Outwards(v, p, x, h) /\ Stored(v, p, x) = h[Len(p)]
<1> DEFINE h == CHOOSE h : Outwards(v, p, x, h)
<1>1. Outwards(v, p, x, h)
  BY OutwardsExists
<1>2. Stored(v, p, x) = h[Len(p)]
  BY DEF Stored, Outwards, Under
<1> QED
  BY <1>1, <1>2

\* The keys before the last are those of the shorter place.
LEMMA SamePrefixes ==
    ASSUME NEW p \in Places, NEW k \in Keys
    PROVE  /\ \A i \in 0..Len(p) : SubSeq(Append(p, k), 1, i) = SubSeq(p, 1, i)
           /\ SubSeq(p, 1, Len(p)) = p
<1> DEFINE q == Append(p, k)
<1>1. /\ q \in Places /\ Len(p) \in Nat /\ Len(q) = Len(p) + 1
      /\ \A i \in 1..Len(p) : q[i] = p[i]
  BY Longer
<1> HIDE DEF q
<1>2. ASSUME NEW i \in 0..Len(p) PROVE SubSeq(q, 1, i) = SubSeq(p, 1, i)
  <2>1. /\ SubSeq(q, 1, i) \in Places /\ SubSeq(p, 1, i) \in Places
        /\ Len(SubSeq(q, 1, i)) = i /\ Len(SubSeq(p, 1, i)) = i
        /\ \A j \in 1..i : SubSeq(q, 1, i)[j] = q[j] /\ SubSeq(p, 1, i)[j] = p[j]
    BY <1>1 DEF Places
  <2> QED
    BY <1>1, <2>1 DEF Places
<1>3. SubSeq(p, 1, Len(p)) = p
  BY DEF Places
<1> QED
  BY <1>2, <1>3 DEF q

\* The value w with x as one of its fields or items.
Changed(w, k, x) == [w EXCEPT ![k] = x]

LEMMA StoredWhole == ASSUME NEW v, NEW x PROVE Stored(v, <<>>, x) = x
<1>1. <<>> \in Places /\ Len(<<>>) = 0
  BY DEF Places
<1>2. PICK e : Outwards(v, <<>>, x, e) /\ Stored(v, <<>>, x) = e[Len(<<>>)]
  BY <1>1, OutwardsIs
<1>3. \A i \in 0..0 : e[i] = IF i = 0 THEN x ELSE Under(v, <<>>, i, e[i - 1])
  BY <1>1, <1>2 DEF Outwards
<1> QED
  BY <1>1, <1>2, <1>3

\* To store something in a field or an item is to store the value around it
\* with that field or item changed.
LEMMA StoredPlace ==
    ASSUME NEW v, NEW x, NEW p \in Places, NEW k \in Keys
    PROVE  Stored(v, Append(p, k), x) = Stored(v, p, Changed(At(v, p), k, x))
<1> DEFINE q == Append(p, k)
           n == Len(p)
           y == [At(v, p) EXCEPT ![k] = x]
<1>1. /\ q \in Places /\ n \in Nat /\ Len(q) = n + 1 /\ q[n + 1] = k
      /\ \A i \in 1..n : q[i] = p[i]
      /\ \A i \in 0..n : SubSeq(q, 1, i) = SubSeq(p, 1, i)
      /\ SubSeq(p, 1, n) = p
  BY Longer, SamePrefixes
<1> HIDE DEF q, y
<1>2. PICK h : Outwards(v, p, y, h) /\ Stored(v, p, y) = h[n]
  BY OutwardsIs
<1>3. PICK g : Outwards(v, q, x, g) /\ Stored(v, q, x) = g[Len(q)]
  BY <1>1, OutwardsIs
<1>4. \A i \in 0..n : h[i] = IF i = 0 THEN y ELSE Under(v, p, i, h[i - 1])
  BY <1>2 DEF Outwards
<1>5. \A i \in 0..(n + 1) : g[i] = IF i = 0 THEN x ELSE Under(v, q, i, g[i - 1])
  BY <1>1, <1>3 DEF Outwards
<1> DEFINE T == {i \in Nat : i <= n => g[i + 1] = h[i]}
<1>6. 0 \in T
  <2>1. g[0] = x /\ g[1] = Under(v, q, 1, g[0]) /\ h[0] = y
    BY <1>1, <1>4, <1>5
  <2>2. Len(q) - 1 = n /\ n \in 0..n
    BY <1>1
  <2>3. Under(v, q, 1, x) = [At(v, SubSeq(q, 1, n)) EXCEPT ![q[n + 1]] = x]
    BY <2>2 DEF Under
  <2>4. SubSeq(q, 1, n) = p
    BY <1>1, <2>2
  <2>5. Under(v, q, 1, x) = y
    BY <1>1, <2>3, <2>4 DEF y
  <2> QED
    BY <2>1, <2>5
<1>7. ASSUME NEW i \in T PROVE i + 1 \in T
  <2> SUFFICES ASSUME i + 1 <= n PROVE g[(i + 1) + 1] = h[i + 1]
    OBVIOUS
  <2>1. /\ i \in Nat /\ g[i + 1] = h[i] /\ i + 1 \in 0..n /\ i + 2 \in 0..(n + 1)
        /\ i + 1 # 0 /\ (i + 1) - 1 = i /\ i + 2 # 0 /\ (i + 2) - 1 = i + 1 /\ (i + 1) + 1 = i + 2
    BY <1>1
  <2>2. /\ g[i + 2] = Under(v, q, i + 2, g[i + 1])
        /\ h[i + 1] = Under(v, p, i + 1, h[i])
    BY <1>4, <1>5, <2>1
  <2>3. PICK m : m = n - (i + 1)
    OBVIOUS
  <2>4. m \in 0..n /\ m = Len(q) - (i + 2) /\ m + 1 \in 1..n
    <3>1. i + 1 <= n
      OBVIOUS
    <3> QED
      BY <1>1, <2>1, <2>3, <3>1
  <2>5. SubSeq(q, 1, m) = SubSeq(p, 1, m) /\ q[m + 1] = p[m + 1]
    BY <1>1, <2>4
  <2>6. /\ Under(v, q, i + 2, g[i + 1]) = [At(v, SubSeq(q, 1, m)) EXCEPT ![q[m + 1]] = g[i + 1]]
        /\ Under(v, p, i + 1, h[i]) = [At(v, SubSeq(p, 1, m)) EXCEPT ![p[m + 1]] = h[i]]
    BY <2>3, <2>4 DEF Under
  <2>7. g[i + 2] = h[i + 1]
    BY <2>1, <2>2, <2>5, <2>6
  <2> QED
    BY <2>1, <2>7
<1>8. T \in SUBSET Nat
  OBVIOUS
<1> HIDE DEF T
<1>9. n \in T
  BY <1>1, <1>6, <1>7, <1>8, Induction
<1>10. g[n + 1] = h[n]
  BY <1>1, <1>9 DEF T
<1>11. Stored(v, q, x) = Stored(v, p, y)
  BY <1>1, <1>2, <1>3, <1>10
<1> QED
  BY <1>11 DEF q, y, Changed

\* P leads somewhere in R: what is stored there is found there, and no more.
IsPlace(R, P) ==
    /\ P \in Places
    /\ \A y : At(Stored(R, P, y), P) = y
    /\ \A y, z : Stored(Stored(R, P, y), P, z) = Stored(R, P, z)
    /\ Stored(R, P, At(R, P)) = R

LEMMA WholeIsPlace == \A R : IsPlace(R, <<>>) /\ At(R, <<>>) = R /\ \A y : Stored(R, <<>>, y) = y
<1>1. <<>> \in Places /\ 0 \in Keys
  BY DEF Places, Keys
<1>2. \A R : At(R, <<>>) = R
  BY <1>1, AtPlace
<1>3. \A R, y : Stored(R, <<>>, y) = y
  BY StoredWhole
<1> QED
  BY <1>1, <1>2, <1>3 DEF IsPlace

\* A field of a record and an item of an array are places in what holds them.
LEMMA PartIsPlace ==
    ASSUME NEW R, NEW P, IsPlace(R, P), NEW A, A = At(R, P),
           A = [j \in DOMAIN A |-> A[j]], NEW k \in Keys, k \in DOMAIN A
    PROVE  /\ IsPlace(R, Append(P, k))
           /\ At(R, Append(P, k)) = A[k]
           /\ \A x : Stored(R, Append(P, k), x) = Stored(R, P, Changed(A, k, x))
<1> DEFINE Q == Append(P, k)
<1>1. P \in Places /\ Q \in Places
  BY Longer DEF IsPlace
<1>2. \A r : At(r, Q) = At(r, P)[k]
  BY <1>1, AtPlace
<1>3. ASSUME NEW r, NEW x PROVE Stored(r, Q, x) = Stored(r, P, Changed(At(r, P), k, x))
  BY <1>1, StoredPlace
<1> HIDE DEF Q
<1>4. \A x : Stored(R, Q, x) = Stored(R, P, Changed(A, k, x))
  BY <1>3
<1>5. ASSUME NEW y PROVE At(Stored(R, Q, y), P) = Changed(A, k, y) /\ At(Stored(R, Q, y), Q) = y
  <2>1. At(Stored(R, Q, y), P) = Changed(A, k, y)
    BY <1>4 DEF IsPlace
  <2>2. Changed(A, k, y)[k] = y
    BY DEF Changed
  <2> QED
    BY <1>2, <2>1, <2>2
<1>6. ASSUME NEW y, NEW z PROVE Stored(Stored(R, Q, y), Q, z) = Stored(R, Q, z)
  <2> DEFINE B == Changed(A, k, y)
             C == Changed(A, k, z)
  <2>1. Changed(B, k, z) = C
    BY DEF Changed
  <2>2. Stored(R, Q, y) = Stored(R, P, B) /\ Stored(R, Q, z) = Stored(R, P, C)
    BY <1>4
  <2>3. Stored(Stored(R, Q, y), Q, z) = Stored(Stored(R, Q, y), P, Changed(At(Stored(R, Q, y), P), k, z))
    BY <1>3
  <2>4. At(Stored(R, Q, y), P) = B
    BY <1>5
  <2> HIDE DEF B, C
  <2>5. Stored(Stored(R, P, B), P, C) = Stored(R, P, C)
    BY DEF IsPlace
  <2> QED
    BY <2>1, <2>2, <2>3, <2>4, <2>5
<1>7. Stored(R, Q, At(R, Q)) = R
  <2>1. At(R, Q) = A[k] /\ Changed(A, k, A[k]) = A
    BY <1>2 DEF Changed
  <2> QED
    BY <1>4, <2>1 DEF IsPlace
<1> QED
  BY <1>1, <1>2, <1>4, <1>5, <1>6, <1>7 DEF IsPlace, Q

LEMMA StaysPlace ==
    ASSUME NEW R, NEW P, IsPlace(R, P)
    PROVE  \A y : /\ IsPlace(Stored(R, P, y), P)
                  /\ At(Stored(R, P, y), P) = y
                  /\ \A z : Stored(Stored(R, P, y), P, z) = Stored(R, P, z)
BY DEF IsPlace

-----------------------------------------------------------------------------
(* Running calls.  A state is what a call reads and writes.                  *)

State(l, r, o, x) == [locals |-> l, record |-> r, out |-> o, status |-> x]

\* The class of the value that c is made on has the method, and it finds the
\* field or the item.
Found(S, c, s) ==
    LET p == s.locals[c.on]
        v == At(s.record, p)
    IN  /\ p # Garbage
        /\ c.op \in Methods(SchemaAt(S, p).type)
        /\ c.op = "get_by_name" => c.name \in DOMAIN v
        /\ c.op = "get_by_index" => c.index \in DOMAIN v

Assigned(s, c, x) == [s.locals EXCEPT ![c.to] = x]

\* Made in state s by a function that has read schema S, c leads to t.
Did(S, c, s, t) ==
    LET p == s.locals[c.on]
        v == At(s.record, p)
    IN  \/ /\ c.op = "zero"
           /\ t = State(Assigned(s, c, 0), s.record, s.out, s.status)
        \/ /\ c.op \in CallNames /\ p # Garbage /\ ~Found(S, c, s)
           /\ t = State(s.locals, s.record, s.out, "einval")
        \/ /\ c.op \in {"get_by_name", "get_by_index"} /\ Found(S, c, s)
           /\ t = State(Assigned(s, c, Append(p, IF c.op = "get_by_name" THEN c.name ELSE c.index)),
                        s.record, s.out, s.status)
        \/ /\ c.op = "append" /\ Found(S, c, s)
           /\ t = State(Assigned(s, c, Append(p, Len(v) + 1)),
                        Stored(s.record, p, Append(v, New(SchemaAt(S, p).items))), s.out, s.status)
        \/ /\ c.op = "get_size" /\ Found(S, c, s)
           /\ t = State(Assigned(s, c, Cardinality(DOMAIN v)), s.record, s.out, s.status)
        \/ /\ c.op \in UNION Range(Setters) /\ Found(S, c, s)
           /\ t = State(s.locals, Stored(s.record, p, c.value), s.out, s.status)
        \/ /\ c.op \in UNION Range(Getters) /\ Found(S, c, s)
           /\ t = State(s.locals, s.record, Stored(s.out, c.to, Converted(c.op, c.to, v)), s.status)
        \/ /\ c.op = "xmalloc" /\ p # Garbage
           /\ t = State(s.locals, s.record, Stored(s.out, c.to, [k \in 1..p |-> c.element]), s.status)
        \/ /\ c.op = "return" /\ p # Garbage
           /\ t = State(s.locals, s.record, IF Accepts(p) THEN 0 ELSE -1, s.status)

RoundsOf(c, s) == FlattenSeq([k \in 1..s.locals[c.on] |-> Round(c.loop, c.element, k)])

IsList(cs) == \E C : cs \in Seq(C)

\* One step of a function: x and y are pairs of the calls left and the state.
Moves(S, x, y) ==
    /\ x[1] # <<>>
    /\ \/ /\ Did(S, Head(x[1]), x[2], y[2])
          /\ y[1] = Tail(x[1])
       \/ /\ Head(x[1]).op = "for" /\ x[2].locals[Head(x[1]).on] # Garbage
          /\ IsList(RoundsOf(Head(x[1]), x[2]))
          /\ y[1] = RoundsOf(Head(x[1]), x[2]) \o Tail(x[1])
          /\ y[2] = x[2]

LEMMA Lists ==
    /\ \A a, b : IsList(a) /\ IsList(b) => IsList(a \o b)
    /\ \A a, b, c : IsList(a) /\ IsList(b) /\ IsList(c) => (a \o b) \o c = a \o (b \o c)
    /\ \A a, b : IsList(a) /\ IsList(b) /\ a # <<>> =>
         a \o b # <<>> /\ Head(a \o b) = Head(a) /\ Tail(a \o b) = Tail(a) \o b
    /\ \A a : IsList(a) => a \o <<>> = a /\ <<>> \o a = a
    /\ \A a : IsList(a) /\ a # <<>> => IsList(Tail(a)) /\ <<Head(a)>> \o Tail(a) = a
    /\ IsList(<<>>) /\ \A c : IsList(<<c>>)
<1>1. ASSUME NEW C, NEW D PROVE \A a \in Seq(C) : a \in Seq(C \cup D) /\ a \in Seq(D \cup C)
  OBVIOUS
<1>2. ASSUME NEW a, NEW b, IsList(a), IsList(b) PROVE \E C : a \in Seq(C) /\ b \in Seq(C)
  <2>1. PICK C : a \in Seq(C)
    BY <1>2 DEF IsList
  <2>2. PICK D : b \in Seq(D)
    BY <1>2 DEF IsList
  <2>3. a \in Seq(C \cup D) /\ b \in Seq(C \cup D)
    BY <1>1, <2>1, <2>2
  <2> QED
    BY <2>3
<1>3. ASSUME NEW a, NEW b, NEW C, a \in Seq(C), b \in Seq(C)
      PROVE  /\ a \o b \in Seq(C)
             /\ a # <<>> => a \o b # <<>> /\ Head(a \o b) = Head(a) /\ Tail(a \o b) = Tail(a) \o b
  <2>1. /\ a \o b \in Seq(C) /\ Len(a) \in Nat /\ Len(b) \in Nat /\ Len(a \o b) = Len(a) + Len(b)
        /\ \A i \in 1..(Len(a) + Len(b)) :
             (a \o b)[i] = IF i <= Len(a) THEN a[i] ELSE b[i - Len(a)]
    BY <1>3
  <2>2. ASSUME a # <<>> PROVE Head(a \o b) = Head(a) /\ Tail(a \o b) = Tail(a) \o b /\ a \o b # <<>>
    <3>1. Len(a) > 0 /\ Tail(a) \in Seq(C) /\ Len(Tail(a)) = Len(a) - 1
          /\ \A i \in 1..(Len(a) - 1) : Tail(a)[i] = a[i + 1]
      BY <1>3, <2>2
    <3>2. a \o b # <<>> /\ Tail(a \o b) \in Seq(C) /\ Len(Tail(a \o b)) = Len(a) + Len(b) - 1
          /\ \A i \in 1..(Len(a) + Len(b) - 1) : Tail(a \o b)[i] = (a \o b)[i + 1]
      BY <1>3, <2>1, <2>2, <3>1
    <3>3. Tail(a) \o b \in Seq(C) /\ Len(Tail(a) \o b) = Len(a) + Len(b) - 1
          /\ \A i \in 1..(Len(a) + Len(b) - 1) :
               (Tail(a) \o b)[i] = IF i <= Len(a) - 1 THEN Tail(a)[i] ELSE b[i - (Len(a) - 1)]
      BY <1>3, <2>1, <3>1
    <3>4. Head(a \o b) = Head(a)
      BY <1>3, <2>1, <3>1, <3>2
    <3>5. \A i \in 1..(Len(a) + Len(b) - 1) : Tail(a \o b)[i] = (Tail(a) \o b)[i]
      BY <2>1, <3>1, <3>2, <3>3
    <3> QED
      BY <3>2, <3>3, <3>4, <3>5
  <2> QED
    BY <2>1, <2>2
<1>4. ASSUME NEW a, NEW b, NEW c, IsList(a), IsList(b), IsList(c)
      PROVE  (a \o b) \o c = a \o (b \o c)
  <2>1. PICK C : a \in Seq(C) /\ b \in Seq(C)
    BY <1>2, <1>4
  <2>2. PICK D : c \in Seq(D)
    BY <1>4 DEF IsList
  <2>3. PICK E : E = C \cup D
    OBVIOUS
  <2>4. a \in Seq(E) /\ b \in Seq(E) /\ c \in Seq(E)
    BY <1>1, <2>1, <2>2, <2>3
  <2> QED
    BY <2>4, ConcatAssociative
<1>5. ASSUME NEW a, IsList(a) PROVE a \o <<>> = a /\ <<>> \o a = a
  BY <1>5, ConcatEmptySeq DEF IsList
<1>6. ASSUME NEW a, IsList(a), a # <<>> PROVE IsList(Tail(a)) /\ <<Head(a)>> \o Tail(a) = a
  BY <1>6 DEF IsList
<1>7. IsList(<<>>) /\ \A c : IsList(<<c>>)
  <2>1. \A c : <<c>> \in Seq({c}) /\ <<>> \in Seq({c})
    OBVIOUS
  <2> QED
    BY <2>1 DEF IsList
<1> QED
  BY <1>2, <1>3, <1>4, <1>5, <1>6, <1>7 DEF IsList

\* W holds the rest of a run that ends in state t, with no call failing when it
\* ends with "ok".
Runs(S, W, t) ==
    \A x \in W : /\ x = <<x[1], x[2]>> /\ IsList(x[1]) /\ x[2].status \in {"ok", t.status}
                 /\ x = << <<>>, t>> \/ \E y \in W : Moves(S, x, y)

\* A function that has the calls cs left in state s can only end in t.
Run(S, cs, s, t) == \E W : <<cs, s>> \in W /\ Runs(S, W, t)

LEMMA RunNothing == \A S, s : Run(S, <<>>, s, s)
<1> SUFFICES ASSUME NEW S, NEW s PROVE Run(S, <<>>, s, s)
  OBVIOUS
<1> DEFINE W == {<< <<>>, s>>}
<1>1. Runs(S, W, s)
  BY Lists DEF Runs
<1>2. << <<>>, s>> \in W
  OBVIOUS
<1> QED
  BY <1>1, <1>2 DEF Run

LEMMA RunOne ==
    ASSUME NEW S, NEW c, NEW s, NEW t, s.status \in {"ok", t.status}, Did(S, c, s, t)
    PROVE  Run(S, <<c>>, s, t)
<1> DEFINE x == << <<c>>, s>>
           y == << <<>>, t>>
           W == {x, y}
<1>1. /\ x = <<x[1], x[2]>> /\ x[1] = <<c>> /\ x[2] = s
      /\ y = <<y[1], y[2]>> /\ y[1] = <<>> /\ y[2] = t
  OBVIOUS
<1>2. Head(<<c>>) = c /\ Tail(<<c>>) = <<>> /\ <<c>> # <<>>
  OBVIOUS
<1>3. Moves(S, x, y)
  BY <1>1, <1>2 DEF Moves
<1>4. Runs(S, W, t)
  <2>1. IsList(x[1]) /\ IsList(y[1])
    BY <1>1, Lists
  <2> HIDE DEF x, y
  <2> QED
    BY <1>1, <1>3, <2>1 DEF Runs
<1> QED
  BY <1>4 DEF Run

\* One run after another.
LEMMA RunBoth ==
    ASSUME NEW S, NEW a, NEW b, NEW s, NEW t, NEW u, Run(S, a, s, t), Run(S, b, t, u)
    PROVE  Run(S, a \o b, s, u)
<1>1. PICK V : <<a, s>> \in V /\ Runs(S, V, t)
  BY DEF Run
<1>2. PICK W : <<b, t>> \in W /\ Runs(S, W, u)
  BY DEF Run
<1>3. IsList(a) /\ IsList(b)
  BY <1>1, <1>2 DEF Runs
<1> DEFINE Then(x) == <<x[1] \o b, x[2]>>
           X == {Then(x) : x \in V}
<1>4. ASSUME NEW x \in V
      PROVE  /\ IsList(x[1] \o b) /\ x[2].status \in {"ok", u.status}
             /\ Then(x) = <<b, t>> \/ \E y \in V : Moves(S, Then(x), Then(y))
  <2>1. x = <<x[1], x[2]>> /\ IsList(x[1])
    BY <1>1 DEF Runs
  <2>2. IsList(x[1] \o b) /\ x[2].status \in {"ok", u.status}
    <3>1. x[2].status \in {"ok", t.status}
      BY <1>1 DEF Runs
    <3>2. <<b, t>>[2] = t /\ <<b, t>>[2].status \in {"ok", u.status}
      BY <1>2 DEF Runs
    <3> QED
      BY <1>3, <2>1, <3>1, <3>2, Lists
  <2>3. ASSUME x = << <<>>, t>> PROVE Then(x) = <<b, t>>
    <3>1. x[1] = <<>> /\ x[2] = t
      BY <2>3
    <3>2. <<>> \o b = b
      BY <1>3, Lists
    <3> QED
      BY <3>1, <3>2
  <2>4. ASSUME NEW y \in V, Moves(S, x, y) PROVE Moves(S, Then(x), Then(y))
    <3>1. x[1] # <<>>
      BY <2>4 DEF Moves
    <3>2. /\ x[1] \o b # <<>> /\ Head(x[1] \o b) = Head(x[1])
          /\ Tail(x[1] \o b) = Tail(x[1]) \o b /\ IsList(Tail(x[1]))
      BY <1>3, <2>1, <3>1, Lists
    <3>3. /\ Then(x)[1] = x[1] \o b /\ Then(x)[2] = x[2]
          /\ Then(y)[1] = y[1] \o b /\ Then(y)[2] = y[2]
      OBVIOUS
    <3> HIDE DEF Then
    <3>4. CASE Did(S, Head(x[1]), x[2], y[2]) /\ y[1] = Tail(x[1])
      BY <3>2, <3>3, <3>4 DEF Moves
    <3>5. CASE /\ Head(x[1]).op = "for" /\ x[2].locals[Head(x[1]).on] # Garbage
               /\ y[1] = RoundsOf(Head(x[1]), x[2]) \o Tail(x[1]) /\ IsList(RoundsOf(Head(x[1]), x[2]))
               /\ y[2] = x[2]
      <4>1. y[1] \o b = RoundsOf(Head(x[1]), x[2]) \o Tail(x[1] \o b)
        <5>1. (RoundsOf(Head(x[1]), x[2]) \o Tail(x[1])) \o b = RoundsOf(Head(x[1]), x[2]) \o (Tail(x[1]) \o b)
          <6>1. \A p, q, r : IsList(p) /\ IsList(q) /\ IsList(r) => (p \o q) \o r = p \o (q \o r)
            BY Lists
          <6>2. PICK R, T : R = RoundsOf(Head(x[1]), x[2]) /\ T = Tail(x[1])
            OBVIOUS
          <6>3. IsList(R) /\ IsList(T) /\ IsList(b)
            BY <1>3, <3>2, <3>5, <6>2
          <6>4. (R \o T) \o b = R \o (T \o b)
            BY <6>1, <6>3
          <6> QED
            BY <6>2, <6>4
        <5> QED
          BY <3>2, <3>5, <5>1, Zenon
      <4> QED
        BY <3>2, <3>3, <3>5, <4>1 DEF Moves
    <3> QED
      BY <2>4, <3>4, <3>5 DEF Moves
  <2> QED
    BY <1>1, <2>1, <2>2, <2>3, <2>4 DEF Runs
<1>5. Runs(S, X \cup W, u)
  <2>1. ASSUME NEW z \in X
        PROVE  /\ z = <<z[1], z[2]>> /\ IsList(z[1]) /\ z[2].status \in {"ok", u.status}
               /\ z = << <<>>, u>> \/ \E y \in X \cup W : Moves(S, z, y)
    <3>1. PICK x \in V : z = Then(x)
      OBVIOUS
    <3>2. z = <<z[1], z[2]>> /\ z[1] = x[1] \o b /\ z[2] = x[2]
      BY <3>1
    <3>3. z = <<b, t>> \/ \E y \in V : Moves(S, z, Then(y))
      BY <1>4, <3>1
    <3>4. <<b, t>> = << <<>>, u>> \/ \E y \in W : Moves(S, <<b, t>>, y)
      BY <1>2 DEF Runs
    <3> QED
      BY <1>2, <1>4, <3>2, <3>3, <3>4
  <2>2. \A z \in W : /\ z = <<z[1], z[2]>> /\ IsList(z[1]) /\ z[2].status \in {"ok", u.status}
                     /\ z = << <<>>, u>> \/ \E y \in X \cup W : Moves(S, z, y)
    BY <1>2 DEF Runs
  <2> HIDE DEF X
  <2> QED
    BY <2>1, <2>2 DEF Runs
<1>6. <<a \o b, s>> \in X
  BY <1>1
<1> QED
  BY <1>5, <1>6 DEF Run

\* A loop is its rounds.
LEMMA RunLoop ==
    ASSUME NEW S, NEW c, c.op = "for", NEW s, s.locals[c.on] # Garbage,
           NEW t, Run(S, RoundsOf(c, s), s, t)
    PROVE  Run(S, <<c>>, s, t)
<1>1. PICK W : <<RoundsOf(c, s), s>> \in W /\ Runs(S, W, t)
  BY DEF Run
<1>2. PICK R : R = RoundsOf(c, s)
  OBVIOUS
<1> DEFINE x == << <<c>>, s>>
           y == <<R, s>>
<1>3. /\ x = <<x[1], x[2]>> /\ x[1] = <<c>> /\ x[2] = s /\ y[1] = R /\ y[2] = s
      /\ Head(<<c>>) = c /\ Tail(<<c>>) = <<>> /\ <<c>> # <<>> /\ y \in W
  BY <1>1, <1>2
<1>4. IsList(R)
  BY <1>1, <1>3 DEF Runs
<1>5. R \o <<>> = R /\ IsList(<<c>>)
  BY <1>4, Lists
<1> HIDE DEF x, y
<1>6. Moves(S, x, y)
  BY <1>2, <1>3, <1>4, <1>5 DEF Moves
<1>7. Runs(S, W \cup {x}, t)
  BY <1>1, <1>3, <1>5, <1>6 DEF Runs
<1> QED
  BY <1>7 DEF Run, x

\* What a run does first, and what is left of it.
LEMMA RunStep ==
    ASSUME NEW S, NEW cs, cs # <<>>, NEW s, NEW t, Run(S, cs, s, t)
    PROVE  \E y : Moves(S, <<cs, s>>, y) /\ Run(S, y[1], y[2], t)
<1>1. PICK W : <<cs, s>> \in W /\ Runs(S, W, t)
  BY DEF Run
<1>2. <<cs, s>> # << <<>>, t>>
  OBVIOUS
<1>3. PICK y \in W : Moves(S, <<cs, s>>, y)
  BY <1>1, <1>2 DEF Runs
<1>4. y = <<y[1], y[2]>>
  BY <1>1, <1>3 DEF Runs
<1> QED
  BY <1>1, <1>3, <1>4 DEF Run

LEMMA RunEnd ==
    ASSUME NEW S, NEW s, NEW t, Run(S, <<>>, s, t)
    PROVE  s = t
<1>1. PICK W : << <<>>, s>> \in W /\ Runs(S, W, t)
  BY DEF Run
<1>2. \A y : ~Moves(S, << <<>>, s>>, y)
  BY DEF Moves
<1>3. << <<>>, s>> = << <<>>, t>>
  BY <1>1, <1>2 DEF Runs
<1> QED
  BY <1>3

Flattening(rs, n, h) == h = [i \in 1..n |-> IF i = 1 THEN rs[i] ELSE h[i - 1] \o rs[i]]

LEMMA FlattenIs ==
    ASSUME NEW rs, Len(rs) \in Nat, Len(rs) # 0
    PROVE  \E h : /\ h[1] = rs[1]
                  /\ \A i \in 1..(Len(rs) - 1) : h[i + 1] = h[i] \o rs[i + 1]
                  /\ FlattenSeq(rs) = h[Len(rs)]
<1> DEFINE F(h, n) == [i \in 1..n |-> IF i = 1 THEN rs[i] ELSE h[i - 1] \o rs[i]]
           T == {n \in Nat : \E h : h = F(h, n)}
<1>1. 0 \in T
  <2>1. <<>> = F(<<>>, 0)
    OBVIOUS
  <2> QED
    BY <2>1
<1>2. ASSUME NEW n \in T PROVE n + 1 \in T
  <2>1. PICK h : h = F(h, n)
    BY <1>2
  <2> DEFINE x == IF n = 0 THEN rs[n + 1] ELSE h[n] \o rs[n + 1]
             g == [i \in 1..(n + 1) |-> IF i = n + 1 THEN x ELSE h[i]]
  <2>2. n \in Nat
    OBVIOUS
  <2>3. \A i \in 1..n : h[i] = IF i = 1 THEN rs[i] ELSE h[i - 1] \o rs[i]
    BY <2>1
  <2>4. \A i \in 1..n : g[i] = h[i]
    BY <2>2
  <2>5. g[n + 1] = x
    BY <2>2
  <2>6. g = [i \in 1..(n + 1) |-> g[i]]
    OBVIOUS
  <2>7. x = IF n + 1 = 1 THEN rs[n + 1] ELSE h[n] \o rs[n + 1]
    BY <2>2
  <2> HIDE DEF g, x
  <2>8. \A i \in 1..(n + 1) : g[i] = IF i = 1 THEN rs[i] ELSE g[i - 1] \o rs[i]
    <3>1. ASSUME NEW i \in 1..n PROVE g[i] = IF i = 1 THEN rs[i] ELSE g[i - 1] \o rs[i]
      <4>1. i = 1 \/ i - 1 \in 1..n
        BY <2>2
      <4> QED
        BY <2>3, <2>4, <4>1
    <3>2. g[n + 1] = IF n + 1 = 1 THEN rs[n + 1] ELSE g[(n + 1) - 1] \o rs[n + 1]
      <4>1. (n + 1) - 1 = n /\ (n + 1 # 1 => n \in 1..n)
        BY <2>2
      <4> QED
        BY <2>4, <2>5, <2>7, <4>1
    <3>3. \A i \in 1..(n + 1) : i \in 1..n \/ i = n + 1
      BY <2>2
    <3> QED
      BY <3>1, <3>2, <3>3
  <2>9. g = F(g, n + 1)
    BY <2>6, <2>8
  <2>10. n + 1 \in Nat
    BY <2>2
  <2>11. \E k : k = F(k, n + 1)
    BY <2>9
  <2> QED
    BY <2>10, <2>11, Zenon
<1>3. T \in SUBSET Nat
  OBVIOUS
<1> HIDE DEF T
<1>4. Len(rs) \in T
  BY <1>1, <1>2, <1>3, Induction
<1>5. \E h : Flattening(rs, Len(rs), h)
  BY <1>4 DEF T, Flattening
<1> DEFINE h == CHOOSE h : Flattening(rs, Len(rs), h)
<1>6. Flattening(rs, Len(rs), h)
  BY <1>5
<1>7. FlattenSeq(rs) = h[Len(rs)]
  BY DEF FlattenSeq, Flattening
<1> HIDE DEF h
<1>8. \A i \in 1..Len(rs) : h[i] = IF i = 1 THEN rs[i] ELSE h[i - 1] \o rs[i]
  BY <1>6 DEF Flattening
<1>9. h[1] = rs[1]
  BY <1>8
<1>10. ASSUME NEW i \in 1..(Len(rs) - 1) PROVE h[i + 1] = h[i] \o rs[i + 1]
  <2>1. i + 1 \in 1..Len(rs) /\ i + 1 # 1 /\ (i + 1) - 1 = i
    OBVIOUS
  <2> QED
    BY <1>8, <2>1
<1> QED
  BY <1>7, <1>9, <1>10

\* The calls lead from every state of X to one of Z.
Leads(S, X, cs, Z) == \A s \in X : \E t \in Z : Run(S, cs, s, t)

\* Round i leads from the states X[i - 1] to the states X[i].
RoundsLead(S, X, rs, n) == \A i \in 1..n : Leads(S, X[i - 1], rs[i], X[i])

\* Rounds one after the other.
LEMMA LeadsRounds ==
    ASSUME NEW S, NEW n \in Nat, NEW rs, rs = [i \in 1..n |-> rs[i]], NEW X,
           RoundsLead(S, X, rs, n)
    PROVE  Leads(S, X[0], FlattenSeq(rs), X[n])
<1>1. Len(rs) = n
  OBVIOUS
<1>2. CASE n = 0
  <2>1. rs = <<>>
    BY <1>2
  <2>2. FlattenSeq(rs) = <<>>
    BY <1>1, <1>2, <2>1 DEF FlattenSeq
  <2> QED
    BY <1>2, <2>2, RunNothing DEF Leads
<1>3. CASE n # 0
  <2>1. PICK h : /\ h[1] = rs[1]
                 /\ \A i \in 1..(n - 1) : h[i + 1] = h[i] \o rs[i + 1]
                 /\ FlattenSeq(rs) = h[n]
    BY <1>1, <1>3, FlattenIs
  <2> DEFINE T == {i \in Nat : i + 1 <= n => Leads(S, X[0], h[i + 1], X[i + 1])}
  <2>2. 0 \in T
    <3>1. 1 \in 1..n /\ 1 - 1 = 0 /\ 0 + 1 = 1
      BY <1>3
    <3>2. Leads(S, X[0], rs[1], X[1])
      BY <3>1 DEF RoundsLead
    <3> QED
      BY <2>1, <3>1, <3>2
  <2>3. ASSUME NEW i \in T PROVE i + 1 \in T
    <3> SUFFICES ASSUME (i + 1) + 1 <= n PROVE Leads(S, X[0], h[(i + 1) + 1], X[(i + 1) + 1])
      OBVIOUS
    <3>1. PICK j : j = i + 1
      OBVIOUS
    <3>2. j \in 1..(n - 1) /\ j + 1 \in 1..n /\ (j + 1) - 1 = j /\ Leads(S, X[0], h[j], X[j])
      BY <3>1
    <3>3. h[j + 1] = h[j] \o rs[j + 1] /\ Leads(S, X[j], rs[j + 1], X[j + 1])
      BY <2>1, <3>2 DEF RoundsLead
    <3>4. ASSUME NEW s \in X[0]
          PROVE  \E t \in X[j + 1] : Run(S, h[j] \o rs[j + 1], s, t)
      <4>1. PICK u \in X[j] : Run(S, h[j], s, u)
        BY <3>2 DEF Leads
      <4>2. PICK t \in X[j + 1] : Run(S, rs[j + 1], u, t)
        BY <3>3 DEF Leads
      <4> QED
        BY <4>1, <4>2, RunBoth
    <3> QED
      BY <3>1, <3>3, <3>4 DEF Leads
  <2>4. T \in SUBSET Nat
    OBVIOUS
  <2> HIDE DEF T
  <2>5. n - 1 \in T
    BY <1>3, <2>2, <2>3, <2>4, Induction
  <2>6. (n - 1) + 1 = n /\ n - 1 \in Nat
    BY <1>3
  <2>7. Leads(S, X[0], h[n], X[n])
    BY <2>5, <2>6 DEF T
  <2> QED
    BY <2>1, <2>7
<1> QED
  BY <1>2, <1>3

LEMMA RunStatus ==
    ASSUME NEW S, NEW cs, NEW s, NEW t, Run(S, cs, s, t)
    PROVE  s.status \in {"ok", t.status} /\ IsList(cs)
<1>1. PICK W : <<cs, s>> \in W /\ Runs(S, W, t)
  BY DEF Run
<1>2. IsList(<<cs, s>>[1]) /\ <<cs, s>>[2].status \in {"ok", t.status}
  BY <1>1 DEF Runs
<1> QED
  BY <1>2

-----------------------------------------------------------------------------
(* What the calls of a builder do to its record, wherever the locals they    *)
(* set were before.                                                          *)

\* What a local may be set to.
Marks == Places \cup Nat

\* The locals of a function.
Frames == [Locals -> Marks \cup {Garbage}]

\* From the locals in M, the calls take the record from r to t and the locals
\* back into M.
Turns(S, M, cs, r, t) ==
    \A o : \A l \in M : \E k \in M : Run(S, cs, State(l, r, o, "ok"), State(k, t, o, "ok"))

\* In M the local v refers to P, whatever c is.
Frees(M, v, P, c) ==
    /\ M \subseteq Frames /\ v \in Locals /\ c \in Locals /\ P \in Places
    /\ \A l \in M : l[v] = P
    /\ \A l \in M, q \in Marks : Changed(l, c, q) \in M

\* The part of M where c refers to q.
Where(M, c, q) == {l \in M : l[c] = q}

LEMMA TurnsBoth ==
    ASSUME NEW S, NEW M, NEW a, NEW b, NEW r, NEW t, NEW u,
           Turns(S, M, a, r, t), Turns(S, M, b, t, u)
    PROVE  Turns(S, M, a \o b, r, u)
<1> SUFFICES ASSUME NEW o, NEW l \in M
             PROVE  \E k \in M : Run(S, a \o b, State(l, r, o, "ok"), State(k, u, o, "ok"))
  BY DEF Turns
<1>1. PICK m \in M : Run(S, a, State(l, r, o, "ok"), State(m, t, o, "ok"))
  BY DEF Turns
<1>2. PICK k \in M : Run(S, b, State(m, t, o, "ok"), State(k, u, o, "ok"))
  BY DEF Turns
<1> QED
  BY <1>1, <1>2, RunBoth

LEMMA OpKinds ==
    /\ {"get_by_name", "get_by_index", "append", "get_size"} \subseteq CallNames
    /\ UNION Range(Setters) \subseteq CallNames /\ UNION Range(Getters) \subseteq CallNames
    /\ UNION Range(Setters) = {"set_boolean", "set_int", "set_long", "set_null", "set_enum",
         "set_bytes", "give_bytes", "set_string", "set_string_len", "give_string_len"}
    /\ UNION Range(Getters) = {"get_boolean", "get_int", "get_long", "get_null", "get_enum",
         "get_bytes", "grab_bytes", "get_string", "grab_string"}
    /\ {"zero", "for", "xmalloc", "return"} \cap CallNames = {}
<1> DEFINE Types == {"boolean", "int", "long", "null", "enum", "bytes", "string", "record", "array"}
<1>1. DOMAIN Setters = Types /\ DOMAIN Getters = Types
  BY DEF Setters, Getters
<1>2. \A x : x \in UNION Range(Setters) <=> \E type \in Types : x \in Setters[type]
  BY <1>1 DEF Range
<1>3. \A x : x \in UNION Range(Getters) <=> \E type \in Types : x \in Getters[type]
  BY <1>1 DEF Range
<1>4. \A x : (\E type \in Types : x \in Setters[type]) <=>
        x \in {"set_boolean", "set_int", "set_long", "set_null", "set_enum",
         "set_bytes", "give_bytes", "set_string", "set_string_len", "give_string_len"}
  BY DEF Setters
<1>5. \A x : (\E type \in Types : x \in Getters[type]) <=>
        x \in {"get_boolean", "get_int", "get_long", "get_null", "get_enum",
         "get_bytes", "grab_bytes", "get_string", "grab_string"}
  BY DEF Getters
<1>6. \A x : x \in CallNames <=>
        \E type \in Types : x \in Getters[type] \/ x \in Setters[type]
                            \/ x \in CompoundGetters(type) \/ x \in CompoundSetters(type)
  BY <1>1 DEF CallNames, Methods
<1>7. \A x : (\E type \in Types : x \in CompoundGetters(type) \/ x \in CompoundSetters(type)) <=>
        x \in {"get_by_name", "get_by_index", "append", "get_size"}
  BY DEF CompoundGetters, CompoundSetters
<1> HIDE DEF Types
<1>8. \A x : x \in CallNames <=>
        \/ x \in UNION Range(Setters) \/ x \in UNION Range(Getters)
        \/ x \in {"get_by_name", "get_by_index", "append", "get_size"}
  BY <1>2, <1>3, <1>6, <1>7
<1>9. /\ UNION Range(Setters) = {"set_boolean", "set_int", "set_long", "set_null", "set_enum",
         "set_bytes", "give_bytes", "set_string", "set_string_len", "give_string_len"}
      /\ UNION Range(Getters) = {"get_boolean", "get_int", "get_long", "get_null", "get_enum",
         "get_bytes", "grab_bytes", "get_string", "grab_string"}
  BY <1>2, <1>3, <1>4, <1>5
<1>10. {"get_by_name", "get_by_index", "append", "get_size"} \subseteq CallNames
  BY <1>8
<1>11. UNION Range(Setters) \subseteq CallNames /\ UNION Range(Getters) \subseteq CallNames
  BY <1>8
<1>12. {"zero", "for", "xmalloc", "return"} \cap CallNames = {}
  BY <1>8, <1>9
<1> QED
  BY <1>9, <1>10, <1>11, <1>12

LEMMA ChangedLocal ==
    \A l \in Frames, c \in Locals, q \in Marks :
      /\ Changed(l, c, q) \in Frames /\ Changed(l, c, q)[c] = q
      /\ \A v \in Locals \ {c} : Changed(l, c, q)[v] = l[v]
BY DEF Changed, Frames

LEMMA PlaceIsSet == Garbage \notin Places /\ Garbage \notin Marks /\ Places \subseteq Marks
BY GarbageAssumption DEF Places, Marks

LEMMA FreesMark ==
    ASSUME NEW M, NEW v, NEW P, NEW c, NEW d, Frees(M, v, P, c), Frees(M, v, P, d), c # d,
           NEW q \in Marks
    PROVE  /\ q \in Places => Frees(Where(M, c, q), c, q, d)
           /\ Frees(Where(M, c, q), v, P, d)
<1>1. ASSUME NEW l \in Where(M, c, q), NEW p \in Marks PROVE Changed(l, d, p) \in Where(M, c, q)
  <2>1. l \in Frames /\ l \in M /\ l[c] = q /\ c \in Locals \ {d} /\ d \in Locals
    BY DEF Frees, Where
  <2>2. Changed(l, d, p)[c] = q
    BY <2>1, ChangedLocal
  <2> QED
    BY <2>1, <2>2 DEF Frees, Where
<1> QED
  BY <1>1 DEF Frees, Where

LEMMA FreesWhere ==
    ASSUME NEW M, NEW v, NEW P, NEW c, NEW d, Frees(M, v, P, c), Frees(M, v, P, d), c # d,
           NEW q \in Places
    PROVE  Frees(Where(M, c, q), c, q, d) /\ Frees(Where(M, c, q), v, P, d)
BY FreesMark, PlaceIsSet

\* Setting c leads to where c is set.
LEMMA GoesWhere ==
    ASSUME NEW M, NEW v, NEW P, NEW c, Frees(M, v, P, c), NEW l \in M, NEW q \in Marks
    PROVE  Changed(l, c, q) \in Where(M, c, q)
<1>1. l \in Frames /\ c \in Locals /\ Changed(l, c, q) \in M
  BY DEF Frees
<1>2. Changed(l, c, q)[c] = q
  BY <1>1, ChangedLocal
<1> QED
  BY <1>1, <1>2 DEF Where

\* A local set to a field, then calls that need it there.
LEMMA ByNameTurns ==
    ASSUME NEW S, NEW M, NEW v, NEW P, NEW c, Frees(M, v, P, c), v # c,
           NEW r, NEW f \in Keys, SchemaAt(S, P).type = "record", f \in DOMAIN At(r, P),
           NEW fs, NEW t, Turns(S, Where(M, c, Append(P, f)), fs, r, t)
    PROVE  Turns(S, M, ByName(v, f, c) \o fs, r, t)
<1> SUFFICES ASSUME NEW o, NEW l \in M
             PROVE  \E k \in M : Run(S, ByName(v, f, c) \o fs, State(l, r, o, "ok"), State(k, t, o, "ok"))
  BY DEF Turns
<1> DEFINE call == [op |-> "get_by_name", on |-> v, name |-> f, to |-> c]
           Q == Append(P, f)
           m == Changed(l, c, Q)
           s == State(l, r, o, "ok")
           u == State(m, r, o, "ok")
<1>1. Q \in Places
  BY Longer DEF Frees
<1>2. m \in Where(M, c, Q)
  BY <1>1, PlaceIsSet, GoesWhere
<1>3. /\ call.op = "get_by_name" /\ call.on = v /\ call.name = f /\ call.to = c
      /\ s.locals = l /\ s.record = r /\ s.out = o /\ s.status = "ok" /\ u.status = "ok"
  BY DEF State
<1>4. l[v] = P /\ P # Garbage
  BY PlaceIsSet DEF Frees
<1>5. "get_by_name" \in Methods("record")
  BY DEF Methods, CompoundGetters
<1> HIDE DEF call, s, u, Q, m
<1>6. Found(S, call, s)
  BY <1>3, <1>4, <1>5 DEF Found
<1>7. u = State(Assigned(s, call, Append(l[v], f)), r, o, "ok")
  BY <1>3, <1>4 DEF Assigned, Changed, m, Q, u
<1>8. Did(S, call, s, u)
  BY <1>3, <1>6, <1>7 DEF Did
<1>9. Run(S, <<call>>, s, u)
  BY <1>3, <1>8, RunOne
<1>10. PICK k \in Where(M, c, Q) : Run(S, fs, State(m, r, o, "ok"), State(k, t, o, "ok"))
  BY <1>2 DEF Turns, Q
<1>11. Run(S, <<call>> \o fs, s, State(k, t, o, "ok"))
  BY <1>9, <1>10, RunBoth DEF u
<1> QED
  BY <1>10, <1>11 DEF Where, ByName, call, s

\* A value set where a local refers to.
LEMMA SetTurns ==
    ASSUME NEW S, NEW M, NEW c \in Locals, NEW Q \in Places, \A l \in M : l[c] = Q,
           NEW set \in Setters[SchemaAt(S, Q).type], SchemaAt(S, Q).type \in DOMAIN Setters,
           NEW r, NEW y
    PROVE  Turns(S, M, <<[op |-> set, on |-> c, value |-> y]>>, r, Stored(r, Q, y))
<1> SUFFICES ASSUME NEW o, NEW l \in M
             PROVE  \E k \in M : Run(S, <<[op |-> set, on |-> c, value |-> y]>>,
                                     State(l, r, o, "ok"), State(k, Stored(r, Q, y), o, "ok"))
  BY DEF Turns
<1> DEFINE call == [op |-> set, on |-> c, value |-> y]
           s == State(l, r, o, "ok")
           u == State(l, Stored(r, Q, y), o, "ok")
<1>1. /\ call.op = set /\ call.on = c /\ call.value = y
      /\ s.locals = l /\ s.record = r /\ s.out = o /\ s.status = "ok" /\ u.status = "ok"
  BY DEF State
<1>2. l[c] = Q /\ Q # Garbage
  BY PlaceIsSet
<1>3. set \in Methods(SchemaAt(S, Q).type) /\ set \in UNION Range(Setters)
  BY DEF Methods, Range
<1>4. set # "get_by_name" /\ set # "get_by_index"
  BY <1>3, OpKinds
<1> HIDE DEF call, s, u
<1>5. Found(S, call, s)
  BY <1>1, <1>2, <1>3, <1>4 DEF Found
<1>6. u = State(s.locals, Stored(s.record, s.locals[call.on], call.value), s.out, s.status)
  BY <1>1, <1>2 DEF u
<1>7. Did(S, call, s, u)
  BY <1>1, <1>3, <1>5, <1>6 DEF Did
<1>8. Run(S, <<call>>, s, u)
  BY <1>1, <1>7, RunOne
<1> QED
  BY <1>8 DEF call, s, u

\* A field of a record that is at P.
LEMMA SetFieldTurns ==
    ASSUME NEW S, NEW M, NEW v, NEW P, NEW c, Frees(M, v, P, c), v # c,
           NEW R, IsPlace(R, P), NEW w, w = [g \in DOMAIN w |-> w[g]],
           NEW f \in Keys, f \in DOMAIN w,
           NEW T, T = SchemaAt(S, P), T.type = "record",
           NEW type, type = FieldSchema(T, f).type, type \in DOMAIN Setters,
           NEW set \in Setters[type], NEW y
    PROVE  Turns(S, M, SetField(v, f, c, set, y), Stored(R, P, w), Stored(R, P, Changed(w, f, y)))
<1> DEFINE r == Stored(R, P, w)
           Q == Append(P, f)
<1>1. IsPlace(r, P) /\ At(r, P) = w /\ P \in Places
  BY StaysPlace DEF IsPlace
<1>2. Q \in Places
  BY <1>1, Longer
<1>3. SchemaAt(S, Q).type = type
  <2>1. SchemaAt(S, Q) = Inside(SchemaAt(S, P), f)
    BY <1>1, SchemaAtPlace
  <2> QED
    BY <2>1 DEF Inside
<1>4. Stored(r, Q, y) = Stored(R, P, Changed(w, f, y))
  <2>1. Stored(r, Q, y) = Stored(r, P, Changed(w, f, y))
    BY <1>1, PartIsPlace
  <2> QED
    BY <2>1, StaysPlace
<1>5. c \in Locals /\ \A l \in Where(M, c, Q) : l[c] = Q
  BY DEF Where, Frees
<1> HIDE DEF r, Q
<1>6. Turns(S, Where(M, c, Q), <<[op |-> set, on |-> c, value |-> y]>>, r, Stored(r, Q, y))
  BY <1>2, <1>3, <1>5, SetTurns
<1>7. Turns(S, M, ByName(v, f, c) \o <<[op |-> set, on |-> c, value |-> y]>>, r, Stored(r, Q, y))
  BY <1>1, <1>6, ByNameTurns DEF Q
<1> QED
  BY <1>4, <1>7 DEF SetField, r

LEMMA SetFieldIsList ==
    \A v, f, c, set, y : IsList(ByName(v, f, c)) /\ IsList(SetField(v, f, c, set, y))
BY Lists DEF ByName, SetField

LEMMA NameFields ==
    /\ ProcessName.type = "record"
    /\ FieldSchema(ProcessName, "jobid") = AvroInt /\ FieldSchema(ProcessName, "vpid") = AvroInt
<1>1. /\ ProcessName.type = "record" /\ DOMAIN ProcessName.fields = 1..2
      /\ ProcessName.fields[1] = <<"jobid", AvroInt>> /\ ProcessName.fields[2] = <<"vpid", AvroInt>>
  BY DEF ProcessName, AvroRecord
<1>2. \A i \in 1..2 : i = 1 \/ i = 2
  OBVIOUS
<1>3. (CHOOSE i \in 1..2 : ProcessName.fields[i][1] = "jobid") = 1
  BY <1>1, <1>2
<1>4. (CHOOSE i \in 1..2 : ProcessName.fields[i][1] = "vpid") = 2
  BY <1>1, <1>2
<1> QED
  BY <1>1, <1>3, <1>4 DEF FieldSchema

\* The name in a record that is at P.
LEMMA SetNameTurns ==
    ASSUME NEW S, NEW M, NEW v, NEW P, v \notin {"name_value", "jobid_value", "vpid_value"},
           Frees(M, v, P, "name_value"), Frees(M, v, P, "jobid_value"), Frees(M, v, P, "vpid_value"),
           NEW R, IsPlace(R, P), NEW w, w = [g \in DOMAIN w |-> w[g]], "name" \in DOMAIN w,
           NEW m, m = w["name"], m = [g \in {"jobid", "vpid"} |-> m[g]],
           NEW T, T = SchemaAt(S, P), T.type = "record", FieldSchema(T, "name") = ProcessName,
           NEW name
    PROVE  Turns(S, M, SetName(v, name), Stored(R, P, w),
                 Stored(R, P, Changed(w, "name", [jobid |-> name.jobid, vpid |-> name.vpid])))
<1> DEFINE r == Stored(R, P, w)
           Q == Append(P, "name")
           N == Where(M, "name_value", Q)
           m1 == Changed(m, "jobid", name.jobid)
           m2 == Changed(m1, "vpid", name.vpid)
<1>1. IsPlace(r, P) /\ At(r, P) = w /\ P \in Places /\ {"name", "jobid", "vpid"} \subseteq Keys
  BY StaysPlace DEF IsPlace, Keys
<1>2. Q \in Places
  BY <1>1, Longer
<1>3. SchemaAt(S, Q) = ProcessName
  <2>1. SchemaAt(S, Q) = Inside(SchemaAt(S, P), "name")
    BY <1>1, SchemaAtPlace
  <2> QED
    BY <2>1 DEF Inside
<1>4. /\ IsPlace(r, Q) /\ At(r, Q) = m
      /\ \A x : Stored(r, Q, x) = Stored(r, P, Changed(w, "name", x))
  <2>1. PICK k \in Keys : k = "name"
    BY <1>1
  <2> HIDE DEF r
  <2>2. /\ IsPlace(r, Append(P, k)) /\ At(r, Append(P, k)) = w[k]
        /\ \A x : Stored(r, Append(P, k), x) = Stored(r, P, Changed(w, k, x))
    BY <1>1, <2>1, PartIsPlace
  <2> QED
    BY <2>1, <2>2
<1>5. \A x : Stored(r, Q, x) = Stored(R, P, Changed(w, "name", x))
  BY <1>4, StaysPlace
<1>6. Stored(r, Q, m) = r
  BY <1>4 DEF IsPlace
<1>7. Frees(N, "name_value", Q, "jobid_value") /\ Frees(N, "name_value", Q, "vpid_value")
  BY <1>2, FreesWhere
<1>8. /\ m = [g \in DOMAIN m |-> m[g]] /\ DOMAIN m = {"jobid", "vpid"}
      /\ m1 = [g \in DOMAIN m1 |-> m1[g]] /\ DOMAIN m1 = {"jobid", "vpid"}
      /\ m2 = [jobid |-> name.jobid, vpid |-> name.vpid]
  <2>1. DOMAIN m = {"jobid", "vpid"}
    OBVIOUS
  <2>2. m1 = [g \in {"jobid", "vpid"} |-> IF g = "jobid" THEN name.jobid ELSE m[g]]
    BY <2>1 DEF Changed
  <2>3. DOMAIN m1 = {"jobid", "vpid"} /\ m1["jobid"] = name.jobid
    BY <2>2
  <2> HIDE DEF m1
  <2>4. m2 = [g \in {"jobid", "vpid"} |-> IF g = "vpid" THEN name.vpid ELSE m1[g]]
    BY <2>3 DEF Changed
  <2>5. m2 = [jobid |-> name.jobid, vpid |-> name.vpid]
    BY <2>3, <2>4
  <2>6. m1 = [g \in DOMAIN m1 |-> m1[g]]
    BY <2>2
  <2> QED
    BY <2>1, <2>3, <2>5, <2>6
<1>9. AvroInt.type = "int" /\ "int" \in DOMAIN Setters /\ "set_int" \in Setters["int"]
  BY DEF AvroInt, Setters
<1> HIDE DEF r, Q, N, m1, m2
<1>10. Turns(S, N, SetField("name_value", "jobid", "jobid_value", "set_int", name.jobid),
             Stored(r, Q, m), Stored(r, Q, m1))
  BY <1>1, <1>3, <1>4, <1>7, <1>8, <1>9, NameFields, SetFieldTurns DEF m1
<1>11. Turns(S, N, SetField("name_value", "vpid", "vpid_value", "set_int", name.vpid),
             Stored(r, Q, m1), Stored(r, Q, m2))
  BY <1>1, <1>3, <1>4, <1>7, <1>8, <1>9, NameFields, SetFieldTurns DEF m2
<1> DEFINE a == SetField("name_value", "jobid", "jobid_value", "set_int", name.jobid)
           b == SetField("name_value", "vpid", "vpid_value", "set_int", name.vpid)
           c == ByName(v, "name", "name_value")
<1>12. Turns(S, N, a \o b, r, Stored(r, Q, m2))
  BY <1>6, <1>10, <1>11, TurnsBoth
<1>13. IsList(a) /\ IsList(b) /\ IsList(c)
  BY SetFieldIsList
<1>14. SetName(v, name) = (c \o a) \o b
  BY DEF SetName
<1> HIDE DEF a, b, c
<1>15. (c \o a) \o b = c \o (a \o b)
  <2>1. \A p, q, s : IsList(p) /\ IsList(q) /\ IsList(s) => (p \o q) \o s = p \o (q \o s)
    BY Lists
  <2> QED
    BY <1>13, <2>1
<1>16. Turns(S, M, c \o (a \o b), r, Stored(r, Q, m2))
  BY <1>1, <1>12, ByNameTurns DEF Q, N, c
<1> QED
  BY <1>5, <1>8, <1>14, <1>15, <1>16 DEF r

\* One more item at the end of an array that is at Q, and what is done to it.
LEMMA ItemTurns ==
    ASSUME NEW S, NEW M, NEW v, NEW Q, NEW c, Frees(M, v, Q, c), v # c,
           NEW R, IsPlace(R, Q), NEW vs, IsList(vs), SchemaAt(S, Q).type = "array",
           NEW I, I = SchemaAt(S, Q).items, NEW fs, NEW w,
           \A r, P : /\ IsPlace(r, P) /\ At(r, P) = New(I) /\ SchemaAt(S, P) = I
                     /\ P = Append(Q, Len(vs) + 1)
                     => Turns(S, Where(M, c, P), fs, r, Stored(r, P, w))
    PROVE  Turns(S, M, Item(v, c) \o fs, Stored(R, Q, vs), Stored(R, Q, Append(vs, w)))
<1> SUFFICES ASSUME NEW o, NEW l \in M
             PROVE  \E k \in M : Run(S, Item(v, c) \o fs, State(l, Stored(R, Q, vs), o, "ok"),
                                     State(k, Stored(R, Q, Append(vs, w)), o, "ok"))
  BY DEF Turns
<1> DEFINE k1 == Len(vs) + 1
           V == Append(vs, New(I))
           W == Append(vs, w)
           r == Stored(R, Q, V)
           P == Append(Q, k1)
           call == [op |-> "append", on |-> v, to |-> c]
           m == Changed(l, c, P)
           s == State(l, Stored(R, Q, vs), o, "ok")
           u == State(m, r, o, "ok")
<1>1. /\ k1 \in Nat /\ k1 \in Keys /\ V = [j \in DOMAIN V |-> V[j]] /\ k1 \in DOMAIN V
      /\ V[k1] = New(I) /\ Changed(V, k1, w) = W
  <2>1. PICK C : vs \in Seq(C)
    BY DEF IsList
  <2>2. PICK D : D = C \cup {New(I), w}
    OBVIOUS
  <2>3. vs \in Seq(D) /\ New(I) \in D /\ w \in D
    BY <2>1, <2>2
  <2>4. PICK z : z = New(I)
    OBVIOUS
  <2>5. /\ Len(vs) \in Nat /\ Append(vs, z) \in Seq(D) /\ Append(vs, w) \in Seq(D)
        /\ Len(Append(vs, z)) = Len(vs) + 1 /\ Len(Append(vs, w)) = Len(vs) + 1
        /\ Append(vs, z)[Len(vs) + 1] = z /\ Append(vs, w)[Len(vs) + 1] = w
        /\ \A i \in 1..Len(vs) : Append(vs, z)[i] = vs[i] /\ Append(vs, w)[i] = vs[i]
    BY <2>3, <2>4
  <2>6. \A i \in 1..(Len(vs) + 1) : i \in 1..Len(vs) \/ i = Len(vs) + 1
    BY <2>5
  <2>7. Append(vs, z) = [i \in 1..(Len(vs) + 1) |-> Append(vs, z)[i]]
        /\ Append(vs, w) = [i \in 1..(Len(vs) + 1) |-> Append(vs, w)[i]]
    <3>1. \A a \in Seq(D) : a = [i \in 1..Len(a) |-> a[i]]
      OBVIOUS
    <3> QED
      BY <2>5, <3>1
  <2>8. Changed(Append(vs, z), Len(vs) + 1, w) = Append(vs, w)
    BY <2>5, <2>6, <2>7 DEF Changed
  <2>9. Len(vs) + 1 \in Keys /\ Len(vs) + 1 \in Nat /\ Len(vs) + 1 \in 1..(Len(vs) + 1)
    BY <2>5 DEF Keys
  <2>10. PICK a : a = Append(vs, z)
    OBVIOUS
  <2>11. a = [i \in 1..(Len(vs) + 1) |-> a[i]] /\ a[Len(vs) + 1] = z
    BY <2>5, <2>7, <2>10
  <2>12. DOMAIN a = 1..(Len(vs) + 1)
    BY <2>11
  <2>13. a = [i \in DOMAIN a |-> a[i]]
    BY <2>11, <2>12
  <2>14. V = a /\ W = Append(vs, w)
    BY <2>4, <2>10
  <2> HIDE DEF V, W
  <2> QED
    BY <2>4, <2>8, <2>9, <2>10, <2>11, <2>12, <2>13, <2>14
<1>2. Q \in Places /\ P \in Places
  BY <1>1, Longer DEF IsPlace
<1>3. /\ IsPlace(r, Q) /\ At(r, Q) = V /\ At(Stored(R, Q, vs), Q) = vs
      /\ Stored(Stored(R, Q, vs), Q, V) = r
  <2>1. \A y : /\ IsPlace(Stored(R, Q, y), Q) /\ At(Stored(R, Q, y), Q) = y
               /\ \A z : Stored(Stored(R, Q, y), Q, z) = Stored(R, Q, z)
    BY StaysPlace
  <2> HIDE DEF V
  <2> QED
    BY <2>1
<1>4. SchemaAt(S, P) = I
  <2>1. SchemaAt(S, P) = Inside(SchemaAt(S, Q), k1)
    BY <1>1, <1>2, SchemaAtPlace
  <2> QED
    BY <2>1 DEF Inside
<1>5. /\ IsPlace(r, P) /\ At(r, P) = New(I)
      /\ Stored(r, P, w) = Stored(R, Q, W)
  <2> HIDE DEF V, W, k1
  <2>1. IsPlace(r, P) /\ At(r, P) = V[k1] /\ Stored(r, P, w) = Stored(r, Q, Changed(V, k1, w))
    BY <1>1, <1>3, PartIsPlace
  <2>2. Stored(r, Q, W) = Stored(R, Q, W)
    BY StaysPlace
  <2> QED
    BY <1>1, <2>1, <2>2
<1>6. m \in Where(M, c, P)
  BY <1>2, PlaceIsSet, GoesWhere
<1>7. /\ call.op = "append" /\ call.on = v /\ call.to = c
      /\ s.locals = l /\ s.record = Stored(R, Q, vs) /\ s.out = o /\ s.status = "ok" /\ u.status = "ok"
  BY DEF State
<1>8. l[v] = Q /\ Q # Garbage
  BY <1>2, PlaceIsSet DEF Frees
<1>9. "append" \in Methods("array")
  BY DEF Methods, CompoundSetters
<1>10. Found(S, call, s)
  BY <1>7, <1>8, <1>9 DEF Found
<1>11. At(s.record, l[v]) = vs /\ SchemaAt(S, l[v]).items = I
  BY <1>3, <1>7, <1>8
<1>12. u = State(Assigned(s, call, Append(l[v], Len(vs) + 1)),
                 Stored(s.record, l[v], Append(vs, New(I))), s.out, s.status)
  BY <1>3, <1>7, <1>8 DEF Assigned, Changed
<1> HIDE DEF call, s, u, m, r, P, V, W, k1
<1>13. Did(S, call, s, u)
  BY <1>7, <1>10, <1>11, <1>12 DEF Did
<1>14. Run(S, <<call>>, s, u)
  BY <1>7, <1>13, RunOne
<1>15. Turns(S, Where(M, c, P), fs, r, Stored(r, P, w))
  BY <1>4, <1>5 DEF P, k1
<1>16. PICK k \in Where(M, c, P) : Run(S, fs, u, State(k, Stored(r, P, w), o, "ok"))
  BY <1>6, <1>15 DEF Turns, u
<1>17. Run(S, <<call>> \o fs, s, State(k, Stored(R, Q, W), o, "ok"))
  BY <1>5, <1>14, <1>16, RunBoth
<1>18. k \in M
  BY DEF Where
<1> QED
  BY <1>17, <1>18 DEF Item, call, s, W

\* Item after item.
LEMMA ArrayTurns ==
    ASSUME NEW S, NEW M, NEW R, NEW Q, NEW n \in Nat, NEW rs, rs = [i \in 1..n |-> rs[i]],
           NEW C, NEW ws \in Seq(C), Len(ws) = n,
           \A i \in 1..n, vs \in Seq(C) :
             Turns(S, M, rs[i], Stored(R, Q, vs), Stored(R, Q, Append(vs, ws[i])))
    PROVE  Turns(S, M, FlattenSeq(rs), Stored(R, Q, <<>>), Stored(R, Q, ws))
<1> SUFFICES ASSUME NEW o
             PROVE  \A l \in M : \E k \in M :
                      Run(S, FlattenSeq(rs), State(l, Stored(R, Q, <<>>), o, "ok"),
                                             State(k, Stored(R, Q, ws), o, "ok"))
  BY DEF Turns
<1> DEFINE X == [i \in 0..n |-> {State(l, Stored(R, Q, SubSeq(ws, 1, i)), o, "ok") : l \in M}]
<1>1. SubSeq(ws, 1, 0) = <<>> /\ SubSeq(ws, 1, n) = ws
  OBVIOUS
<1>2. ASSUME NEW i \in 1..n PROVE Leads(S, X[i - 1], rs[i], X[i])
  <2>1. i - 1 \in 0..n /\ i \in 0..n /\ SubSeq(ws, 1, i - 1) \in Seq(C)
    OBVIOUS
  <2>2. SubSeq(ws, 1, i) = Append(SubSeq(ws, 1, i - 1), ws[i])
    <3>1. PICK a : a = SubSeq(ws, 1, i - 1)
      OBVIOUS
    <3>2. PICK b : b = SubSeq(ws, 1, i)
      OBVIOUS
    <3>3. /\ a \in Seq(C) /\ Len(a) = i - 1 /\ \A j \in 1..(i - 1) : a[j] = ws[j]
          /\ b \in Seq(C) /\ Len(b) = i /\ \A j \in 1..i : b[j] = ws[j]
          /\ ws[i] \in C
      BY <3>1, <3>2
    <3>4. b = Append(a, ws[i])
      BY <3>3
    <3> QED
      BY <3>1, <3>2, <3>4
  <2>3. PICK vs \in Seq(C) : vs = SubSeq(ws, 1, i - 1)
    BY <2>1
  <2>4. Turns(S, M, rs[i], Stored(R, Q, vs), Stored(R, Q, Append(vs, ws[i])))
    OBVIOUS
  <2>5. /\ X[i - 1] = {State(l, Stored(R, Q, vs), o, "ok") : l \in M}
        /\ X[i] = {State(l, Stored(R, Q, Append(vs, ws[i])), o, "ok") : l \in M}
    BY <2>1, <2>2, <2>3
  <2> HIDE DEF X
  <2> QED
    BY <2>4, <2>5 DEF Turns, Leads
<1>3. /\ X[0] = {State(l, Stored(R, Q, <<>>), o, "ok") : l \in M}
      /\ X[n] = {State(l, Stored(R, Q, ws), o, "ok") : l \in M}
  <2>1. 0 \in 0..n /\ n \in 0..n
    OBVIOUS
  <2> QED
    BY <1>1, <2>1, Zenon
<1> HIDE DEF X
<1>4. Leads(S, X[0], FlattenSeq(rs), X[n])
  BY <1>2, LeadsRounds DEF RoundsLead
<1> QED
  BY <1>3, <1>4 DEF Leads

-----------------------------------------------------------------------------
(* The schemas, and the records that are made of them.                       *)

LEMMA FieldIs ==
    ASSUME NEW S, NEW i \in DOMAIN S.fields, NEW f, f = S.fields[i][1],
           \A j \in DOMAIN S.fields : S.fields[j][1] = f => j = i
    PROVE  FieldSchema(S, f) = S.fields[i][2]
<1>1. (CHOOSE j \in DOMAIN S.fields : S.fields[j][1] = f) = i
  OBVIOUS
<1> QED
  BY <1>1 DEF FieldSchema

\* The n fields of S have the names in F, each one its own.
Named(S, n, F) ==
    /\ DOMAIN S.fields = 1..n
    /\ \A i, j \in 1..n : S.fields[i][1] = S.fields[j][1] => i = j
    /\ \A f : f \in F <=> \E i \in 1..n : S.fields[i][1] = f

LEMMA RecordFields ==
    ASSUME NEW S, S.type = "record", NEW n, NEW F, Named(S, n, F)
    PROVE  /\ \A i \in 1..n : FieldSchema(S, S.fields[i][1]) = S.fields[i][2]
           /\ New(S) = [f \in F |-> New_1(FieldSchema(S, f))]
           /\ New_1(S) = [f \in F |-> Zeroed(FieldSchema(S, f))]
<1>1. ASSUME NEW i \in 1..n PROVE FieldSchema(S, S.fields[i][1]) = S.fields[i][2]
  <2>1. i \in DOMAIN S.fields
    BY DEF Named
  <2>2. \A j \in DOMAIN S.fields : S.fields[j][1] = S.fields[i][1] => j = i
    BY DEF Named
  <2> QED
    BY <2>1, <2>2, FieldIs
<1>2. F = {S.fields[i][1] : i \in DOMAIN S.fields}
  BY DEF Named
<1>3. New(S) = [f \in F |-> New_1(FieldSchema(S, f))]
  BY <1>2 DEF New, NewWith
<1>4. New_1(S) = [f \in F |-> Zeroed(FieldSchema(S, f))]
  BY <1>2 DEF New_1, NewWith
<1> QED
  BY <1>1, <1>3, <1>4

LEMMA OneFieldRecord ==
    ASSUME NEW f, NEW T, NEW S, S = AvroRecord(<< <<f, T>> >>)
    PROVE  /\ S.type = "record" /\ FieldSchema(S, f) = T
           /\ New(S) = [g \in {f} |-> New_1(FieldSchema(S, g))]
<1>1. /\ S.type = "record" /\ DOMAIN S.fields = 1..1 /\ S.fields[1] = <<f, T>>
  BY DEF AvroRecord
<1>2. 1..1 = {1}
  OBVIOUS
<1>3. \A x : x \in {f} <=> \E i \in 1..1 : S.fields[i][1] = x
  BY <1>1, <1>2
<1>4. 1 \in Nat /\ 1 \in 1..1 /\ \A i, j \in 1..1 : i = j
  OBVIOUS
<1>5. /\ \A i \in 1..1 : FieldSchema(S, S.fields[i][1]) = S.fields[i][2]
      /\ New(S) = [g \in {f} |-> New_1(FieldSchema(S, g))]
  <2>1. PICK F : F = {f}
    OBVIOUS
  <2>2. Named(S, 1, F)
    BY <1>1, <1>3, <1>4, <2>1 DEF Named
  <2>3. /\ \A i \in 1..1 : FieldSchema(S, S.fields[i][1]) = S.fields[i][2]
        /\ New(S) = [g \in F |-> New_1(FieldSchema(S, g))]
    BY <1>1, <2>2, RecordFields
  <2> QED
    BY <2>1, <2>3
<1> QED
  BY <1>1, <1>3, <1>4, <1>5

LEMMA TwoFieldRecord ==
    ASSUME NEW f, NEW T, NEW g, NEW U, f # g, NEW S, S = AvroRecord(<< <<f, T>>, <<g, U>> >>)
    PROVE  /\ S.type = "record" /\ FieldSchema(S, f) = T /\ FieldSchema(S, g) = U
           /\ New(S) = [x \in {f, g} |-> New_1(FieldSchema(S, x))]
           /\ New_1(S) = [x \in {f, g} |-> Zeroed(FieldSchema(S, x))]
<1>1. /\ S.type = "record" /\ DOMAIN S.fields = 1..2
      /\ S.fields[1] = <<f, T>> /\ S.fields[2] = <<g, U>>
  BY DEF AvroRecord
<1>2. 1..2 = {1, 2}
  OBVIOUS
<1>3. \A x : x \in {f, g} <=> \E i \in 1..2 : S.fields[i][1] = x
  BY <1>1, <1>2
<1>4. \A i, j \in 1..2 : S.fields[i][1] = S.fields[j][1] => i = j
  BY <1>1, <1>2
<1>5. 2 \in Nat /\ 1 \in 1..2 /\ 2 \in 1..2
  OBVIOUS
<1>6. /\ \A i \in 1..2 : FieldSchema(S, S.fields[i][1]) = S.fields[i][2]
      /\ New(S) = [x \in {f, g} |-> New_1(FieldSchema(S, x))]
      /\ New_1(S) = [x \in {f, g} |-> Zeroed(FieldSchema(S, x))]
  <2>1. PICK F : F = {f, g}
    OBVIOUS
  <2>2. Named(S, 2, F)
    BY <1>1, <1>3, <1>4, <2>1 DEF Named
  <2>3. /\ \A i \in 1..2 : FieldSchema(S, S.fields[i][1]) = S.fields[i][2]
        /\ New(S) = [x \in F |-> New_1(FieldSchema(S, x))]
        /\ New_1(S) = [x \in F |-> Zeroed(FieldSchema(S, x))]
    BY <1>1, <2>2, RecordFields
  <2> QED
    BY <2>1, <2>3
<1>7. FieldSchema(S, f) = T /\ FieldSchema(S, g) = U
  BY <1>1, <1>5, <1>6
<1> QED
  BY <1>1, <1>3, <1>6, <1>7

LEMMA ThreeFieldRecord ==
    ASSUME NEW f, NEW T, NEW g, NEW U, NEW h, NEW V, f # g, g # h, f # h,
           NEW S, S = AvroRecord(<< <<f, T>>, <<g, U>>, <<h, V>> >>)
    PROVE  /\ S.type = "record"
           /\ FieldSchema(S, f) = T /\ FieldSchema(S, g) = U /\ FieldSchema(S, h) = V
           /\ New(S) = [x \in {f, g, h} |-> New_1(FieldSchema(S, x))]
<1>1. /\ S.type = "record" /\ DOMAIN S.fields = 1..3
      /\ S.fields[1] = <<f, T>> /\ S.fields[2] = <<g, U>> /\ S.fields[3] = <<h, V>>
  BY DEF AvroRecord
<1>2. 1..3 = {1, 2, 3}
  OBVIOUS
<1>3. \A x : x \in {f, g, h} <=> \E i \in 1..3 : S.fields[i][1] = x
  BY <1>1, <1>2
<1>4. \A i, j \in 1..3 : S.fields[i][1] = S.fields[j][1] => i = j
  BY <1>1, <1>2
<1>5. 3 \in Nat /\ 1 \in 1..3 /\ 2 \in 1..3 /\ 3 \in 1..3
  OBVIOUS
<1>6. /\ \A i \in 1..3 : FieldSchema(S, S.fields[i][1]) = S.fields[i][2]
      /\ New(S) = [x \in {f, g, h} |-> New_1(FieldSchema(S, x))]
  <2>1. PICK F : F = {f, g, h}
    OBVIOUS
  <2>2. Named(S, 3, F)
    BY <1>1, <1>3, <1>4, <2>1 DEF Named
  <2>3. /\ \A i \in 1..3 : FieldSchema(S, S.fields[i][1]) = S.fields[i][2]
        /\ New(S) = [x \in F |-> New_1(FieldSchema(S, x))]
    BY <1>1, <2>2, RecordFields
  <2> QED
    BY <2>1, <2>3
<1>7. FieldSchema(S, f) = T /\ FieldSchema(S, g) = U /\ FieldSchema(S, h) = V
  <2>1. FieldSchema(S, S.fields[1][1]) = S.fields[1][2]
    BY <1>5, <1>6
  <2>2. FieldSchema(S, S.fields[2][1]) = S.fields[2][2]
    BY <1>5, <1>6
  <2>3. FieldSchema(S, S.fields[3][1]) = S.fields[3][2]
    BY <1>5, <1>6
  <2> QED
    BY <1>1, <2>1, <2>2, <2>3
<1> QED
  BY <1>1, <1>3, <1>6, <1>7

LEMMA LaunchContextFields ==
    /\ LaunchContext.type = "record"
    /\ FieldSchema(LaunchContext, "en_vars") = AvroArray(AvroString)
    /\ FieldSchema(LaunchContext, "args") = AvroString
    /\ FieldSchema(LaunchContext, "host_name") = AvroString
    /\ FieldSchema(LaunchContext, "name") = ProcessName
    /\ New(LaunchContext) = [x \in {"en_vars", "args", "host_name", "name"} |->
                               New_1(FieldSchema(LaunchContext, x))]
<1>1. PICK S : S = LaunchContext
  OBVIOUS
<1>2. PICK F : F = {"en_vars", "args", "host_name", "name"}
  OBVIOUS
<1>3. /\ S.type = "record" /\ DOMAIN S.fields = 1..4
      /\ S.fields[1] = <<"en_vars", AvroArray(AvroString)>> /\ S.fields[2] = <<"args", AvroString>>
      /\ S.fields[3] = <<"host_name", AvroString>> /\ S.fields[4] = <<"name", ProcessName>>
  BY <1>1 DEF LaunchContext, AvroRecord
<1>4. 1..4 = {1, 2, 3, 4}
  OBVIOUS
<1>5. \A i, j \in 1..4 : S.fields[i][1] = S.fields[j][1] => i = j
  BY <1>3, <1>4
<1>6. \A x : x \in F <=> \E i \in 1..4 : S.fields[i][1] = x
  BY <1>2, <1>3, <1>4
<1>7. Named(S, 4, F)
  BY <1>3, <1>5, <1>6 DEF Named
<1>8. /\ \A i \in 1..4 : FieldSchema(S, S.fields[i][1]) = S.fields[i][2]
      /\ New(S) = [x \in F |-> New_1(FieldSchema(S, x))]
  BY <1>3, <1>7, RecordFields
<1>9. /\ FieldSchema(S, S.fields[1][1]) = S.fields[1][2]
      /\ FieldSchema(S, S.fields[2][1]) = S.fields[2][2]
      /\ FieldSchema(S, S.fields[3][1]) = S.fields[3][2]
      /\ FieldSchema(S, S.fields[4][1]) = S.fields[4][2]
  BY <1>4, <1>8
<1> QED
  BY <1>1, <1>2, <1>3, <1>8, <1>9

\* The earlier one has a string for the environment.
LEMMA EarlierContextFields ==
    /\ EarlierContext.type = "record"
    /\ FieldSchema(EarlierContext, "en_vars") = AvroString
    /\ FieldSchema(EarlierContext, "args") = AvroString
    /\ FieldSchema(EarlierContext, "host_name") = AvroString
    /\ FieldSchema(EarlierContext, "name") = ProcessName
    /\ New(EarlierContext) = [x \in {"en_vars", "args", "host_name", "name"} |->
                               New_1(FieldSchema(EarlierContext, x))]
<1>1. PICK S : S = EarlierContext
  OBVIOUS
<1>2. PICK F : F = {"en_vars", "args", "host_name", "name"}
  OBVIOUS
<1>3. /\ S.type = "record" /\ DOMAIN S.fields = 1..4
      /\ S.fields[1] = <<"en_vars", AvroString>> /\ S.fields[2] = <<"args", AvroString>>
      /\ S.fields[3] = <<"host_name", AvroString>> /\ S.fields[4] = <<"name", ProcessName>>
  BY <1>1 DEF EarlierContext, AvroRecord
<1>4. 1..4 = {1, 2, 3, 4}
  OBVIOUS
<1>5. \A i, j \in 1..4 : S.fields[i][1] = S.fields[j][1] => i = j
  BY <1>3, <1>4
<1>6. \A x : x \in F <=> \E i \in 1..4 : S.fields[i][1] = x
  BY <1>2, <1>3, <1>4
<1>7. Named(S, 4, F)
  BY <1>3, <1>5, <1>6 DEF Named
<1>8. /\ \A i \in 1..4 : FieldSchema(S, S.fields[i][1]) = S.fields[i][2]
      /\ New(S) = [x \in F |-> New_1(FieldSchema(S, x))]
  BY <1>3, <1>7, RecordFields
<1>9. /\ FieldSchema(S, S.fields[1][1]) = S.fields[1][2]
      /\ FieldSchema(S, S.fields[2][1]) = S.fields[2][2]
      /\ FieldSchema(S, S.fields[3][1]) = S.fields[3][2]
      /\ FieldSchema(S, S.fields[4][1]) = S.fields[4][2]
  BY <1>4, <1>8
<1> QED
  BY <1>1, <1>2, <1>3, <1>8, <1>9

LEMMA ArraySchemas ==
    /\ AllocateResponse = AvroRecord(<< <<"node_resources", AvroArray(NodeResource)>> >>)
    /\ LaunchResponse = AvroRecord(<< <<"results", AvroArray(LaunchResult)>> >>)
    /\ HeartBeatResponse = AvroRecord(<< <<"completed_processes", AvroArray(ProcessStatus)>> >>)
    /\ LaunchRequest = AvroRecord(<< <<"launchContexts", AvroArray(LaunchContext)>> >>)
BY DEF AllocateResponse, LaunchResponse, HeartBeatResponse, LaunchRequest,
       NodeResource, LaunchResult, ProcessStatus, LaunchContext

LEMMA TypesOf ==
    /\ AvroInt.type = "int" /\ AvroLong.type = "long" /\ AvroBoolean.type = "boolean"
    /\ AvroString.type = "string" /\ AvroBytes.type = "bytes" /\ AvroNull.type = "null"
    /\ \A symbols : AvroEnum(symbols).type = "enum"
    /\ \A items : AvroArray(items).type = "array" /\ AvroArray(items).items = items
BY DEF AvroInt, AvroLong, AvroBoolean, AvroString, AvroBytes, AvroNull, AvroEnum, AvroArray

LEMMA SettersOf ==
    /\ {"boolean", "int", "long", "enum", "bytes", "string"} \subseteq DOMAIN Setters
    /\ "set_boolean" \in Setters["boolean"] /\ "set_int" \in Setters["int"]
    /\ "set_long" \in Setters["long"] /\ "set_enum" \in Setters["enum"]
    /\ "set_bytes" \in Setters["bytes"] /\ "set_string" \in Setters["string"]
BY DEF Setters

LEMMA NewParts ==
    /\ \A items : New_1(AvroArray(items)) = <<>>
    /\ New_1(ProcessName) = [g \in {"jobid", "vpid"} |-> 0]
<1>1. \A items : New_1(AvroArray(items)) = <<>>
  BY DEF AvroArray, New_1, NewWith, Zeroed
<1>2. New_1(ProcessName) = [g \in {"jobid", "vpid"} |-> Zeroed(FieldSchema(ProcessName, g))]
  BY TwoFieldRecord DEF ProcessName
<1>3. Zeroed(AvroInt) = 0
  BY DEF Zeroed, AvroInt
<1> QED
  BY <1>1, <1>2, <1>3, NameFields

LEMMA ChangedIs ==
    ASSUME NEW w, w = [g \in DOMAIN w |-> w[g]], NEW k \in DOMAIN w, NEW x
    PROVE  /\ DOMAIN Changed(w, k, x) = DOMAIN w
           /\ Changed(w, k, x) = [g \in DOMAIN Changed(w, k, x) |-> Changed(w, k, x)[g]]
           /\ Changed(w, k, x)[k] = x
           /\ \A g \in DOMAIN w : g # k => Changed(w, k, x)[g] = w[g]
BY DEF Changed

-----------------------------------------------------------------------------
(* The calls that fill in one item, or a record of no arrays.                *)

Ready(M, v, P, cs) == \A c \in cs : Frees(M, v, P, c)

LEMMA NodeTurns ==
    ASSUME NEW S, NEW M, NEW P, Ready(M, "NodeResource_value", P, {"host_name_value", "slot_value"}),
           NEW R, IsPlace(R, P), At(R, P) = New(NodeResource), SchemaAt(S, P) = NodeResource, NEW e
    PROVE  Turns(S, M,
             SetField("NodeResource_value", "host_name", "host_name_value", "set_string", e.host_name)
             \o SetField("NodeResource_value", "slot", "slot_value", "set_int", e.slot_num),
             R, Stored(R, P, [host_name |-> e.host_name, slot |-> e.slot_num]))
<1> DEFINE w0 == New(NodeResource)
           w1 == Changed(w0, "host_name", e.host_name)
           w2 == Changed(w1, "slot", e.slot_num)
<1>1. /\ NodeResource.type = "record"
      /\ FieldSchema(NodeResource, "host_name") = AvroString
      /\ FieldSchema(NodeResource, "slot") = AvroInt
      /\ w0 = [x \in {"host_name", "slot"} |-> New_1(FieldSchema(NodeResource, x))]
  BY TwoFieldRecord DEF NodeResource
<1> HIDE DEF w0
<1>2. w0 = [g \in DOMAIN w0 |-> w0[g]] /\ DOMAIN w0 = {"host_name", "slot"}
  BY <1>1
<1>3. /\ w1 = [g \in DOMAIN w1 |-> w1[g]] /\ DOMAIN w1 = {"host_name", "slot"}
      /\ w1["host_name"] = e.host_name
  BY <1>2, ChangedIs
<1> HIDE DEF w1
<1>4. w2 = [host_name |-> e.host_name, slot |-> e.slot_num]
  <2>1. /\ w2 = [g \in DOMAIN w2 |-> w2[g]] /\ DOMAIN w2 = {"host_name", "slot"}
        /\ w2["host_name"] = e.host_name /\ w2["slot"] = e.slot_num
    BY <1>3, ChangedIs
  <2> HIDE DEF w2
  <2> QED
    BY <2>1
<1> HIDE DEF w2
<1>5. Frees(M, "NodeResource_value", P, "host_name_value") /\ Frees(M, "NodeResource_value", P, "slot_value")
  BY DEF Ready
<1>6. "host_name" \in Keys /\ "slot" \in Keys
  BY DEF Keys
<1>7. Turns(S, M, SetField("NodeResource_value", "host_name", "host_name_value", "set_string", e.host_name),
            Stored(R, P, w0), Stored(R, P, w1))
  BY <1>1, <1>2, <1>5, <1>6, TypesOf, SettersOf, SetFieldTurns DEF w1
<1>8. Turns(S, M, SetField("NodeResource_value", "slot", "slot_value", "set_int", e.slot_num),
            Stored(R, P, w1), Stored(R, P, w2))
  BY <1>1, <1>3, <1>5, <1>6, TypesOf, SettersOf, SetFieldTurns DEF w2
<1>9. Stored(R, P, w0) = R
  BY DEF IsPlace, w0
<1> QED
  BY <1>4, <1>7, <1>8, <1>9, TurnsBoth

LEMMA ResultTurns ==
    ASSUME NEW S, NEW M, NEW P,
           Ready(M, "LaunchResult_value", P,
                 {"is_successful_value", "name_value", "jobid_value", "vpid_value"}),
           NEW R, IsPlace(R, P), At(R, P) = New(LaunchResult), SchemaAt(S, P) = LaunchResult,
           NEW e, e.proc_name = [jobid |-> e.proc_name.jobid, vpid |-> e.proc_name.vpid]
    PROVE  Turns(S, M,
             SetField("LaunchResult_value", "is_successful", "is_successful_value", "set_boolean",
                      e.is_successful)
             \o SetName("LaunchResult_value", e.proc_name),
             R, Stored(R, P, [is_successful |-> e.is_successful, name |-> e.proc_name]))
<1> DEFINE w0 == New(LaunchResult)
           w1 == Changed(w0, "is_successful", e.is_successful)
           w2 == Changed(w1, "name", e.proc_name)
<1>1. /\ LaunchResult.type = "record"
      /\ FieldSchema(LaunchResult, "is_successful") = AvroBoolean
      /\ FieldSchema(LaunchResult, "name") = ProcessName
      /\ w0 = [x \in {"is_successful", "name"} |-> New_1(FieldSchema(LaunchResult, x))]
  BY TwoFieldRecord DEF LaunchResult
<1> HIDE DEF w0
<1>2. /\ w0 = [g \in DOMAIN w0 |-> w0[g]] /\ DOMAIN w0 = {"is_successful", "name"}
      /\ w0["name"] = [g \in {"jobid", "vpid"} |-> 0]
  BY <1>1, NewParts
<1>3. /\ w1 = [g \in DOMAIN w1 |-> w1[g]] /\ DOMAIN w1 = {"is_successful", "name"}
      /\ w1["is_successful"] = e.is_successful /\ w1["name"] = w0["name"]
  BY <1>2, ChangedIs
<1> HIDE DEF w1
<1>4. w2 = [is_successful |-> e.is_successful, name |-> e.proc_name]
  <2>1. /\ w2 = [g \in DOMAIN w2 |-> w2[g]] /\ DOMAIN w2 = {"is_successful", "name"}
        /\ w2["is_successful"] = e.is_successful /\ w2["name"] = e.proc_name
    BY <1>3, ChangedIs
  <2> HIDE DEF w2
  <2> QED
    BY <2>1
<1> HIDE DEF w2
<1>5. /\ Frees(M, "LaunchResult_value", P, "is_successful_value")
      /\ Frees(M, "LaunchResult_value", P, "name_value")
      /\ Frees(M, "LaunchResult_value", P, "jobid_value")
      /\ Frees(M, "LaunchResult_value", P, "vpid_value")
  BY DEF Ready
<1>6. "is_successful" \in Keys
  BY DEF Keys
<1>7. Turns(S, M, SetField("LaunchResult_value", "is_successful", "is_successful_value", "set_boolean",
                           e.is_successful), Stored(R, P, w0), Stored(R, P, w1))
  BY <1>1, <1>2, <1>5, <1>6, TypesOf, SettersOf, SetFieldTurns DEF w1
<1>8. PICK m : m = w1["name"]
  OBVIOUS
<1>9. m = [g \in {"jobid", "vpid"} |-> m[g]]
  BY <1>2, <1>3, <1>8
<1>10. Turns(S, M, SetName("LaunchResult_value", e.proc_name), Stored(R, P, w1),
             Stored(R, P, Changed(w1, "name", [jobid |-> e.proc_name.jobid, vpid |-> e.proc_name.vpid])))
  BY <1>1, <1>3, <1>5, <1>8, <1>9, SetNameTurns
<1>11. Turns(S, M, SetName("LaunchResult_value", e.proc_name), Stored(R, P, w1), Stored(R, P, w2))
  BY <1>10 DEF w2
<1>12. Stored(R, P, w0) = R
  BY DEF IsPlace, w0
<1> QED
  BY <1>4, <1>7, <1>11, <1>12, TurnsBoth

LEMMA StatusTurns ==
    ASSUME NEW S, NEW M, NEW P,
           Ready(M, "ProcessStatus_value", P,
                 {"name_value", "jobid_value", "vpid_value", "state_value", "exit_value_value"}),
           NEW R, IsPlace(R, P), At(R, P) = New(ProcessStatus), SchemaAt(S, P) = ProcessStatus,
           NEW e, e.proc_name = [jobid |-> e.proc_name.jobid, vpid |-> e.proc_name.vpid], NEW state
    PROVE  Turns(S, M,
             SetName("ProcessStatus_value", e.proc_name)
             \o SetField("ProcessStatus_value", "state", "state_value", "set_enum", state)
             \o SetField("ProcessStatus_value", "exit_value", "exit_value_value", "set_int",
                         e.exit_value),
             R, Stored(R, P, [name |-> e.proc_name, state |-> state, exit_value |-> e.exit_value]))
<1> DEFINE w0 == New(ProcessStatus)
           w1 == Changed(w0, "name", e.proc_name)
           w2 == Changed(w1, "state", state)
           w3 == Changed(w2, "exit_value", e.exit_value)
           v == "ProcessStatus_value"
<1>1. /\ ProcessStatus.type = "record"
      /\ FieldSchema(ProcessStatus, "name") = ProcessName
      /\ FieldSchema(ProcessStatus, "state") = AvroEnum(ProcessStateSymbols)
      /\ FieldSchema(ProcessStatus, "exit_value") = AvroInt
      /\ w0 = [x \in {"name", "state", "exit_value"} |-> New_1(FieldSchema(ProcessStatus, x))]
  BY ThreeFieldRecord DEF ProcessStatus
<1> HIDE DEF w0
<1>2. /\ w0 = [g \in DOMAIN w0 |-> w0[g]] /\ DOMAIN w0 = {"name", "state", "exit_value"}
      /\ w0["name"] = [g \in {"jobid", "vpid"} |-> 0]
  BY <1>1, NewParts
<1>3. /\ w1 = [g \in DOMAIN w1 |-> w1[g]] /\ DOMAIN w1 = {"name", "state", "exit_value"}
      /\ w1["name"] = e.proc_name
  BY <1>2, ChangedIs
<1> HIDE DEF w1
<1>4. /\ w2 = [g \in DOMAIN w2 |-> w2[g]] /\ DOMAIN w2 = {"name", "state", "exit_value"}
      /\ w2["name"] = e.proc_name /\ w2["state"] = state
  BY <1>3, ChangedIs
<1> HIDE DEF w2
<1>5. w3 = [name |-> e.proc_name, state |-> state, exit_value |-> e.exit_value]
  <2>1. /\ w3 = [g \in DOMAIN w3 |-> w3[g]] /\ DOMAIN w3 = {"name", "state", "exit_value"}
        /\ w3["name"] = e.proc_name /\ w3["state"] = state /\ w3["exit_value"] = e.exit_value
    BY <1>4, ChangedIs
  <2> HIDE DEF w3
  <2> QED
    BY <2>1
<1> HIDE DEF w3
<1>6. /\ Frees(M, v, P, "name_value") /\ Frees(M, v, P, "jobid_value") /\ Frees(M, v, P, "vpid_value")
      /\ Frees(M, v, P, "state_value") /\ Frees(M, v, P, "exit_value_value")
  BY DEF Ready
<1>7. "state" \in Keys /\ "exit_value" \in Keys
  BY DEF Keys
<1>8. PICK m : m = w0["name"]
  OBVIOUS
<1>9. m = [g \in {"jobid", "vpid"} |-> m[g]]
  BY <1>2, <1>8
<1>10. Turns(S, M, SetName(v, e.proc_name), Stored(R, P, w0),
             Stored(R, P, Changed(w0, "name", [jobid |-> e.proc_name.jobid, vpid |-> e.proc_name.vpid])))
  BY <1>1, <1>2, <1>6, <1>8, <1>9, SetNameTurns
<1>11. Turns(S, M, SetName(v, e.proc_name), Stored(R, P, w0), Stored(R, P, w1))
  BY <1>10 DEF w1
<1>12. Turns(S, M, SetField(v, "state", "state_value", "set_enum", state),
             Stored(R, P, w1), Stored(R, P, w2))
  BY <1>1, <1>3, <1>6, <1>7, TypesOf, SettersOf, SetFieldTurns DEF w2
<1>13. Turns(S, M, SetField(v, "exit_value", "exit_value_value", "set_int", e.exit_value),
             Stored(R, P, w2), Stored(R, P, w3))
  BY <1>1, <1>4, <1>6, <1>7, TypesOf, SettersOf, SetFieldTurns DEF w3
<1>14. Stored(R, P, w0) = R
  BY DEF IsPlace, w0
<1>15. Turns(S, M, SetName(v, e.proc_name) \o SetField(v, "state", "state_value", "set_enum", state),
             R, Stored(R, P, w2))
  BY <1>11, <1>12, <1>14, TurnsBoth
<1> QED
  BY <1>5, <1>13, <1>15, TurnsBoth

\* The calls for the environment of one launch context.
EnvironmentFill(env) ==
    ByName("launchContext_value", "en_vars", "en_vars_array_value")
    \o FlattenSeq([j \in DOMAIN env |->
         Item("en_vars_array_value", "en_var_item_value")
         \o <<[op |-> "set_string", on |-> "en_var_item_value", value |-> env[j]]>>])

LEMMA EnvironmentTurns ==
    ASSUME NEW S, NEW M, NEW P,
           Ready(M, "launchContext_value", P, {"en_vars_array_value", "en_var_item_value"}),
           NEW R, IsPlace(R, P), NEW w, w = [g \in DOMAIN w |-> w[g]], "en_vars" \in DOMAIN w,
           w["en_vars"] = <<>>, NEW T, T = SchemaAt(S, P), T.type = "record",
           FieldSchema(T, "en_vars") = AvroArray(AvroString), NEW env \in Seq(Bytes)
    PROVE  Turns(S, M, EnvironmentFill(env), Stored(R, P, w),
                 Stored(R, P, Changed(w, "en_vars", env)))
<1> DEFINE r == Stored(R, P, w)
           Q == Append(P, "en_vars")
           v == "en_vars_array_value"
           c == "en_var_item_value"
           N == Where(M, v, Q)
           set(j) == <<[op |-> "set_string", on |-> c, value |-> env[j]]>>
           rs == [j \in 1..Len(env) |-> Item(v, c) \o set(j)]
<1>1. IsPlace(r, P) /\ At(r, P) = w /\ P \in Places
  BY StaysPlace DEF IsPlace
<1>2. "en_vars" \in Keys
  BY DEF Keys
<1>3. Q \in Places
  BY <1>1, <1>2, Longer
<1>4. SchemaAt(S, Q) = AvroArray(AvroString)
  <2>1. SchemaAt(S, Q) = Inside(SchemaAt(S, P), "en_vars")
    BY <1>1, <1>2, SchemaAtPlace
  <2> QED
    BY <2>1 DEF Inside
<1>5. /\ IsPlace(r, Q) /\ At(r, Q) = <<>>
      /\ \A x : Stored(r, Q, x) = Stored(r, P, Changed(w, "en_vars", x))
  <2>1. PICK k \in Keys : k = "en_vars"
    BY <1>2
  <2> HIDE DEF r
  <2>2. /\ IsPlace(r, Append(P, k)) /\ At(r, Append(P, k)) = w[k]
        /\ \A x : Stored(r, Append(P, k), x) = Stored(r, P, Changed(w, k, x))
    BY <1>1, <2>1, PartIsPlace
  <2> QED
    BY <2>1, <2>2
<1>6. \A x : Stored(r, Q, x) = Stored(R, P, Changed(w, "en_vars", x))
  BY <1>5, StaysPlace
<1>7. Stored(r, Q, <<>>) = r
  BY <1>5 DEF IsPlace
<1>8. Frees(M, "launchContext_value", P, v) /\ Frees(M, "launchContext_value", P, c)
  BY DEF Ready
<1>9. Frees(N, v, Q, c)
  BY <1>3, <1>8, FreesWhere
<1>10. SchemaAt(S, Q).type = "array" /\ SchemaAt(S, Q).items = AvroString
  BY <1>4, TypesOf
<1> HIDE DEF r, Q, N
<1>11. ASSUME NEW j \in 1..Len(env), NEW vs \in Seq(Bytes)
       PROVE  Turns(S, N, rs[j], Stored(r, Q, vs), Stored(r, Q, Append(vs, env[j])))
  <2>1. ASSUME NEW r2, NEW P2, IsPlace(r2, P2), SchemaAt(S, P2) = AvroString
        PROVE  Turns(S, Where(N, c, P2), set(j), r2, Stored(r2, P2, env[j]))
    <3>1. /\ P2 \in Places /\ c \in Locals /\ \A l \in Where(N, c, P2) : l[c] = P2
          /\ SchemaAt(S, P2).type \in DOMAIN Setters /\ "set_string" \in Setters[SchemaAt(S, P2).type]
      BY <1>8, <2>1, TypesOf, SettersOf DEF IsPlace, Where, Frees
    <3> QED
      BY <3>1, SetTurns
  <2>2. IsList(vs)
    BY DEF IsList
  <2> HIDE DEF set
  <2>3. Turns(S, N, Item(v, c) \o set(j), Stored(r, Q, vs), Stored(r, Q, Append(vs, env[j])))
    BY <1>5, <1>9, <1>10, <2>1, <2>2, ItemTurns
  <2> QED
    BY <2>3
<1>12. rs = [j \in 1..Len(env) |-> rs[j]] /\ Len(env) \in Nat /\ DOMAIN env = 1..Len(env)
  OBVIOUS
<1>13. EnvironmentFill(env) = ByName("launchContext_value", "en_vars", v) \o FlattenSeq(rs)
  BY <1>12 DEF EnvironmentFill
<1> HIDE DEF rs
<1>14. Turns(S, N, FlattenSeq(rs), Stored(r, Q, <<>>), Stored(r, Q, env))
  BY <1>11, <1>12, ArrayTurns
<1>15. Turns(S, N, FlattenSeq(rs), r, Stored(r, Q, env))
  BY <1>7, <1>14
<1>16. T = SchemaAt(S, P) /\ "en_vars" \in DOMAIN At(r, P)
  BY <1>1
<1>17. Turns(S, M, ByName("launchContext_value", "en_vars", v) \o FlattenSeq(rs), r, Stored(r, Q, env))
  BY <1>2, <1>8, <1>15, <1>16, ByNameTurns DEF Q, N
<1> QED
  BY <1>6, <1>13, <1>17 DEF r

\* What a launch context has in both versions of its schema.
ContextSchema(C) ==
    /\ C.type = "record"
    /\ FieldSchema(C, "args") = AvroString
    /\ FieldSchema(C, "host_name") = AvroString
    /\ FieldSchema(C, "name") = ProcessName
    /\ New(C) = [x \in {"en_vars", "args", "host_name", "name"} |-> New_1(FieldSchema(C, x))]

LEMMA ContextTurns ==
    ASSUME NEW C, ContextSchema(C), NEW S, NEW M, NEW P,
           Ready(M, "launchContext_value", P,
                 {"en_vars_array_value", "en_var_item_value", "args_value", "host_name_value",
                  "name_value", "jobid_value", "vpid_value"}),
           NEW R, IsPlace(R, P), At(R, P) = New(C), SchemaAt(S, P) = C,
           NEW e, e.proc_name = [jobid |-> e.proc_name.jobid, vpid |-> e.proc_name.vpid],
           Turns(S, M, EnvironmentFill(e.en_vars), R,
                 Stored(R, P, Changed(New(C), "en_vars", e.en_vars)))
    PROVE  Turns(S, M,
             EnvironmentFill(e.en_vars)
             \o SetField("launchContext_value", "args", "args_value", "set_string", e.args)
             \o SetField("launchContext_value", "host_name", "host_name_value", "set_string",
                         e.host_name)
             \o SetName("launchContext_value", e.proc_name),
             R, Stored(R, P, [en_vars |-> e.en_vars, args |-> e.args, host_name |-> e.host_name,
                              name |-> e.proc_name]))
<1> DEFINE w0 == New(C)
           w1 == Changed(w0, "en_vars", e.en_vars)
           w2 == Changed(w1, "args", e.args)
           w3 == Changed(w2, "host_name", e.host_name)
           w4 == Changed(w3, "name", e.proc_name)
           F == {"en_vars", "args", "host_name", "name"}
           v == "launchContext_value"
<1>1. /\ C.type = "record"
      /\ FieldSchema(C, "args") = AvroString
      /\ FieldSchema(C, "host_name") = AvroString
      /\ FieldSchema(C, "name") = ProcessName
      /\ w0 = [x \in F |-> New_1(FieldSchema(C, x))]
  BY DEF ContextSchema
<1> HIDE DEF w0
<1>2. /\ w0 = [g \in DOMAIN w0 |-> w0[g]] /\ DOMAIN w0 = F
      /\ w0["name"] = [g \in {"jobid", "vpid"} |-> 0]
  BY <1>1, NewParts
<1>3. /\ w1 = [g \in DOMAIN w1 |-> w1[g]] /\ DOMAIN w1 = F
      /\ w1["en_vars"] = e.en_vars /\ w1["name"] = w0["name"]
  <2>1. "en_vars" \in DOMAIN w0 /\ w0 = [g \in DOMAIN w0 |-> w0[g]]
    BY <1>2
  <2>2. /\ DOMAIN w1 = DOMAIN w0 /\ w1 = [g \in DOMAIN w1 |-> w1[g]] /\ w1["en_vars"] = e.en_vars
        /\ \A g \in DOMAIN w0 : g # "en_vars" => w1[g] = w0[g]
    BY <2>1, ChangedIs
  <2> QED
    BY <1>2, <2>2
<1> HIDE DEF w1
<1>4. /\ w2 = [g \in DOMAIN w2 |-> w2[g]] /\ DOMAIN w2 = F
      /\ w2["en_vars"] = e.en_vars /\ w2["name"] = w0["name"] /\ w2["args"] = e.args
  <2>1. "args" \in DOMAIN w1 /\ w1 = [g \in DOMAIN w1 |-> w1[g]]
    BY <1>3
  <2>2. /\ DOMAIN w2 = DOMAIN w1 /\ w2 = [g \in DOMAIN w2 |-> w2[g]] /\ w2["args"] = e.args
        /\ \A g \in DOMAIN w1 : g # "args" => w2[g] = w1[g]
    BY <2>1, ChangedIs
  <2> QED
    BY <1>3, <2>2
<1> HIDE DEF w2
<1>5. /\ w3 = [g \in DOMAIN w3 |-> w3[g]] /\ DOMAIN w3 = F
      /\ w3["en_vars"] = e.en_vars /\ w3["name"] = w0["name"] /\ w3["args"] = e.args
      /\ w3["host_name"] = e.host_name
  <2>1. "host_name" \in DOMAIN w2 /\ w2 = [g \in DOMAIN w2 |-> w2[g]]
    BY <1>4
  <2>2. /\ DOMAIN w3 = DOMAIN w2 /\ w3 = [g \in DOMAIN w3 |-> w3[g]] /\ w3["host_name"] = e.host_name
        /\ \A g \in DOMAIN w2 : g # "host_name" => w3[g] = w2[g]
    BY <2>1, ChangedIs
  <2> QED
    BY <1>4, <2>2
<1> HIDE DEF w3
<1>6. w4 = [en_vars |-> e.en_vars, args |-> e.args, host_name |-> e.host_name, name |-> e.proc_name]
  <2>1. /\ w4 = [g \in DOMAIN w4 |-> w4[g]] /\ DOMAIN w4 = F
        /\ w4["en_vars"] = e.en_vars /\ w4["args"] = e.args /\ w4["host_name"] = e.host_name
        /\ w4["name"] = e.proc_name
    BY <1>5, ChangedIs
  <2> HIDE DEF w4
  <2> QED
    BY <2>1
<1> HIDE DEF w4
<1>7. /\ Frees(M, v, P, "args_value") /\ Frees(M, v, P, "host_name_value")
      /\ Frees(M, v, P, "name_value") /\ Frees(M, v, P, "jobid_value") /\ Frees(M, v, P, "vpid_value")
  BY DEF Ready
<1>8. "args" \in Keys /\ "host_name" \in Keys
  BY DEF Keys
<1>9. Turns(S, M, EnvironmentFill(e.en_vars), R, Stored(R, P, w1))
  BY DEF w0, w1
<1>10. Turns(S, M, SetField(v, "args", "args_value", "set_string", e.args),
             Stored(R, P, w1), Stored(R, P, w2))
  BY <1>1, <1>3, <1>7, <1>8, TypesOf, SettersOf, SetFieldTurns DEF w2
<1>11. Turns(S, M, SetField(v, "host_name", "host_name_value", "set_string", e.host_name),
             Stored(R, P, w2), Stored(R, P, w3))
  BY <1>1, <1>4, <1>7, <1>8, TypesOf, SettersOf, SetFieldTurns DEF w3
<1>12. Turns(S, M, SetName(v, e.proc_name), Stored(R, P, w3), Stored(R, P, w4))
  <2>1. PICK m : m = w3["name"]
    OBVIOUS
  <2>2. m = [g \in {"jobid", "vpid"} |-> m[g]]
    BY <1>2, <1>5, <2>1
  <2>3. Turns(S, M, SetName(v, e.proc_name), Stored(R, P, w3),
              Stored(R, P, Changed(w3, "name", [jobid |-> e.proc_name.jobid, vpid |-> e.proc_name.vpid])))
    BY <1>1, <1>5, <1>7, <2>1, <2>2, SetNameTurns
  <2> QED
    BY <2>3 DEF w4
<1>13. Turns(S, M, EnvironmentFill(e.en_vars) \o SetField(v, "args", "args_value", "set_string", e.args),
             R, Stored(R, P, w2))
  BY <1>9, <1>10, TurnsBoth
<1>14. Turns(S, M, EnvironmentFill(e.en_vars) \o SetField(v, "args", "args_value", "set_string", e.args)
                   \o SetField(v, "host_name", "host_name_value", "set_string", e.host_name),
             R, Stored(R, P, w3))
  BY <1>11, <1>13, TurnsBoth
<1> QED
  BY <1>6, <1>12, <1>14, TurnsBoth

-----------------------------------------------------------------------------
(* Whole messages.                                                           *)

\* The locals when a function starts.
Fresh == {l \in Frames : l["record"] = <<>>}

LEMMA FreshFrees ==
    /\ "record" \in Locals
    /\ \A c \in Locals \ {"record"} : Frees(Fresh, "record", <<>>, c)
<1>1. "record" \in Locals /\ <<>> \in Places
  BY DEF Locals, Places
<1> QED
  BY <1>1, ChangedLocal DEF Frees, Fresh

\* Each item, and then its fields.
Filled(array, item, n, fields) == [i \in 1..n |-> Item(array, item) \o fields[i]]

\* The record of one field.
Only(f, x) == [g \in {f} |-> x]

\* The calls that follow each item fill it in.
Fills(S, A, array, item, I, n, fields, ws) ==
    \A i \in 1..n : \A r, P :
      IsPlace(r, P) /\ At(r, P) = New(I) /\ SchemaAt(S, P) = I
        /\ Ready(Where(A, item, P), item, P, Locals \ {"record", array, item})
      => Turns(S, Where(A, item, P), fields[i], r, Stored(r, P, ws[i]))

\* The schema of a message of one array.
ArrayMessage(f, I) == AvroRecord(<< <<f, AvroArray(I)>> >>)

LEMMA ArrayMessageFields ==
    ASSUME NEW f, NEW I, NEW S, S = ArrayMessage(f, I)
    PROVE  S.type = "record" /\ FieldSchema(S, f) = AvroArray(I) /\ New(S) = Only(f, <<>>)
<1>1. S = AvroRecord(<< <<f, AvroArray(I)>> >>)
  BY DEF ArrayMessage
<1>2. /\ S.type = "record" /\ FieldSchema(S, f) = AvroArray(I)
      /\ New(S) = [g \in {f} |-> New_1(FieldSchema(S, g))]
  BY <1>1, OneFieldRecord
<1> QED
  BY <1>2, NewParts DEF Only

\* A message of one array.
LEMMA BuildArrayTurns ==
    ASSUME NEW S, NEW f \in Keys, NEW I, S = ArrayMessage(f, I),
           NEW array \in Locals \ {"record"}, NEW item \in Locals \ {"record", array},
           NEW C, NEW ws \in Seq(C), NEW n \in Nat, Len(ws) = n, NEW fields,
           NEW A, A = Where(Fresh, array, <<f>>), Fills(S, A, array, item, I, n, fields, ws)
    PROVE  Turns(S, Fresh, ByName("record", f, array) \o FlattenSeq(Filled(array, item, n, fields)),
                 New(S), Only(f, ws))
<1> DEFINE R == New(S)
           rs == [i \in 1..n |-> Item(array, item) \o fields[i]]
           Q == <<f>>
<1>1. S.type = "record" /\ FieldSchema(S, f) = AvroArray(I) /\ R = Only(f, <<>>)
  BY ArrayMessageFields
<1>2. R = [g \in {f} |-> <<>>]
  BY <1>1 DEF Only
<1> HIDE DEF R
<1>3. <<>> \in Places /\ Q \in Places /\ Append(<<>>, f) = Q
  BY DEF Places
<1>4. IsPlace(R, <<>>) /\ At(R, <<>>) = R /\ \A y : Stored(R, <<>>, y) = y
  BY WholeIsPlace
<1>5. /\ R = [g \in DOMAIN R |-> R[g]] /\ f \in DOMAIN R /\ R[f] = <<>>
      /\ \A x : Changed(R, f, x) = [g \in {f} |-> x]
  BY <1>2 DEF Changed
<1>6. /\ IsPlace(R, Q) /\ At(R, Q) = <<>>
      /\ \A x : Stored(R, Q, x) = [g \in {f} |-> x]
  <2>1. /\ IsPlace(R, Append(<<>>, f)) /\ At(R, Append(<<>>, f)) = R[f]
        /\ \A x : Stored(R, Append(<<>>, f), x) = Stored(R, <<>>, Changed(R, f, x))
    <3>1. PICK P : P = <<>>
      OBVIOUS
    <3>2. IsPlace(R, P) /\ R = At(R, P)
      BY <1>4, <3>1
    <3>3. /\ IsPlace(R, Append(P, f)) /\ At(R, Append(P, f)) = R[f]
          /\ \A x : Stored(R, Append(P, f), x) = Stored(R, P, Changed(R, f, x))
      BY <1>5, <3>2, PartIsPlace
    <3> QED
      BY <3>1, <3>3
  <2>2. \A x : Stored(R, Q, x) = Stored(R, <<>>, Changed(R, f, x))
    BY <1>3, <2>1
  <2>3. \A x : Stored(R, Q, x) = Changed(R, f, x)
    BY <1>4, <2>2
  <2> QED
    BY <1>3, <1>5, <2>1, <2>3
<1>7. SchemaAt(S, <<>>) = S /\ SchemaAt(S, Q) = AvroArray(I)
  <2>1. SchemaAt(S, <<>>) = S /\ SchemaAt(S, Append(<<>>, f)) = Inside(SchemaAt(S, <<>>), f)
    BY <1>3, SchemaAtPlace
  <2> QED
    BY <1>1, <1>3, <2>1 DEF Inside
<1>8. SchemaAt(S, Q).type = "array" /\ SchemaAt(S, Q).items = I
  BY <1>7, TypesOf
<1>9. \A c \in Locals \ {"record", array} : Frees(A, array, Q, c)
  BY <1>3, FreshFrees, FreesWhere
<1> HIDE DEF Q
<1>10. ASSUME NEW i \in 1..n, NEW vs \in Seq(C)
       PROVE  Turns(S, A, rs[i], Stored(R, Q, vs), Stored(R, Q, Append(vs, ws[i])))
  <2>1. ASSUME NEW r, NEW P, IsPlace(r, P), At(r, P) = New(I), SchemaAt(S, P) = I
        PROVE  Turns(S, Where(A, item, P), fields[i], r, Stored(r, P, ws[i]))
    <3>1. ASSUME NEW c \in Locals \ {"record", array, item}
          PROVE  Frees(Where(A, item, P), item, P, c)
      <4>1. Frees(A, array, Q, item) /\ Frees(A, array, Q, c) /\ P \in Places
        BY <1>9, <2>1 DEF IsPlace
      <4> QED
        BY <4>1, FreesWhere
    <3>2. Ready(Where(A, item, P), item, P, Locals \ {"record", array, item})
      BY <3>1 DEF Ready
    <3> QED
      BY <2>1, <3>2 DEF Fills
  <2>2. IsList(vs)
    BY DEF IsList
  <2>3. Frees(A, array, Q, item) /\ array # item
    BY <1>9
  <2>4. PICK fs, w : fs = fields[i] /\ w = ws[i]
    OBVIOUS
  <2>5. ASSUME NEW r, NEW P, IsPlace(r, P), At(r, P) = New(I), SchemaAt(S, P) = I
        PROVE  Turns(S, Where(A, item, P), fs, r, Stored(r, P, w))
    BY <2>1, <2>4, <2>5
  <2>6. Turns(S, A, Item(array, item) \o fs, Stored(R, Q, vs), Stored(R, Q, Append(vs, w)))
    BY <1>6, <1>8, <2>2, <2>3, <2>5, ItemTurns
  <2> QED
    BY <2>4, <2>6
<1>11. rs = [i \in 1..n |-> rs[i]]
  OBVIOUS
<1> HIDE DEF rs
<1>12. Turns(S, A, FlattenSeq(rs), Stored(R, Q, <<>>), Stored(R, Q, ws))
  BY <1>10, <1>11, ArrayTurns
<1>13. Stored(R, Q, <<>>) = R /\ Stored(R, Q, ws) = [g \in {f} |-> ws]
  BY <1>2, <1>6
<1>14. Turns(S, Where(Fresh, array, Append(<<>>, f)), FlattenSeq(rs), R, [g \in {f} |-> ws])
  BY <1>3, <1>12, <1>13 DEF Q
<1>15. Frees(Fresh, "record", <<>>, array) /\ "record" # array
  BY FreshFrees
<1>16. SchemaAt(S, <<>>).type = "record" /\ f \in DOMAIN At(R, <<>>)
  BY <1>1, <1>4, <1>5, <1>7
<1>17. Turns(S, Fresh, ByName("record", f, array) \o FlattenSeq(rs), R, [g \in {f} |-> ws])
  BY <1>14, <1>15, <1>16, ByNameTurns
<1> QED
  BY <1>17 DEF R, rs, Filled, Only

LEMMA FieldTurns ==
    ASSUME NEW S, S.type = "record", NEW c \in Locals \ {"record"},
           NEW w, w = [g \in DOMAIN w |-> w[g]], NEW f \in Keys, f \in DOMAIN w,
           NEW type, type = FieldSchema(S, f).type, type \in DOMAIN Setters,
           NEW set \in Setters[type], NEW y
    PROVE  Turns(S, Fresh, SetField("record", f, c, set, y), w, Changed(w, f, y))
<1>1. PICK P : P = <<>>
  OBVIOUS
<1>2. IsPlace(w, P) /\ \A x : Stored(w, P, x) = x
  BY <1>1, WholeIsPlace
<1>3. Frees(Fresh, "record", P, c) /\ "record" # c
  BY <1>1, FreshFrees
<1>4. SchemaAt(S, P) = S
  <2>1. <<>> \in Places
    BY DEF Places
  <2> QED
    BY <1>1, <2>1, SchemaAtPlace
<1>5. Turns(S, Fresh, SetField("record", f, c, set, y), Stored(w, P, w), Stored(w, P, Changed(w, f, y)))
  BY <1>2, <1>3, <1>4, SetFieldTurns
<1> QED
  BY <1>2, <1>5

LEMMA AllocateRequestTurns ==
    Turns(AllocateRequest, Fresh, AllocateRequestCalls, New(AllocateRequest),
          [resource_count |-> arg])
<1> DEFINE w0 == New(AllocateRequest)
           w1 == Changed(w0, "resource_count", arg)
<1>1. /\ AllocateRequest.type = "record"
      /\ FieldSchema(AllocateRequest, "resource_count") = AvroInt
      /\ w0 = [x \in {"resource_count"} |-> New_1(FieldSchema(AllocateRequest, x))]
  BY OneFieldRecord DEF AllocateRequest
<1> HIDE DEF w0
<1>2. w0 = [g \in DOMAIN w0 |-> w0[g]] /\ DOMAIN w0 = {"resource_count"}
  BY <1>1
<1>3. /\ w1 = [g \in DOMAIN w1 |-> w1[g]] /\ DOMAIN w1 = {"resource_count"}
      /\ w1["resource_count"] = arg
  <2>1. "resource_count" \in DOMAIN w0 /\ w0 = [g \in DOMAIN w0 |-> w0[g]]
    BY <1>2
  <2>2. /\ DOMAIN w1 = DOMAIN w0 /\ w1 = [g \in DOMAIN w1 |-> w1[g]]
        /\ w1["resource_count"] = arg /\ \A g \in DOMAIN w0 : g # "resource_count" => w1[g] = w0[g]
    BY <2>1, ChangedIs
  <2> QED
    BY <1>2, <2>2
<1> HIDE DEF w1
<1>4. w1 = [resource_count |-> arg]
  BY <1>3
<1>5. "resource_count" \in Keys
  BY DEF Keys
<1>6. "resource_count_value" \in Locals \ {"record"}
  BY DEF Locals
<1>7. Turns(AllocateRequest, Fresh, SetField("record", "resource_count", "resource_count_value", "set_int", arg), w0, w1)
  BY <1>1, <1>2, <1>5, <1>6, TypesOf, SettersOf, FieldTurns DEF w1
<1> QED
  BY <1>4, <1>7 DEF AllocateRequestCalls, w0

LEMMA FinishRequestTurns ==
    Turns(FinishRequest, Fresh, FinishRequestCalls, New(FinishRequest),
          [succeed |-> arg.succeed, diagnostics |-> arg.diagnostics])
<1> DEFINE w0 == New(FinishRequest)
           w1 == Changed(w0, "succeed", arg.succeed)
           w2 == Changed(w1, "diagnostics", arg.diagnostics)
<1>1. /\ FinishRequest.type = "record"
      /\ FieldSchema(FinishRequest, "succeed") = AvroBoolean
      /\ FieldSchema(FinishRequest, "diagnostics") = AvroString
      /\ w0 = [x \in {"succeed", "diagnostics"} |-> New_1(FieldSchema(FinishRequest, x))]
  BY TwoFieldRecord DEF FinishRequest
<1> HIDE DEF w0
<1>2. w0 = [g \in DOMAIN w0 |-> w0[g]] /\ DOMAIN w0 = {"succeed", "diagnostics"}
  BY <1>1
<1>3. /\ w1 = [g \in DOMAIN w1 |-> w1[g]] /\ DOMAIN w1 = {"succeed", "diagnostics"}
      /\ w1["succeed"] = arg.succeed
  <2>1. "succeed" \in DOMAIN w0 /\ w0 = [g \in DOMAIN w0 |-> w0[g]]
    BY <1>2
  <2>2. /\ DOMAIN w1 = DOMAIN w0 /\ w1 = [g \in DOMAIN w1 |-> w1[g]]
        /\ w1["succeed"] = arg.succeed /\ \A g \in DOMAIN w0 : g # "succeed" => w1[g] = w0[g]
    BY <2>1, ChangedIs
  <2> QED
    BY <1>2, <2>2
<1> HIDE DEF w1
<1>4. /\ w2 = [g \in DOMAIN w2 |-> w2[g]] /\ DOMAIN w2 = {"succeed", "diagnostics"}
      /\ w2["succeed"] = arg.succeed /\ w2["diagnostics"] = arg.diagnostics
  <2>1. "diagnostics" \in DOMAIN w1 /\ w1 = [g \in DOMAIN w1 |-> w1[g]]
    BY <1>3
  <2>2. /\ DOMAIN w2 = DOMAIN w1 /\ w2 = [g \in DOMAIN w2 |-> w2[g]]
        /\ w2["diagnostics"] = arg.diagnostics /\ \A g \in DOMAIN w1 : g # "diagnostics" => w2[g] = w1[g]
    BY <2>1, ChangedIs
  <2> QED
    BY <1>3, <2>2
<1> HIDE DEF w2
<1>5. w2 = [succeed |-> arg.succeed, diagnostics |-> arg.diagnostics]
  BY <1>4
<1>6. "succeed" \in Keys /\ "diagnostics" \in Keys
  BY DEF Keys
<1>7. /\ "succeed_value" \in Locals \ {"record"}
      /\ "diagnostics_value" \in Locals \ {"record"}
  BY DEF Locals
<1>8. Turns(FinishRequest, Fresh, SetField("record", "succeed", "succeed_value", "set_boolean", arg.succeed), w0, w1)
  BY <1>1, <1>2, <1>6, <1>7, TypesOf, SettersOf, FieldTurns DEF w1
<1>9. Turns(FinishRequest, Fresh, SetField("record", "diagnostics", "diagnostics_value", "set_string", arg.diagnostics), w1, w2)
  BY <1>1, <1>3, <1>6, <1>7, TypesOf, SettersOf, FieldTurns DEF w2
<1>10. Turns(FinishRequest, Fresh,
             SetField("record", "succeed", "succeed_value", "set_boolean", arg.succeed)
             \o SetField("record", "diagnostics", "diagnostics_value", "set_string", arg.diagnostics),
             w0, w2)
  BY <1>8, <1>9, TurnsBoth
<1> QED
  BY <1>5, <1>10 DEF FinishRequestCalls, w0

LEMMA WrapperTurns ==
    Turns(HamsterHnpRequest, Fresh, WrapperCalls, New(HamsterHnpRequest),
          [request |-> arg.inner, msg_type |-> Ordinal(msg_type_enum_t, arg.msg_type)])
<1> DEFINE w0 == New(HamsterHnpRequest)
           w1 == Changed(w0, "request", arg.inner)
           w2 == Changed(w1, "msg_type", Ordinal(msg_type_enum_t, arg.msg_type))
<1>1. /\ HamsterHnpRequest.type = "record"
      /\ FieldSchema(HamsterHnpRequest, "request") = AvroBytes
      /\ FieldSchema(HamsterHnpRequest, "msg_type") = AvroEnum(MsgTypeSymbols)
      /\ w0 = [x \in {"request", "msg_type"} |-> New_1(FieldSchema(HamsterHnpRequest, x))]
  BY TwoFieldRecord DEF HamsterHnpRequest
<1> HIDE DEF w0
<1>2. w0 = [g \in DOMAIN w0 |-> w0[g]] /\ DOMAIN w0 = {"request", "msg_type"}
  BY <1>1
<1>3. /\ w1 = [g \in DOMAIN w1 |-> w1[g]] /\ DOMAIN w1 = {"request", "msg_type"}
      /\ w1["request"] = arg.inner
  <2>1. "request" \in DOMAIN w0 /\ w0 = [g \in DOMAIN w0 |-> w0[g]]
    BY <1>2
  <2>2. /\ DOMAIN w1 = DOMAIN w0 /\ w1 = [g \in DOMAIN w1 |-> w1[g]]
        /\ w1["request"] = arg.inner /\ \A g \in DOMAIN w0 : g # "request" => w1[g] = w0[g]
    BY <2>1, ChangedIs
  <2> QED
    BY <1>2, <2>2
<1> HIDE DEF w1
<1>4. /\ w2 = [g \in DOMAIN w2 |-> w2[g]] /\ DOMAIN w2 = {"request", "msg_type"}
      /\ w2["request"] = arg.inner /\ w2["msg_type"] = Ordinal(msg_type_enum_t, arg.msg_type)
  <2>1. "msg_type" \in DOMAIN w1 /\ w1 = [g \in DOMAIN w1 |-> w1[g]]
    BY <1>3
  <2>2. /\ DOMAIN w2 = DOMAIN w1 /\ w2 = [g \in DOMAIN w2 |-> w2[g]]
        /\ w2["msg_type"] = Ordinal(msg_type_enum_t, arg.msg_type) /\ \A g \in DOMAIN w1 : g # "msg_type" => w2[g] = w1[g]
    BY <2>1, ChangedIs
  <2> QED
    BY <1>3, <2>2
<1> HIDE DEF w2
<1>5. w2 = [request |-> arg.inner, msg_type |-> Ordinal(msg_type_enum_t, arg.msg_type)]
  BY <1>4
<1>6. "request" \in Keys /\ "msg_type" \in Keys
  BY DEF Keys
<1>7. /\ "request_value" \in Locals \ {"record"}
      /\ "msg_type_value" \in Locals \ {"record"}
  BY DEF Locals
<1>8. Turns(HamsterHnpRequest, Fresh, SetField("record", "request", "request_value", "set_bytes", arg.inner), w0, w1)
  BY <1>1, <1>2, <1>6, <1>7, TypesOf, SettersOf, FieldTurns DEF w1
<1>9. Turns(HamsterHnpRequest, Fresh, SetField("record", "msg_type", "msg_type_value", "set_enum", Ordinal(msg_type_enum_t, arg.msg_type)), w1, w2)
  BY <1>1, <1>3, <1>6, <1>7, TypesOf, SettersOf, FieldTurns DEF w2
<1>10. Turns(HamsterHnpRequest, Fresh,
             SetField("record", "request", "request_value", "set_bytes", arg.inner)
             \o SetField("record", "msg_type", "msg_type_value", "set_enum", Ordinal(msg_type_enum_t, arg.msg_type)),
             w0, w2)
  BY <1>8, <1>9, TurnsBoth
<1> QED
  BY <1>5, <1>10 DEF WrapperCalls, w0

LEMMA PersonTurns ==
    Turns(Person, Fresh, PersonCalls, New(Person),
          [name |-> arg.name, weight |-> arg.weight, height |-> arg.height])
<1> DEFINE w0 == New(Person)
           w1 == Changed(w0, "name", arg.name)
           w2 == Changed(w1, "weight", arg.weight)
           w3 == Changed(w2, "height", arg.height)
<1>1. /\ Person.type = "record"
      /\ FieldSchema(Person, "name") = AvroString
      /\ FieldSchema(Person, "weight") = AvroLong
      /\ FieldSchema(Person, "height") = AvroLong
      /\ w0 = [x \in {"height", "weight", "name"} |-> New_1(FieldSchema(Person, x))]
  BY ThreeFieldRecord DEF Person
<1> HIDE DEF w0
<1>2. w0 = [g \in DOMAIN w0 |-> w0[g]] /\ DOMAIN w0 = {"height", "weight", "name"}
  BY <1>1
<1>3. /\ w1 = [g \in DOMAIN w1 |-> w1[g]] /\ DOMAIN w1 = {"height", "weight", "name"}
      /\ w1["name"] = arg.name
  <2>1. "name" \in DOMAIN w0 /\ w0 = [g \in DOMAIN w0 |-> w0[g]]
    BY <1>2
  <2>2. /\ DOMAIN w1 = DOMAIN w0 /\ w1 = [g \in DOMAIN w1 |-> w1[g]]
        /\ w1["name"] = arg.name /\ \A g \in DOMAIN w0 : g # "name" => w1[g] = w0[g]
    BY <2>1, ChangedIs
  <2> QED
    BY <1>2, <2>2
<1> HIDE DEF w1
<1>4. /\ w2 = [g \in DOMAIN w2 |-> w2[g]] /\ DOMAIN w2 = {"height", "weight", "name"}
      /\ w2["name"] = arg.name /\ w2["weight"] = arg.weight
  <2>1. "weight" \in DOMAIN w1 /\ w1 = [g \in DOMAIN w1 |-> w1[g]]
    BY <1>3
  <2>2. /\ DOMAIN w2 = DOMAIN w1 /\ w2 = [g \in DOMAIN w2 |-> w2[g]]
        /\ w2["weight"] = arg.weight /\ \A g \in DOMAIN w1 : g # "weight" => w2[g] = w1[g]
    BY <2>1, ChangedIs
  <2> QED
    BY <1>3, <2>2
<1> HIDE DEF w2
<1>5. /\ w3 = [g \in DOMAIN w3 |-> w3[g]] /\ DOMAIN w3 = {"height", "weight", "name"}
      /\ w3["name"] = arg.name /\ w3["weight"] = arg.weight /\ w3["height"] = arg.height
  <2>1. "height" \in DOMAIN w2 /\ w2 = [g \in DOMAIN w2 |-> w2[g]]
    BY <1>4
  <2>2. /\ DOMAIN w3 = DOMAIN w2 /\ w3 = [g \in DOMAIN w3 |-> w3[g]]
        /\ w3["height"] = arg.height /\ \A g \in DOMAIN w2 : g # "height" => w3[g] = w2[g]
    BY <2>1, ChangedIs
  <2> QED
    BY <1>4, <2>2
<1> HIDE DEF w3
<1>6. w3 = [name |-> arg.name, weight |-> arg.weight, height |-> arg.height]
  BY <1>5
<1>7. "name" \in Keys /\ "weight" \in Keys /\ "height" \in Keys
  BY DEF Keys
<1>8. /\ "name_value" \in Locals \ {"record"}
      /\ "weight_value" \in Locals \ {"record"}
      /\ "height_value" \in Locals \ {"record"}
  BY DEF Locals
<1>9. Turns(Person, Fresh, SetField("record", "name", "name_value", "set_string", arg.name), w0, w1)
  BY <1>1, <1>2, <1>7, <1>8, TypesOf, SettersOf, FieldTurns DEF w1
<1>10. Turns(Person, Fresh, SetField("record", "weight", "weight_value", "set_long", arg.weight), w1, w2)
  BY <1>1, <1>3, <1>7, <1>8, TypesOf, SettersOf, FieldTurns DEF w2
<1>11. Turns(Person, Fresh, SetField("record", "height", "height_value", "set_long", arg.height), w2, w3)
  BY <1>1, <1>4, <1>7, <1>8, TypesOf, SettersOf, FieldTurns DEF w3
<1>12. Turns(Person, Fresh,
             SetField("record", "name", "name_value", "set_string", arg.name)
             \o SetField("record", "weight", "weight_value", "set_long", arg.weight),
             w0, w2)
  BY <1>9, <1>10, TurnsBoth
<1>13. Turns(Person, Fresh,
             SetField("record", "name", "name_value", "set_string", arg.name)
             \o SetField("record", "weight", "weight_value", "set_long", arg.weight)
             \o SetField("record", "height", "height_value", "set_long", arg.height),
             w0, w3)
  BY <1>12, <1>11, TurnsBoth
<1> QED
  BY <1>6, <1>13 DEF PersonCalls, w0

LEMMA AllocateResponseTurns ==
    ASSUME NEW C, arg \in Seq(C)
    PROVE  Turns(AllocateResponse, Fresh, AllocateResponseCalls, New(AllocateResponse),
                 [node_resources |-> [i \in DOMAIN arg |->
                    [host_name |-> arg[i].host_name, slot |-> arg[i].slot_num]]])
<1> DEFINE n == Len(arg)
           fields == [i \in 1..n |->
             SetField("NodeResource_value", "host_name", "host_name_value", "set_string", arg[i].host_name)
             \o SetField("NodeResource_value", "slot", "slot_value", "set_int", arg[i].slot_num)]
           ws == [i \in 1..n |-> [host_name |-> arg[i].host_name, slot |-> arg[i].slot_num]]
           D == {ws[i] : i \in 1..n}
           A == Where(Fresh, "node_resources_value", <<"node_resources">>)
           v == "NodeResource_value"
<1>1. n \in Nat /\ DOMAIN arg = 1..n
  OBVIOUS
<1>2. ws \in Seq(D) /\ Len(ws) = n
  <2>1. \A i \in 1..n : ws[i] \in D
    OBVIOUS
  <2>2. ws = [i \in 1..n |-> ws[i]]
    OBVIOUS
  <2> HIDE DEF D, ws
  <2> QED
    BY <1>1, <2>1, <2>2
<1>3. "node_resources" \in Keys
  BY DEF Keys
<1>4. /\ "node_resources_value" \in Locals \ {"record"}
      /\ v \in Locals \ {"record", "node_resources_value"}
  BY DEF Locals
<1>5. ASSUME NEW i \in 1..n, NEW r, NEW P,
             IsPlace(r, P) /\ At(r, P) = New(NodeResource) /\ SchemaAt(AllocateResponse, P) = NodeResource
             /\ Ready(Where(A, v, P), v, P, Locals \ {"record", "node_resources_value", v})
      PROVE  Turns(AllocateResponse, Where(A, v, P), fields[i], r, Stored(r, P, ws[i]))
  <2>1. i \in DOMAIN arg
    BY <1>1
  <2>2. Ready(Where(A, v, P), v, P, {"host_name_value", "slot_value"})
    BY <1>5 DEF Ready, Locals
  <2>3. PICK e : e = arg[i]
    OBVIOUS
  <2> HIDE DEF A
  <2>4. Turns(AllocateResponse, Where(A, v, P),
             SetField("NodeResource_value", "host_name", "host_name_value", "set_string", e.host_name)
             \o SetField("NodeResource_value", "slot", "slot_value", "set_int", e.slot_num),
             r, Stored(r, P, [host_name |-> e.host_name, slot |-> e.slot_num]))
    BY <1>5, <2>1, <2>2, <2>3, NodeTurns
  <2> QED
    BY <2>3, <2>4
<1>6. AllocateResponse = ArrayMessage("node_resources", NodeResource)
  BY ArraySchemas DEF ArrayMessage
<1> HIDE DEF D, A, ws, fields, n
<1>7. Turns(AllocateResponse, Fresh, ByName("record", "node_resources", "node_resources_value") \o FlattenSeq(Filled("node_resources_value", v, n, fields)),
            New(AllocateResponse), Only("node_resources", ws))
  <2>1. Fills(AllocateResponse, A, "node_resources_value", v, NodeResource, n, fields, ws)
    BY <1>5 DEF Fills
  <2>2. A = Where(Fresh, "node_resources_value", <<"node_resources">>)
    BY DEF A
  <2> HIDE DEF v
  <2> QED
    BY <1>1, <1>2, <1>3, <1>4, <1>6, <2>1, <2>2, BuildArrayTurns
<1>8. AllocateResponseCalls = ByName("record", "node_resources", "node_resources_value") \o FlattenSeq(Filled("node_resources_value", v, n, fields))
  <2>1. [i \in DOMAIN arg |-> Item("node_resources_value", v) \o
             (SetField("NodeResource_value", "host_name", "host_name_value", "set_string", arg[i].host_name)
             \o SetField("NodeResource_value", "slot", "slot_value", "set_int", arg[i].slot_num))]
        = Filled("node_resources_value", v, n, fields)
    BY <1>1 DEF fields, n, Filled
  <2> QED
    BY <2>1 DEF AllocateResponseCalls, BuildArray, EnvironmentFill
<1>9. Only("node_resources", ws) = [node_resources |-> [i \in DOMAIN arg |->
                    [host_name |-> arg[i].host_name, slot |-> arg[i].slot_num]]]
  BY <1>1 DEF ws, n, Only
<1> QED
  BY <1>7, <1>8, <1>9

LEMMA LaunchResponseTurns ==
    ASSUME NEW C, arg \in Seq(C),
           \A i \in DOMAIN arg : arg[i].proc_name = [jobid |-> arg[i].proc_name.jobid, vpid |-> arg[i].proc_name.vpid]
    PROVE  Turns(LaunchResponse, Fresh, LaunchResponseCalls, New(LaunchResponse),
                 [results |-> [i \in DOMAIN arg |->
                    [is_successful |-> arg[i].is_successful, name |-> arg[i].proc_name]]])
<1> DEFINE n == Len(arg)
           fields == [i \in 1..n |->
             SetField("LaunchResult_value", "is_successful", "is_successful_value", "set_boolean",
                      arg[i].is_successful)
             \o SetName("LaunchResult_value", arg[i].proc_name)]
           ws == [i \in 1..n |-> [is_successful |-> arg[i].is_successful, name |-> arg[i].proc_name]]
           D == {ws[i] : i \in 1..n}
           A == Where(Fresh, "results_value", <<"results">>)
           v == "LaunchResult_value"
<1>1. n \in Nat /\ DOMAIN arg = 1..n
  OBVIOUS
<1>2. ws \in Seq(D) /\ Len(ws) = n
  <2>1. \A i \in 1..n : ws[i] \in D
    OBVIOUS
  <2>2. ws = [i \in 1..n |-> ws[i]]
    OBVIOUS
  <2> HIDE DEF D, ws
  <2> QED
    BY <1>1, <2>1, <2>2
<1>3. "results" \in Keys
  BY DEF Keys
<1>4. /\ "results_value" \in Locals \ {"record"}
      /\ v \in Locals \ {"record", "results_value"}
  BY DEF Locals
<1>5. ASSUME NEW i \in 1..n, NEW r, NEW P,
             IsPlace(r, P) /\ At(r, P) = New(LaunchResult) /\ SchemaAt(LaunchResponse, P) = LaunchResult
             /\ Ready(Where(A, v, P), v, P, Locals \ {"record", "results_value", v})
      PROVE  Turns(LaunchResponse, Where(A, v, P), fields[i], r, Stored(r, P, ws[i]))
  <2>1. arg[i].proc_name = [jobid |-> arg[i].proc_name.jobid, vpid |-> arg[i].proc_name.vpid]
    BY <1>1
  <2>2. Ready(Where(A, v, P), v, P, {"is_successful_value", "name_value", "jobid_value", "vpid_value"})
    BY <1>5 DEF Ready, Locals
  <2>3. PICK e : e = arg[i]
    OBVIOUS
  <2> HIDE DEF A
  <2>4. Turns(LaunchResponse, Where(A, v, P),
             SetField("LaunchResult_value", "is_successful", "is_successful_value", "set_boolean",
                      e.is_successful)
             \o SetName("LaunchResult_value", e.proc_name),
             r, Stored(r, P, [is_successful |-> e.is_successful, name |-> e.proc_name]))
    BY <1>5, <2>1, <2>2, <2>3, ResultTurns
  <2> QED
    BY <2>3, <2>4
<1>6. LaunchResponse = ArrayMessage("results", LaunchResult)
  BY ArraySchemas DEF ArrayMessage
<1> HIDE DEF D, A, ws, fields, n
<1>7. Turns(LaunchResponse, Fresh, ByName("record", "results", "results_value") \o FlattenSeq(Filled("results_value", v, n, fields)),
            New(LaunchResponse), Only("results", ws))
  <2>1. Fills(LaunchResponse, A, "results_value", v, LaunchResult, n, fields, ws)
    BY <1>5 DEF Fills
  <2>2. A = Where(Fresh, "results_value", <<"results">>)
    BY DEF A
  <2> HIDE DEF v
  <2> QED
    BY <1>1, <1>2, <1>3, <1>4, <1>6, <2>1, <2>2, BuildArrayTurns
<1>8. LaunchResponseCalls = ByName("record", "results", "results_value") \o FlattenSeq(Filled("results_value", v, n, fields))
  <2>1. [i \in DOMAIN arg |-> Item("results_value", v) \o
             (SetField("LaunchResult_value", "is_successful", "is_successful_value", "set_boolean",
                      arg[i].is_successful)
             \o SetName("LaunchResult_value", arg[i].proc_name))]
        = Filled("results_value", v, n, fields)
    BY <1>1 DEF fields, n, Filled
  <2> QED
    BY <2>1 DEF LaunchResponseCalls, BuildArray, EnvironmentFill
<1>9. Only("results", ws) = [results |-> [i \in DOMAIN arg |->
                    [is_successful |-> arg[i].is_successful, name |-> arg[i].proc_name]]]
  BY <1>1 DEF ws, n, Only
<1> QED
  BY <1>7, <1>8, <1>9

LEMMA HeartBeatResponseTurns ==
    ASSUME NEW C, arg \in Seq(C),
           \A i \in DOMAIN arg : arg[i].proc_name = [jobid |-> arg[i].proc_name.jobid, vpid |-> arg[i].proc_name.vpid]
    PROVE  Turns(HeartBeatResponse, Fresh, HeartBeatResponseCalls, New(HeartBeatResponse),
                 [completed_processes |-> [i \in DOMAIN arg |->
                    [name |-> arg[i].proc_name,
                     state |-> Ordinal(process_state_enum_t, arg[i].proc_state),
                     exit_value |-> arg[i].exit_value]]])
<1> DEFINE n == Len(arg)
           fields == [i \in 1..n |->
             SetName("ProcessStatus_value", arg[i].proc_name)
             \o SetField("ProcessStatus_value", "state", "state_value", "set_enum",
                         Ordinal(process_state_enum_t, arg[i].proc_state))
             \o SetField("ProcessStatus_value", "exit_value", "exit_value_value", "set_int",
                         arg[i].exit_value)]
           ws == [i \in 1..n |-> [name |-> arg[i].proc_name,
                     state |-> Ordinal(process_state_enum_t, arg[i].proc_state),
                     exit_value |-> arg[i].exit_value]]
           D == {ws[i] : i \in 1..n}
           A == Where(Fresh, "completed_processes_value", <<"completed_processes">>)
           v == "ProcessStatus_value"
<1>1. n \in Nat /\ DOMAIN arg = 1..n
  OBVIOUS
<1>2. ws \in Seq(D) /\ Len(ws) = n
  <2>1. \A i \in 1..n : ws[i] \in D
    OBVIOUS
  <2>2. ws = [i \in 1..n |-> ws[i]]
    OBVIOUS
  <2> HIDE DEF D, ws
  <2> QED
    BY <1>1, <2>1, <2>2
<1>3. "completed_processes" \in Keys
  BY DEF Keys
<1>4. /\ "completed_processes_value" \in Locals \ {"record"}
      /\ v \in Locals \ {"record", "completed_processes_value"}
  BY DEF Locals
<1>5. ASSUME NEW i \in 1..n, NEW r, NEW P,
             IsPlace(r, P) /\ At(r, P) = New(ProcessStatus) /\ SchemaAt(HeartBeatResponse, P) = ProcessStatus
             /\ Ready(Where(A, v, P), v, P, Locals \ {"record", "completed_processes_value", v})
      PROVE  Turns(HeartBeatResponse, Where(A, v, P), fields[i], r, Stored(r, P, ws[i]))
  <2>1. arg[i].proc_name = [jobid |-> arg[i].proc_name.jobid, vpid |-> arg[i].proc_name.vpid]
    BY <1>1
  <2>2. Ready(Where(A, v, P), v, P, {"name_value", "jobid_value", "vpid_value", "state_value",
                                      "exit_value_value"})
    BY <1>5 DEF Ready, Locals
  <2>3. PICK e : e = arg[i]
    OBVIOUS
  <2> HIDE DEF A
  <2>4. Turns(HeartBeatResponse, Where(A, v, P),
             SetName("ProcessStatus_value", e.proc_name)
             \o SetField("ProcessStatus_value", "state", "state_value", "set_enum",
                         Ordinal(process_state_enum_t, e.proc_state))
             \o SetField("ProcessStatus_value", "exit_value", "exit_value_value", "set_int",
                         e.exit_value),
             r, Stored(r, P, [name |-> e.proc_name,
                     state |-> Ordinal(process_state_enum_t, e.proc_state),
                     exit_value |-> e.exit_value]))
    BY <1>5, <2>1, <2>2, <2>3, StatusTurns
  <2> QED
    BY <2>3, <2>4
<1>6. HeartBeatResponse = ArrayMessage("completed_processes", ProcessStatus)
  BY ArraySchemas DEF ArrayMessage
<1> HIDE DEF D, A, ws, fields, n
<1>7. Turns(HeartBeatResponse, Fresh, ByName("record", "completed_processes", "completed_processes_value") \o FlattenSeq(Filled("completed_processes_value", v, n, fields)),
            New(HeartBeatResponse), Only("completed_processes", ws))
  <2>1. Fills(HeartBeatResponse, A, "completed_processes_value", v, ProcessStatus, n, fields, ws)
    BY <1>5 DEF Fills
  <2>2. A = Where(Fresh, "completed_processes_value", <<"completed_processes">>)
    BY DEF A
  <2> HIDE DEF v
  <2> QED
    BY <1>1, <1>2, <1>3, <1>4, <1>6, <2>1, <2>2, BuildArrayTurns
<1>8. HeartBeatResponseCalls = ByName("record", "completed_processes", "completed_processes_value") \o FlattenSeq(Filled("completed_processes_value", v, n, fields))
  <2>1. [i \in DOMAIN arg |-> Item("completed_processes_value", v) \o
             (SetName("ProcessStatus_value", arg[i].proc_name)
             \o SetField("ProcessStatus_value", "state", "state_value", "set_enum",
                         Ordinal(process_state_enum_t, arg[i].proc_state))
             \o SetField("ProcessStatus_value", "exit_value", "exit_value_value", "set_int",
                         arg[i].exit_value))]
        = Filled("completed_processes_value", v, n, fields)
    BY <1>1 DEF fields, n, Filled
  <2> QED
    BY <2>1 DEF HeartBeatResponseCalls, BuildArray, EnvironmentFill
<1>9. Only("completed_processes", ws) = [completed_processes |-> [i \in DOMAIN arg |->
                    [name |-> arg[i].proc_name,
                     state |-> Ordinal(process_state_enum_t, arg[i].proc_state),
                     exit_value |-> arg[i].exit_value]]]
  BY <1>1 DEF ws, n, Only
<1> QED
  BY <1>7, <1>8, <1>9

\* What a launch request is meant to hold, whichever version its schema is.
Launched == [launchContexts |-> [i \in DOMAIN arg |->
                [en_vars |-> arg[i].en_vars, args |-> arg[i].args,
                 host_name |-> arg[i].host_name, name |-> arg[i].proc_name]]]

\* The calls for each environment store it, where a context has schema C.
ContextsTurn(S, C) ==
    \A i \in DOMAIN arg : \A M, P, R :
      /\ Ready(M, "launchContext_value", P,
               {"en_vars_array_value", "en_var_item_value", "args_value", "host_name_value",
                "name_value", "jobid_value", "vpid_value"})
      /\ IsPlace(R, P) /\ At(R, P) = New(C) /\ SchemaAt(S, P) = C
      => Turns(S, M, EnvironmentFill(arg[i].en_vars), R,
               Stored(R, P, Changed(New(C), "en_vars", arg[i].en_vars)))

LEMMA LaunchTurns ==
    ASSUME NEW C, ContextSchema(C), NEW S, S = ArrayMessage("launchContexts", C),
           ContextsTurn(S, C), NEW B, arg \in Seq(B),
           \A i \in DOMAIN arg :
             arg[i].proc_name = [jobid |-> arg[i].proc_name.jobid, vpid |-> arg[i].proc_name.vpid]
    PROVE  Turns(S, Fresh, LaunchRequestCalls, New(S), Launched)
<1> DEFINE n == Len(arg)
           fields == [i \in 1..n |->
             EnvironmentFill(arg[i].en_vars)
             \o SetField("launchContext_value", "args", "args_value", "set_string", arg[i].args)
             \o SetField("launchContext_value", "host_name", "host_name_value", "set_string",
                         arg[i].host_name)
             \o SetName("launchContext_value", arg[i].proc_name)]
           ws == [i \in 1..n |-> [en_vars |-> arg[i].en_vars, args |-> arg[i].args,
                     host_name |-> arg[i].host_name, name |-> arg[i].proc_name]]
           D == {ws[i] : i \in 1..n}
           A == Where(Fresh, "launchContexts_value", <<"launchContexts">>)
           v == "launchContext_value"
<1>1. n \in Nat /\ DOMAIN arg = 1..n
  OBVIOUS
<1>2. ws \in Seq(D) /\ Len(ws) = n
  <2>1. \A i \in 1..n : ws[i] \in D
    OBVIOUS
  <2>2. ws = [i \in 1..n |-> ws[i]]
    OBVIOUS
  <2> HIDE DEF D, ws
  <2> QED
    BY <1>1, <2>1, <2>2
<1>3. "launchContexts" \in Keys
  BY DEF Keys
<1>4. /\ "launchContexts_value" \in Locals \ {"record"}
      /\ v \in Locals \ {"record", "launchContexts_value"}
  BY DEF Locals
<1>5. ASSUME NEW i \in 1..n, NEW r, NEW P,
             IsPlace(r, P) /\ At(r, P) = New(C) /\ SchemaAt(S, P) = C
             /\ Ready(Where(A, v, P), v, P, Locals \ {"record", "launchContexts_value", v})
      PROVE  Turns(S, Where(A, v, P), fields[i], r, Stored(r, P, ws[i]))
  <2>1. /\ arg[i].proc_name = [jobid |-> arg[i].proc_name.jobid, vpid |-> arg[i].proc_name.vpid]
        /\ i \in DOMAIN arg
    BY <1>1
  <2>2. Ready(Where(A, v, P), v, P, {"en_vars_array_value", "en_var_item_value",
                                      "args_value", "host_name_value", "name_value",
                                      "jobid_value", "vpid_value"})
    BY <1>5 DEF Ready, Locals
  <2>3. PICK e : e = arg[i]
    OBVIOUS
  <2>4. PICK M : M = Where(A, v, P)
    OBVIOUS
  <2> HIDE DEF A
  <2>5. Turns(S, M, EnvironmentFill(e.en_vars), r,
             Stored(r, P, Changed(New(C), "en_vars", e.en_vars)))
    BY <1>5, <2>1, <2>2, <2>3, <2>4 DEF ContextsTurn
  <2>6. Turns(S, M,
             EnvironmentFill(e.en_vars)
             \o SetField("launchContext_value", "args", "args_value", "set_string", e.args)
             \o SetField("launchContext_value", "host_name", "host_name_value", "set_string",
                         e.host_name)
             \o SetName("launchContext_value", e.proc_name),
             r, Stored(r, P, [en_vars |-> e.en_vars, args |-> e.args,
                     host_name |-> e.host_name, name |-> e.proc_name]))
    BY <1>5, <2>1, <2>2, <2>3, <2>4, <2>5, ContextTurns
  <2> QED
    BY <2>3, <2>4, <2>6
<1> HIDE DEF D, A, ws, fields, n
<1>6. Turns(S, Fresh, ByName("record", "launchContexts", "launchContexts_value") \o FlattenSeq(Filled("launchContexts_value", v, n, fields)),
            New(S), Only("launchContexts", ws))
  <2>1. Fills(S, A, "launchContexts_value", v, C, n, fields, ws)
    BY <1>5 DEF Fills
  <2>2. A = Where(Fresh, "launchContexts_value", <<"launchContexts">>)
    BY DEF A
  <2> HIDE DEF v
  <2> QED
    BY <1>1, <1>2, <1>3, <1>4, <2>1, <2>2, BuildArrayTurns
<1>7. LaunchRequestCalls = ByName("record", "launchContexts", "launchContexts_value") \o FlattenSeq(Filled("launchContexts_value", v, n, fields))
  <2>1. [i \in DOMAIN arg |-> Item("launchContexts_value", v) \o
             (EnvironmentFill(arg[i].en_vars)
             \o SetField("launchContext_value", "args", "args_value", "set_string", arg[i].args)
             \o SetField("launchContext_value", "host_name", "host_name_value", "set_string",
                         arg[i].host_name)
             \o SetName("launchContext_value", arg[i].proc_name))]
        = Filled("launchContexts_value", v, n, fields)
    BY <1>1 DEF fields, n, Filled
  <2> QED
    BY <2>1 DEF LaunchRequestCalls, BuildArray, EnvironmentFill
<1>8. Only("launchContexts", ws) = Launched
  BY <1>1 DEF ws, n, Only, Launched
<1> QED
  BY <1>6, <1>7, <1>8

\* With the schema in use, whatever the environments are.
LEMMA LaunchRequestTurns ==
    ASSUME NEW B, arg \in Seq(B),
           \A i \in DOMAIN arg :
             /\ arg[i].proc_name = [jobid |-> arg[i].proc_name.jobid, vpid |-> arg[i].proc_name.vpid]
             /\ arg[i].en_vars \in Seq(Bytes)
    PROVE  Turns(LaunchRequest, Fresh, LaunchRequestCalls, New(LaunchRequest), Launched)
<1>1. PICK S : S = LaunchRequest
  OBVIOUS
<1>2. PICK C : C = LaunchContext
  OBVIOUS
<1>3. S = ArrayMessage("launchContexts", C)
  BY <1>1, <1>2, ArraySchemas DEF ArrayMessage
<1>4. /\ ContextSchema(C) /\ FieldSchema(C, "en_vars") = AvroArray(AvroString)
      /\ New(C) = [x \in {"en_vars", "args", "host_name", "name"} |-> New_1(FieldSchema(C, x))]
  BY <1>2, LaunchContextFields DEF ContextSchema
<1>5. PICK w : w = New(C)
  OBVIOUS
<1>6. w = [g \in DOMAIN w |-> w[g]] /\ "en_vars" \in DOMAIN w /\ w["en_vars"] = <<>>
  BY <1>4, <1>5, NewParts
<1>7. ASSUME NEW i \in DOMAIN arg, NEW M, NEW P, NEW R,
             Ready(M, "launchContext_value", P,
                   {"en_vars_array_value", "en_var_item_value", "args_value", "host_name_value",
                    "name_value", "jobid_value", "vpid_value"}),
             IsPlace(R, P), At(R, P) = w, SchemaAt(S, P) = C
      PROVE  Turns(S, M, EnvironmentFill(arg[i].en_vars), R,
                   Stored(R, P, Changed(w, "en_vars", arg[i].en_vars)))
  <2>1. Ready(M, "launchContext_value", P, {"en_vars_array_value", "en_var_item_value"})
    BY <1>7 DEF Ready
  <2>2. Stored(R, P, w) = R
    BY <1>7 DEF IsPlace
  <2>3. C.type = "record"
    BY <1>4 DEF ContextSchema
  <2>4. Turns(S, M, EnvironmentFill(arg[i].en_vars), Stored(R, P, w),
              Stored(R, P, Changed(w, "en_vars", arg[i].en_vars)))
    BY <1>4, <1>6, <1>7, <2>1, <2>3, EnvironmentTurns
  <2> QED
    BY <2>2, <2>4
<1>8. ContextsTurn(S, C)
  BY <1>5, <1>7 DEF ContextsTurn
<1> QED
  BY <1>1, <1>3, <1>4, <1>8, LaunchTurns

\* With the earlier schema, in which en_vars is a string, when no context has an
\* environment: its array is asked for and left alone.
LEMMA EarlierLaunchRequestTurns ==
    ASSUME NEW B, arg \in Seq(B),
           \A i \in DOMAIN arg :
             /\ arg[i].proc_name = [jobid |-> arg[i].proc_name.jobid, vpid |-> arg[i].proc_name.vpid]
             /\ arg[i].en_vars = <<>>
    PROVE  Turns(EarlierLaunchRequest, Fresh, LaunchRequestCalls, New(EarlierLaunchRequest), Launched)
<1>1. PICK S : S = EarlierLaunchRequest
  OBVIOUS
<1>2. PICK C : C = EarlierContext
  OBVIOUS
<1>3. S = ArrayMessage("launchContexts", C)
  BY <1>1, <1>2 DEF ArrayMessage, EarlierLaunchRequest, EarlierContext
<1>4. /\ ContextSchema(C) /\ FieldSchema(C, "en_vars") = AvroString
      /\ New(C) = [x \in {"en_vars", "args", "host_name", "name"} |-> New_1(FieldSchema(C, x))]
  BY <1>2, EarlierContextFields DEF ContextSchema
<1>5. PICK w : w = New(C)
  OBVIOUS
<1>6. New_1(AvroString) = <<>>
  BY DEF New_1, NewWith, Zeroed, AvroString
<1>7. w = [g \in DOMAIN w |-> w[g]] /\ "en_vars" \in DOMAIN w /\ w["en_vars"] = <<>>
  BY <1>4, <1>5, <1>6
<1>8. Changed(w, "en_vars", <<>>) = w
  BY <1>7 DEF Changed
<1>9. EnvironmentFill(<<>>) = ByName("launchContext_value", "en_vars", "en_vars_array_value") \o <<>>
  <2>1. PICK rs : rs = [j \in DOMAIN <<>> |->
                          Item("en_vars_array_value", "en_var_item_value")
                          \o <<[op |-> "set_string", on |-> "en_var_item_value", value |-> <<>>[j]]>>]
    OBVIOUS
  <2>2. rs = <<>>
    BY <2>1
  <2>3. FlattenSeq(rs) = <<>>
    BY <2>2 DEF FlattenSeq
  <2> QED
    BY <2>1, <2>3 DEF EnvironmentFill
<1>10. ASSUME NEW M, NEW P, NEW R,
             Ready(M, "launchContext_value", P,
                   {"en_vars_array_value", "en_var_item_value", "args_value", "host_name_value",
                    "name_value", "jobid_value", "vpid_value"}),
             IsPlace(R, P), At(R, P) = w, SchemaAt(S, P) = C
      PROVE  Turns(S, M, EnvironmentFill(<<>>), R, R)
  <2>1. Frees(M, "launchContext_value", P, "en_vars_array_value")
    BY <1>10 DEF Ready
  <2>2. "en_vars" \in Keys /\ SchemaAt(S, P).type = "record" /\ "en_vars" \in DOMAIN At(R, P)
    BY <1>4, <1>7, <1>10 DEF Keys, ContextSchema
  <2>3. Turns(S, Where(M, "en_vars_array_value", Append(P, "en_vars")), <<>>, R, R)
    BY RunNothing DEF Turns
  <2> QED
    BY <1>9, <2>1, <2>2, <2>3, ByNameTurns
<1>11. ContextsTurn(S, C)
  <2> SUFFICES ASSUME NEW i \in DOMAIN arg, NEW M, NEW P, NEW R,
             Ready(M, "launchContext_value", P,
                   {"en_vars_array_value", "en_var_item_value", "args_value", "host_name_value",
                    "name_value", "jobid_value", "vpid_value"}),
             IsPlace(R, P), At(R, P) = w, SchemaAt(S, P) = C
      PROVE  Turns(S, M, EnvironmentFill(arg[i].en_vars), R,
                   Stored(R, P, Changed(w, "en_vars", arg[i].en_vars)))
    BY <1>5 DEF ContextsTurn
  <2>1. arg[i].en_vars = <<>> /\ Stored(R, P, w) = R
    BY DEF IsPlace
  <2>2. Turns(S, M, EnvironmentFill(<<>>), R, R)
    BY <1>10
  <2> QED
    BY <1>8, <2>1, <2>2
<1> QED
  BY <1>1, <1>3, <1>4, <1>11, LaunchTurns

-----------------------------------------------------------------------------
(* The steps of the specification are the moves of the run under way.        *)

Now == State(locals, record, out, status)

Steps ==
    \/ CallUnset \/ CallFails \/ GetChild \/ AppendItem \/ GetSize \/ Set \/ Get
    \/ SetToZero \/ Allocate \/ Loop \/ ReturnStatus

LEMMA NowIs ==
    /\ Now.locals = locals /\ Now.record = record /\ Now.out = out /\ Now.status = status
    /\ Found(schema, Here, Now) <=> Place # Garbage /\ Succeeds
    /\ RoundsOf(Here, Now) = Rounds
<1>1. Now.locals = locals /\ Now.record = record /\ Now.out = out /\ Now.status = status
  BY DEF Now, State
<1>2. Found(schema, Here, Now) <=> Place # Garbage /\ Succeeds
  BY <1>1 DEF Found, Succeeds, Place, Type, Value
<1>3. RoundsOf(Here, Now) = Rounds
  BY <1>1 DEF RoundsOf, Rounds, Place
<1> QED
  BY <1>1, <1>2, <1>3

\* What Did says of the call that is made next.
LEMMA DidNow ==
    ASSUME NEW t, Did(schema, Here, Now, t)
    PROVE  \/ /\ Here.op = "zero"
              /\ t = State([locals EXCEPT ![Here.to] = 0], record, out, status)
           \/ /\ Here.op \in CallNames /\ Place # Garbage /\ ~Succeeds
              /\ t = State(locals, record, out, "einval")
           \/ /\ Here.op \in {"get_by_name", "get_by_index"} /\ Place # Garbage /\ Succeeds
              /\ t = State([locals EXCEPT ![Here.to] =
                       Append(Place, IF Here.op = "get_by_name" THEN Here.name ELSE Here.index)],
                           record, out, status)
           \/ /\ Here.op = "append" /\ Place # Garbage /\ Succeeds
              /\ t = State([locals EXCEPT ![Here.to] = Append(Place, Len(Value) + 1)],
                           Stored(record, Place, Append(Value, New(SchemaAt(schema, Place).items))),
                           out, status)
           \/ /\ Here.op = "get_size" /\ Place # Garbage /\ Succeeds
              /\ t = State([locals EXCEPT ![Here.to] = Cardinality(DOMAIN Value)], record, out, status)
           \/ /\ Here.op \in UNION Range(Setters) /\ Place # Garbage /\ Succeeds
              /\ t = State(locals, Stored(record, Place, Here.value), out, status)
           \/ /\ Here.op \in UNION Range(Getters) /\ Place # Garbage /\ Succeeds
              /\ t = State(locals, record, Stored(out, Here.to, Converted(Here.op, Here.to, Value)), status)
           \/ /\ Here.op = "xmalloc" /\ Place # Garbage
              /\ t = State(locals, record, Stored(out, Here.to, [k \in 1..Place |-> Here.element]), status)
           \/ /\ Here.op = "return" /\ Place # Garbage
              /\ t = State(locals, record, IF Accepts(Place) THEN 0 ELSE -1, status)
<1>1. /\ Now.locals[Here.on] = Place /\ At(Now.record, Now.locals[Here.on]) = Value
      /\ \A x : Assigned(Now, Here, x) = [locals EXCEPT ![Here.to] = x]
  BY NowIs DEF Place, Value, Assigned
<1> QED
  BY <1>1, NowIs DEF Did

LEMMA CallFollows ==
    ASSUME Steps, NEW t, Run(schema, todo, Now, t)
    PROVE  Run(schema, todo', Now', t)
<1>1. todo # <<>>
  BY DEF Steps, CallUnset, CallFails, GetChild, AppendItem, GetSize, Set, Get, SetToZero, Allocate,
         Loop, ReturnStatus, Busy, Called, Answers
<1>2. PICK y : Moves(schema, <<todo, Now>>, y) /\ Run(schema, y[1], y[2], t)
  BY <1>1, RunStep
<1>3. \/ Did(schema, Here, Now, y[2]) /\ y[1] = Tail(todo)
      \/ /\ Here.op = "for" /\ Place # Garbage
         /\ y[1] = Rounds \o Tail(todo) /\ y[2] = Now
  <2>1. /\ <<todo, Now>>[1] = todo /\ <<todo, Now>>[2] = Now
    OBVIOUS
  <2>2. Now.locals[Here.on] = Place
    BY NowIs DEF Place
  <2> QED
    BY <1>2, <2>1, <2>2, NowIs DEF Moves, Here
<1>4. schema' = schema
  BY DEF Steps, CallUnset, CallFails, GetChild, AppendItem, GetSize, Set, Get, SetToZero, Allocate,
         Loop, ReturnStatus
<1>5. Now' = State(locals', record', out', status')
  BY DEF Now
<1>6. CASE Here.op = "for"
  <2>1. ~Did(schema, Here, Now, y[2])
    BY <1>6, DidNow, OpKinds
  <2>2. /\ Place # Garbage /\ y[1] = Rounds \o Tail(todo) /\ y[2] = Now
    BY <1>3, <2>1
  <2>3. Loop
    BY <1>6, <2>2, OpKinds DEF Steps, CallUnset, CallFails, GetChild, AppendItem, GetSize, Set, Get,
           SetToZero, Allocate, ReturnStatus, Called, Answers
  <2>4. todo' = y[1] /\ Now' = Now
    BY <1>5, <2>2, <2>3 DEF Loop, Now
  <2> QED
    BY <1>2, <1>4, <2>2, <2>4
<1>7. CASE Here.op # "for"
  <2>1. Did(schema, Here, Now, y[2]) /\ y[1] = Tail(todo)
    BY <1>3, <1>7
  <2>2. SUFFICES y[1] = todo' /\ y[2] = Now'
    BY <1>2, <1>4, <2>2
  <2>3. CASE CallUnset
    BY <2>3, <2>1, DidNow, <1>5, OpKinds DEF CallUnset
  <2>4. CASE CallFails
    BY <2>4, <2>1, DidNow, <1>5, OpKinds DEF CallFails, Called, Continue
  <2>5. CASE GetChild
    BY <2>5, <2>1, DidNow, <1>5, OpKinds DEF GetChild, Called, Continue, Answers
  <2>6. CASE AppendItem
    BY <2>6, <2>1, DidNow, <1>5, OpKinds DEF AppendItem, Called, Continue, Answers
  <2>7. CASE GetSize
    BY <2>7, <2>1, DidNow, <1>5, OpKinds DEF GetSize, Called, Continue, Answers
  <2>8. CASE Set
    BY <2>8, <2>1, DidNow, <1>5, OpKinds DEF Set, Called, Continue, Answers
  <2>9. CASE Get
    BY <2>9, <2>1, DidNow, <1>5, OpKinds DEF Get, Called, Continue, Answers
  <2>10. CASE SetToZero
    <3>1. /\ Here.op = "zero" /\ todo' = Tail(todo) /\ locals' = [locals EXCEPT ![Here.to] = 0]
          /\ record' = record /\ out' = out /\ status' = status
      BY <2>10 DEF SetToZero, Called, Continue
    <3>2. y[2] = State([locals EXCEPT ![Here.to] = 0], record, out, status)
      BY <2>1, <3>1, DidNow, OpKinds
    <3> QED
      BY <1>5, <2>1, <3>1, <3>2
  <2>11. CASE Allocate
    <3>1. /\ Here.op = "xmalloc" /\ todo' = Tail(todo) /\ locals' = locals
          /\ out' = Stored(out, Here.to, [k \in 1..Place |-> Here.element])
          /\ record' = record /\ status' = status
      BY <2>11 DEF Allocate, Called, Continue
    <3>2. y[2] = State(locals, record, Stored(out, Here.to, [k \in 1..Place |-> Here.element]), status)
      BY <2>1, <3>1, DidNow, OpKinds
    <3> QED
      BY <1>5, <2>1, <3>1, <3>2
  <2>12. CASE Loop
    BY <1>7, <2>12 DEF Loop, Called
  <2>13. CASE ReturnStatus
    BY <2>13, <2>1, DidNow, <1>5, OpKinds DEF ReturnStatus, Called, Continue, Answers
  <2> QED
    BY <2>3, <2>4, <2>5, <2>6, <2>7, <2>8, <2>9, <2>10, <2>11, <2>12, <2>13 DEF Steps
<1> QED
  BY <1>6, <1>7

-----------------------------------------------------------------------------
(* The builders.                                                             *)

ArrayForms == {"LAUNCH", "AllocateResponse", "LaunchResponse", "HeartBeatResponse"}

\* What the argument of each builder can be: every array of structs, not only
\* those up to MaxItems.
Given(f) == IF f \in ArrayForms THEN Seq(Items(f)) ELSE Scalars(f)

Typed == form \in Forms /\ arg \in Given(form)

\* The record that Codec says the builder writes.
Meant ==
    CASE form = "ALLOCATE" -> [resource_count |-> arg]
      [] form = "LAUNCH" ->
           [launchContexts |-> [i \in DOMAIN arg |->
              [en_vars |-> arg[i].en_vars, args |-> arg[i].args,
               host_name |-> arg[i].host_name, name |-> arg[i].proc_name]]]
      [] form = "REGISTER" -> [register_request |-> "null"]
      [] form = "FINISH" -> [succeed |-> arg.succeed, diagnostics |-> arg.diagnostics]
      [] form = "HEARTBEAT" -> [heartbeat_request |-> "null"]
      [] form = "AllocateResponse" ->
           [node_resources |-> [i \in DOMAIN arg |->
              [host_name |-> arg[i].host_name, slot |-> arg[i].slot_num]]]
      [] form = "LaunchResponse" ->
           [results |-> [i \in DOMAIN arg |->
              [is_successful |-> arg[i].is_successful, name |-> arg[i].proc_name]]]
      [] form = "RegisterResponse" -> [register_response |-> "null"]
      [] form = "FinishResponse" -> [finish_response |-> "null"]
      [] form = "HeartBeatResponse" ->
           [completed_processes |-> [i \in DOMAIN arg |->
              [name |-> arg[i].proc_name,
               state |-> Ordinal(process_state_enum_t, arg[i].proc_state),
               exit_value |-> arg[i].exit_value]]]
      [] form = "wrapper" ->
           [request |-> arg.inner, msg_type |-> Ordinal(msg_type_enum_t, arg.msg_type)]
      [] form = "person" -> [name |-> arg.name, weight |-> arg.weight, height |-> arg.height]

LEMMA MeantIsBuilt == form \in Forms => Built = Write(Schema[form], Meant)
<1> SUFFICES ASSUME form \in Forms PROVE Built = Write(Schema[form], Meant)
  OBVIOUS
<1>1. CASE form = "ALLOCATE"
  BY <1>1 DEF Built, Meant, Schema, build_allocate_request
<1>2. CASE form = "LAUNCH"
  BY <1>2 DEF Built, Meant, Schema, build_launch_request
<1>3. CASE form = "REGISTER"
  BY <1>3 DEF Built, Meant, Schema, build_register_request
<1>4. CASE form = "FINISH"
  BY <1>4 DEF Built, Meant, Schema, build_finish_request
<1>5. CASE form = "HEARTBEAT"
  BY <1>5 DEF Built, Meant, Schema, build_heartbeat_request
<1>6. CASE form = "AllocateResponse"
  BY <1>6 DEF Built, Meant, Schema, build_allocate_response
<1>7. CASE form = "LaunchResponse"
  BY <1>7 DEF Built, Meant, Schema, build_launch_response
<1>8. CASE form = "RegisterResponse"
  BY <1>8 DEF Built, Meant, Schema, build_register_response
<1>9. CASE form = "FinishResponse"
  BY <1>9 DEF Built, Meant, Schema, build_finish_response
<1>10. CASE form = "HeartBeatResponse"
  BY <1>10 DEF Built, Meant, Schema, build_heartbeat_response
<1>11. CASE form = "wrapper"
  BY <1>11 DEF Built, Meant, Schema, build_hnp_request_wrapper
<1>12. CASE form = "person"
  BY <1>12 DEF Built, Meant, Schema, build_person
<1> QED
  BY <1>1, <1>2, <1>3, <1>4, <1>5, <1>6, <1>7, <1>8, <1>9, <1>10, <1>11, <1>12 DEF Forms, Requests, Responses

LEMMA NameParts ==
    ASSUME NEW i \in DOMAIN arg, Typed, form \in {"LAUNCH", "LaunchResponse", "HeartBeatResponse"}
    PROVE  arg[i].proc_name = [jobid |-> arg[i].proc_name.jobid, vpid |-> arg[i].proc_name.vpid]
<1>1. arg \in Seq(Items(form))
  BY DEF Typed, Given, ArrayForms
<1>2. arg[i] \in Items(form)
  BY <1>1
<1>3. arg[i].proc_name \in Names
  BY <1>2 DEF Items
<1>4. \A x \in Names : x = [jobid |-> x.jobid, vpid |-> x.vpid]
  BY DEF Names
<1> QED
  BY <1>3, <1>4

LEMMA NullMessageTurns ==
    ASSUME NEW f, NEW S, S = AvroRecord(<< <<f, AvroNull>> >>)
    PROVE  Turns(S, Fresh, <<>>, New(S), [g \in {f} |-> "null"])
<1>1. New_1(AvroNull) = "null"
  BY DEF New_1, NewWith, Zeroed, AvroNull
<1>2. FieldSchema(S, f) = AvroNull /\ New(S) = [g \in {f} |-> New_1(FieldSchema(S, g))]
  BY OneFieldRecord
<1>3. New(S) = [g \in {f} |-> "null"]
  BY <1>1, <1>2
<1> QED
  BY <1>3, RunNothing DEF Turns

\* What the calls of a builder make of a new record.
LEMMA BuilderTurns ==
    ASSUME Typed
    PROVE  Turns(Schema[form], Fresh, BuilderCalls, New(Schema[form]), Meant)
<1>1. CASE form = "ALLOCATE"
  BY <1>1, AllocateRequestTurns DEF Schema, BuilderCalls, Meant
<1>2. CASE form = "FINISH"
  BY <1>2, FinishRequestTurns DEF Schema, BuilderCalls, Meant
<1>3. CASE form = "wrapper"
  BY <1>3, WrapperTurns DEF Schema, BuilderCalls, Meant
<1>4. CASE form = "person"
  BY <1>4, PersonTurns DEF Schema, BuilderCalls, Meant
<1>5. CASE form = "REGISTER"
  <2>1. Turns(RegisterRequest, Fresh, <<>>, New(RegisterRequest), [register_request |-> "null"])
    BY NullMessageTurns DEF RegisterRequest
  <2> QED
    BY <1>5, <2>1 DEF Schema, BuilderCalls, Meant
<1>6. CASE form = "HEARTBEAT"
  <2>1. Turns(HeartBeatRequest, Fresh, <<>>, New(HeartBeatRequest), [heartbeat_request |-> "null"])
    BY NullMessageTurns DEF HeartBeatRequest
  <2> QED
    BY <1>6, <2>1 DEF Schema, BuilderCalls, Meant
<1>7. CASE form = "RegisterResponse"
  <2>1. Turns(RegisterResponse, Fresh, <<>>, New(RegisterResponse), [register_response |-> "null"])
    BY NullMessageTurns DEF RegisterResponse
  <2> QED
    BY <1>7, <2>1 DEF Schema, BuilderCalls, Meant
<1>8. CASE form = "FinishResponse"
  <2>1. Turns(FinishResponse, Fresh, <<>>, New(FinishResponse), [finish_response |-> "null"])
    BY NullMessageTurns DEF FinishResponse
  <2> QED
    BY <1>8, <2>1 DEF Schema, BuilderCalls, Meant
<1>9. CASE form = "AllocateResponse"
  <2>1. arg \in Seq(Items(form))
    BY <1>9 DEF Typed, Given, ArrayForms
  <2>2. Turns(AllocateResponse, Fresh, AllocateResponseCalls, New(AllocateResponse),
              [node_resources |-> [i \in DOMAIN arg |->
                 [host_name |-> arg[i].host_name, slot |-> arg[i].slot_num]]])
    BY <2>1, AllocateResponseTurns
  <2> QED
    BY <1>9, <2>2 DEF Schema, BuilderCalls, Meant
<1>10. CASE form = "LaunchResponse"
  <2>1. arg \in Seq(Items(form))
    BY <1>10 DEF Typed, Given, ArrayForms
  <2>2. \A i \in DOMAIN arg :
          arg[i].proc_name = [jobid |-> arg[i].proc_name.jobid, vpid |-> arg[i].proc_name.vpid]
    BY <1>10, NameParts
  <2>3. Turns(LaunchResponse, Fresh, LaunchResponseCalls, New(LaunchResponse),
              [results |-> [i \in DOMAIN arg |->
                 [is_successful |-> arg[i].is_successful, name |-> arg[i].proc_name]]])
    BY <2>1, <2>2, LaunchResponseTurns
  <2> QED
    BY <1>10, <2>3 DEF Schema, BuilderCalls, Meant
<1>11. CASE form = "HeartBeatResponse"
  <2>1. arg \in Seq(Items(form))
    BY <1>11 DEF Typed, Given, ArrayForms
  <2>2. \A i \in DOMAIN arg :
          arg[i].proc_name = [jobid |-> arg[i].proc_name.jobid, vpid |-> arg[i].proc_name.vpid]
    BY <1>11, NameParts
  <2>3. Turns(HeartBeatResponse, Fresh, HeartBeatResponseCalls, New(HeartBeatResponse),
              [completed_processes |-> [i \in DOMAIN arg |->
                 [name |-> arg[i].proc_name,
                  state |-> Ordinal(process_state_enum_t, arg[i].proc_state),
                  exit_value |-> arg[i].exit_value]]])
    BY <2>1, <2>2, HeartBeatResponseTurns
  <2> QED
    BY <1>11, <2>3 DEF Schema, BuilderCalls, Meant
<1>12. CASE form = "LAUNCH"
  <2>1. arg \in Seq(Items("LAUNCH"))
    BY <1>12 DEF Typed, Given, ArrayForms
  <2>2. ASSUME NEW i \in DOMAIN arg
        PROVE  /\ arg[i].proc_name = [jobid |-> arg[i].proc_name.jobid, vpid |-> arg[i].proc_name.vpid]
               /\ arg[i].en_vars \in Seq(Bytes)
    <3>1. arg[i] \in Items("LAUNCH")
      BY <2>1
    <3>2. arg[i].en_vars \in EnvVectors
      BY <3>1 DEF Items
    <3> QED
      BY <1>12, <3>2, NameParts, ArgumentsAssumption
  <2>3. Turns(LaunchRequest, Fresh, LaunchRequestCalls, New(LaunchRequest), Launched)
    BY <2>1, <2>2, LaunchRequestTurns
  <2> QED
    BY <1>12, <2>3 DEF Schema, BuilderCalls, Meant, Launched
<1> QED
  BY <1>1, <1>2, <1>3, <1>4, <1>5, <1>6, <1>7, <1>8, <1>9, <1>10, <1>11, <1>12
     DEF Typed, Forms, Requests, Responses

-----------------------------------------------------------------------------
(* The parsers that return a status.                                         *)

\* The messages of one null field, whose earlier schemas have none.
StatusForms == {"REGISTER", "HEARTBEAT", "RegisterResponse", "FinishResponse"}

LEMMA StatusFormsAre == Earlier(form) = {NoFields} <=> form \in StatusForms
<1>1. CASE form \in StatusForms
  BY <1>1 DEF StatusForms, Earlier
<1>2. CASE form = "LAUNCH"
  <2>1. EarlierLaunchRequest.fields # <<>> /\ NoFields.fields = <<>>
    <3>1. \A x : << x >> # <<>>
      OBVIOUS
    <3> QED
      BY <3>1 DEF EarlierLaunchRequest, NoFields, AvroRecord
  <2> QED
    BY <1>2, <2>1 DEF StatusForms, Earlier
<1>3. CASE form \notin StatusForms /\ form # "LAUNCH"
  BY <1>3 DEF StatusForms, Earlier
<1> QED
  BY <1>1, <1>2, <1>3

\* The size of a record that was read with schema S.
FieldCount(S) == IF S = NoFields THEN 0 ELSE 1

LEMMA RecordRead ==
    ASSUME NEW S, NEW b, S.type = "record", Read(S, b).ok
    PROVE  DOMAIN Read(S, b).value = {S.fields[i][1] : i \in DOMAIN S.fields}
<1>1. PICK readers : Read(S, b) = ReadCompound(S, readers, b)
  BY DEF Read, Decode, ReadWith, Compound
<1>2. Read(S, b) = AsRecord(S, ReadAll(readers, b))
  BY <1>1 DEF ReadCompound
<1>3. Read(S, b).value = RecordOf(S, ReadAll(readers, b).value)
  BY <1>2 DEF AsRecord, Got, Failed
<1> QED
  BY <1>3 DEF RecordOf

LEMMA SizeRead ==
    ASSUME NEW S, NEW b, form \in StatusForms, S \in {Schema[form], NoFields}, Read(S, b).ok
    PROVE  S.type = "record" /\ Cardinality(DOMAIN Read(S, b).value) = FieldCount(S)
<1>1. CASE S = NoFields
  <2>1. S.type = "record" /\ S.fields = <<>>
    BY <1>1 DEF NoFields, AvroRecord
  <2>2. DOMAIN Read(S, b).value = {}
    BY <2>1, RecordRead
  <2> QED
    BY <1>1, <2>1, <2>2, FS_EmptySet DEF FieldCount
<1>2. CASE S # NoFields
  <2>1. \E f : S = AvroRecord(<< <<f, AvroNull>> >>)
    <3>1. CASE form = "REGISTER"
      BY <1>2, <3>1 DEF Schema, RegisterRequest
    <3>2. CASE form = "HEARTBEAT"
      BY <1>2, <3>2 DEF Schema, HeartBeatRequest
    <3>3. CASE form = "RegisterResponse"
      BY <1>2, <3>3 DEF Schema, RegisterResponse
    <3>4. CASE form = "FinishResponse"
      BY <1>2, <3>4 DEF Schema, FinishResponse
    <3> QED
      BY <3>1, <3>2, <3>3, <3>4 DEF StatusForms
  <2>2. PICK f : S = AvroRecord(<< <<f, AvroNull>> >>)
    BY <2>1
  <2>3. S.type = "record" /\ DOMAIN S.fields = {1} /\ S.fields[1][1] = f
    BY <2>2 DEF AvroRecord
  <2>4. DOMAIN Read(S, b).value = {f}
    BY <2>3, RecordRead
  <2> QED
    BY <1>2, <2>3, <2>4, FS_Singleton DEF FieldCount
<1> QED
  BY <1>1, <1>2

ZeroSize == [op |-> "zero", to |-> "size"]
AskSize == [op |-> "get_size", on |-> "record", to |-> "size"]
ReturnSize == [op |-> "return", on |-> "size"]

LEMMA StatusCallsAre ==
    /\ StatusCalls = <<ZeroSize, AskSize, ReturnSize>>
    /\ form \in StatusForms => ParserCalls = StatusCalls
<1>1. StatusCalls = <<ZeroSize, AskSize, ReturnSize>>
  <2>1. ASSUME NEW a, NEW b, NEW c PROVE <<a>> \o <<b>> \o <<c>> = <<a, b, c>>
    <3> DEFINE C == {a, b, c}
    <3>0. a \in C /\ b \in C /\ c \in C
      OBVIOUS
    <3> HIDE DEF C
    <3>1. PICK p, q, r, s : p = <<a>> /\ q = <<b>> /\ r = <<c>> /\ s = <<a, b, c>>
      OBVIOUS
    <3>2. /\ p \in Seq(C) /\ q \in Seq(C) /\ r \in Seq(C) /\ s \in Seq(C)
          /\ Len(p) = 1 /\ Len(q) = 1 /\ Len(r) = 1 /\ Len(s) = 3
          /\ p[1] = a /\ q[1] = b /\ r[1] = c /\ s[1] = a /\ s[2] = b /\ s[3] = c
      BY <3>0, <3>1
    <3>3. /\ p \o q \in Seq(C) /\ Len(p \o q) = 2
          /\ (p \o q)[1] = a /\ (p \o q)[2] = b
      BY <3>2, ConcatProperties
    <3>4. PICK u : u = p \o q
      OBVIOUS
    <3>5. /\ u \o r \in Seq(C) /\ Len(u \o r) = 3
          /\ (u \o r)[1] = a /\ (u \o r)[2] = b /\ (u \o r)[3] = c
      BY <3>2, <3>3, <3>4, ConcatProperties
    <3>6. \A i \in 1..3 : (u \o r)[i] = s[i]
      BY <3>2, <3>5
    <3>7. u \o r = s
      BY <3>2, <3>5, <3>6, SeqEqual
    <3> QED
      BY <3>1, <3>4, <3>7
  <2>2. StatusCalls = <<ZeroSize>> \o <<AskSize>> \o <<ReturnSize>>
    BY DEF StatusCalls, Zero, Size, Return, ZeroSize, AskSize, ReturnSize
  <2> QED
    BY <2>1, <2>2
<1> QED
  BY <1>1 DEF StatusForms, ParserCalls

-----------------------------------------------------------------------------
(* What the calls of a parser store for its caller.                          *)

\* From the locals in M the calls read record R: they take what is stored from
\* a to b, the locals back into M, and the status from one in Y to one in Y.
Gets(S, Y, R, M, cs, a, b) ==
    \A x \in Y, l \in M :
      \E y \in Y, k \in M : Run(S, cs, State(l, R, a, x), State(k, R, b, y))

LEMMA GetsBoth ==
    ASSUME NEW S, NEW Y, NEW R, NEW M, NEW ds, NEW es, NEW a, NEW b, NEW d,
           Gets(S, Y, R, M, ds, a, b), Gets(S, Y, R, M, es, b, d)
    PROVE  Gets(S, Y, R, M, ds \o es, a, d)
<1> SUFFICES ASSUME NEW x \in Y, NEW l \in M
             PROVE  \E y \in Y, k \in M : Run(S, ds \o es, State(l, R, a, x), State(k, R, d, y))
  BY DEF Gets
<1>1. PICK z \in Y, m \in M : Run(S, ds, State(l, R, a, x), State(m, R, b, z))
  BY DEF Gets
<1>2. PICK y \in Y, k \in M : Run(S, es, State(m, R, b, z), State(k, R, d, y))
  BY DEF Gets
<1> QED
  BY <1>1, <1>2, RunBoth

\* In M the call sets c to q and does nothing else.
Goes(S, R, M, call, c, q) ==
    \A l \in M : \A o, x : Did(S, call, State(l, R, o, x), State(Changed(l, c, q), R, o, x))

\* A local that is set, then calls that need it there.
LEMMA GoesGets ==
    ASSUME NEW S, NEW Y, NEW R, NEW M, NEW v, NEW P, NEW c, Frees(M, v, P, c),
           NEW q \in Marks, NEW call, Goes(S, R, M, call, c, q),
           NEW fs, NEW a, NEW b, Gets(S, Y, R, Where(M, c, q), fs, a, b)
    PROVE  Gets(S, Y, R, M, <<call>> \o fs, a, b)
<1> SUFFICES ASSUME NEW x \in Y, NEW l \in M
             PROVE  \E y \in Y, k \in M : Run(S, <<call>> \o fs, State(l, R, a, x), State(k, R, b, y))
  BY DEF Gets
<1>1. PICK m : m = Changed(l, c, q)
  OBVIOUS
<1>2. m \in Where(M, c, q)
  BY <1>1, GoesWhere
<1>3. Did(S, call, State(l, R, a, x), State(m, R, a, x))
  BY <1>1 DEF Goes
<1>4. Run(S, <<call>>, State(l, R, a, x), State(m, R, a, x))
  <2>1. State(l, R, a, x).status \in {"ok", State(m, R, a, x).status}
    BY DEF State
  <2> QED
    BY <1>3, <2>1, RunOne
<1>5. PICK y \in Y, k \in Where(M, c, q) : Run(S, fs, State(m, R, a, x), State(k, R, b, y))
  BY <1>2 DEF Gets
<1>6. Run(S, <<call>> \o fs, State(l, R, a, x), State(k, R, b, y))
  BY <1>4, <1>5, RunBoth
<1> QED
  BY <1>6 DEF Where

\* In M the call takes what is stored from a to b and does nothing else.
Puts(S, R, M, call, a, b) ==
    \A l \in M : \A x : Did(S, call, State(l, R, a, x), State(l, R, b, x))

LEMMA PutsGets ==
    ASSUME NEW S, NEW Y, NEW R, NEW M, NEW call, NEW a, NEW b, Puts(S, R, M, call, a, b)
    PROVE  Gets(S, Y, R, M, <<call>>, a, b)
<1> SUFFICES ASSUME NEW x \in Y, NEW l \in M
             PROVE  Run(S, <<call>>, State(l, R, a, x), State(l, R, b, x))
  BY DEF Gets
<1>1. Did(S, call, State(l, R, a, x), State(l, R, b, x))
  BY DEF Puts
<1>2. State(l, R, a, x).status \in {"ok", State(l, R, b, x).status}
  BY DEF State
<1> QED
  BY <1>1, <1>2, RunOne

\* A call that fails, where that may happen.
LEMMA FailGets ==
    ASSUME NEW S, NEW Y, Y \subseteq {"ok", "einval"}, "einval" \in Y, NEW R, NEW M, NEW call,
           \A l \in M : \A o, x : Did(S, call, State(l, R, o, x), State(l, R, o, "einval")), NEW a
    PROVE  Gets(S, Y, R, M, <<call>>, a, a)
<1> SUFFICES ASSUME NEW x \in Y, NEW l \in M
             PROVE  Run(S, <<call>>, State(l, R, a, x), State(l, R, a, "einval"))
  BY DEF Gets
<1>1. Did(S, call, State(l, R, a, x), State(l, R, a, "einval"))
  OBVIOUS
<1>2. State(l, R, a, x).status \in {"ok", State(l, R, a, "einval").status}
  BY DEF State
<1> QED
  BY <1>1, <1>2, RunOne

LEMMA ByNameGets ==
    ASSUME NEW S, NEW Y, NEW R, NEW M, NEW v, NEW P, NEW c, Frees(M, v, P, c),
           NEW f \in Keys, SchemaAt(S, P).type = "record", f \in DOMAIN At(R, P),
           NEW fs, NEW a, NEW b, Gets(S, Y, R, Where(M, c, Append(P, f)), fs, a, b)
    PROVE  Gets(S, Y, R, M, ByName(v, f, c) \o fs, a, b)
<1> DEFINE call == [op |-> "get_by_name", on |-> v, name |-> f, to |-> c]
           Q == Append(P, f)
<1>1. Q \in Places /\ Q \in Marks
  BY Longer, PlaceIsSet DEF Frees
<1>2. call.op = "get_by_name" /\ call.on = v /\ call.name = f /\ call.to = c
  OBVIOUS
<1>3. "get_by_name" \in Methods("record")
  BY DEF Methods, CompoundGetters
<1> HIDE DEF call, Q
<1>4. ASSUME NEW l \in M, NEW o, NEW x
      PROVE  Did(S, call, State(l, R, o, x), State(Changed(l, c, Q), R, o, x))
  <2> DEFINE s == State(l, R, o, x)
             u == State(Changed(l, c, Q), R, o, x)
  <2>1. s.locals = l /\ s.record = R /\ s.out = o /\ s.status = x
    BY DEF State
  <2>2. l[v] = P /\ P # Garbage
    BY PlaceIsSet DEF Frees
  <2> HIDE DEF s
  <2>3. Found(S, call, s)
    BY <1>2, <1>3, <2>1, <2>2 DEF Found
  <2>4. u = State(Assigned(s, call, Append(l[v], f)), R, o, x)
    BY <1>2, <2>1, <2>2 DEF Assigned, Changed, Q
  <2> HIDE DEF u
  <2>5. Did(S, call, s, u)
    BY <1>2, <2>1, <2>3, <2>4 DEF Did
  <2> QED
    BY <2>5 DEF s, u
<1>5. Goes(S, R, M, call, c, Q)
  BY <1>4 DEF Goes
<1>6. Gets(S, Y, R, Where(M, c, Q), fs, a, b)
  BY DEF Q
<1>7. Gets(S, Y, R, M, <<call>> \o fs, a, b)
  BY <1>1, <1>5, <1>6, GoesGets
<1> QED
  BY <1>7 DEF ByName, call

LEMMA ByIndexGets ==
    ASSUME NEW S, NEW Y, NEW R, NEW M, NEW v, NEW P, NEW c, Frees(M, v, P, c),
           NEW i \in Keys, SchemaAt(S, P).type = "array", i \in DOMAIN At(R, P),
           NEW fs, NEW a, NEW b, Gets(S, Y, R, Where(M, c, Append(P, i)), fs, a, b)
    PROVE  Gets(S, Y, R, M, ByIndex(v, i, c) \o fs, a, b)
<1> DEFINE call == [op |-> "get_by_index", on |-> v, index |-> i, to |-> c]
           Q == Append(P, i)
<1>1. Q \in Places /\ Q \in Marks
  BY Longer, PlaceIsSet DEF Frees
<1>2. call.op = "get_by_index" /\ call.on = v /\ call.index = i /\ call.to = c
  OBVIOUS
<1>3. "get_by_index" \in Methods("array")
  BY DEF Methods, CompoundGetters
<1> HIDE DEF call, Q
<1>4. ASSUME NEW l \in M, NEW o, NEW x
      PROVE  Did(S, call, State(l, R, o, x), State(Changed(l, c, Q), R, o, x))
  <2> DEFINE s == State(l, R, o, x)
             u == State(Changed(l, c, Q), R, o, x)
  <2>1. s.locals = l /\ s.record = R /\ s.out = o /\ s.status = x
    BY DEF State
  <2>2. l[v] = P /\ P # Garbage
    BY PlaceIsSet DEF Frees
  <2> HIDE DEF s
  <2>3. Found(S, call, s)
    BY <1>2, <1>3, <2>1, <2>2 DEF Found
  <2>4. u = State(Assigned(s, call, Append(l[v], i)), R, o, x)
    BY <1>2, <2>1, <2>2 DEF Assigned, Changed, Q
  <2> HIDE DEF u
  <2>5. Did(S, call, s, u)
    BY <1>2, <2>1, <2>3, <2>4 DEF Did
  <2> QED
    BY <2>5 DEF s, u
<1>5. Goes(S, R, M, call, c, Q)
  BY <1>4 DEF Goes
<1>6. Gets(S, Y, R, Where(M, c, Q), fs, a, b)
  BY DEF Q
<1>7. Gets(S, Y, R, M, <<call>> \o fs, a, b)
  BY <1>1, <1>5, <1>6, GoesGets
<1> QED
  BY <1>7 DEF ByIndex, call

\* The size of a record or an array.
LEMMA SizeGets ==
    ASSUME NEW S, NEW Y, NEW R, NEW M, NEW v, NEW P, NEW c, Frees(M, v, P, c),
           SchemaAt(S, P).type \in {"record", "array"},
           NEW n \in Nat, Cardinality(DOMAIN At(R, P)) = n,
           NEW fs, NEW a, NEW b, Gets(S, Y, R, Where(M, c, n), fs, a, b)
    PROVE  Gets(S, Y, R, M, Size(v, c) \o fs, a, b)
<1> DEFINE call == [op |-> "get_size", on |-> v, to |-> c]
<1>1. n \in Marks
  BY DEF Marks
<1>2. call.op = "get_size" /\ call.on = v /\ call.to = c
  OBVIOUS
<1>3. "get_size" \in Methods("array") /\ "get_size" \in Methods("record")
  BY DEF Methods, CompoundGetters
<1> HIDE DEF call
<1>4. ASSUME NEW l \in M, NEW o, NEW x
      PROVE  Did(S, call, State(l, R, o, x), State(Changed(l, c, n), R, o, x))
  <2> DEFINE s == State(l, R, o, x)
             u == State(Changed(l, c, n), R, o, x)
  <2>1. s.locals = l /\ s.record = R /\ s.out = o /\ s.status = x
    BY DEF State
  <2>2. l[v] = P /\ P # Garbage
    BY PlaceIsSet DEF Frees
  <2> HIDE DEF s
  <2>3. Found(S, call, s)
    BY <1>2, <1>3, <2>1, <2>2 DEF Found
  <2>4. u = State(Assigned(s, call, n), R, o, x)
    BY <1>2, <2>1, <2>2 DEF Assigned, Changed
  <2> HIDE DEF u
  <2>5. Did(S, call, s, u)
    BY <1>2, <2>1, <2>2, <2>3, <2>4 DEF Did
  <2> QED
    BY <2>5 DEF s, u
<1>5. Goes(S, R, M, call, c, n)
  BY <1>4 DEF Goes
<1>7. Gets(S, Y, R, M, <<call>> \o fs, a, b)
  BY <1>1, <1>5, GoesGets
<1> QED
  BY <1>7 DEF Size, call

\* That of anything else: the call fails and c stays as it is.
LEMMA NoSizeGets ==
    ASSUME NEW S, NEW Y, Y \subseteq {"ok", "einval"}, "einval" \in Y, NEW R,
           NEW M, NEW v, NEW P \in Places, \A l \in M : l[v] = P, NEW c,
           SchemaAt(S, P).type = "string", NEW a
    PROVE  Gets(S, Y, R, M, Size(v, c), a, a)
<1> DEFINE call == [op |-> "get_size", on |-> v, to |-> c]
<1>2. call.op = "get_size" /\ call.on = v /\ call.to = c
  OBVIOUS
<1>3. "get_size" \notin Methods("string") /\ "get_size" \in CallNames
  BY OpKinds DEF Methods, CompoundGetters, CompoundSetters, Getters, Setters
<1> HIDE DEF call
<1>4. ASSUME NEW l \in M, NEW o, NEW x
      PROVE  Did(S, call, State(l, R, o, x), State(l, R, o, "einval"))
  <2> DEFINE s == State(l, R, o, x)
  <2>1. s.locals = l /\ s.record = R /\ s.out = o /\ s.status = x
    BY DEF State
  <2>2. l[v] = P /\ P # Garbage
    BY PlaceIsSet
  <2> HIDE DEF s
  <2>3. ~Found(S, call, s)
    BY <1>2, <1>3, <2>1, <2>2 DEF Found
  <2>5. Did(S, call, s, State(l, R, o, "einval"))
    BY <1>2, <1>3, <2>1, <2>2, <2>3 DEF Did
  <2> QED
    BY <2>5 DEF s
<1>5. Gets(S, Y, R, M, <<call>>, a, a)
  BY <1>4, FailGets
<1> QED
  BY <1>5 DEF Size, call

LEMMA ZeroGets ==
    ASSUME NEW S, NEW Y, NEW R, NEW M, NEW v, NEW P, NEW c, Frees(M, v, P, c),
           NEW fs, NEW a, NEW b, Gets(S, Y, R, Where(M, c, 0), fs, a, b)
    PROVE  Gets(S, Y, R, M, Zero(c) \o fs, a, b)
<1> DEFINE call == [op |-> "zero", to |-> c]
<1>1. 0 \in Marks
  BY DEF Marks
<1>2. call.op = "zero" /\ call.to = c
  OBVIOUS
<1> HIDE DEF call
<1>4. ASSUME NEW l \in M, NEW o, NEW x
      PROVE  Did(S, call, State(l, R, o, x), State(Changed(l, c, 0), R, o, x))
  <2> DEFINE s == State(l, R, o, x)
             u == State(Changed(l, c, 0), R, o, x)
  <2>1. s.locals = l /\ s.record = R /\ s.out = o /\ s.status = x
    BY DEF State
  <2> HIDE DEF s
  <2>4. u = State(Assigned(s, call, 0), R, o, x)
    BY <1>2, <2>1 DEF Assigned, Changed
  <2> HIDE DEF u
  <2>5. Did(S, call, s, u)
    BY <1>2, <2>1, <2>4 DEF Did
  <2> QED
    BY <2>5 DEF s, u
<1>5. Goes(S, R, M, call, c, 0)
  BY <1>4 DEF Goes
<1>7. Gets(S, Y, R, M, <<call>> \o fs, a, b)
  BY <1>1, <1>5, GoesGets
<1> QED
  BY <1>7 DEF Zero, call

\* A getter, where a local refers to.
LEMMA GetGets ==
    ASSUME NEW S, NEW Y, NEW R, NEW M, NEW c, NEW Q \in Places, \A l \in M : l[c] = Q,
           SchemaAt(S, Q).type \in DOMAIN Getters, NEW get \in Getters[SchemaAt(S, Q).type],
           NEW a, NEW place
    PROVE  Gets(S, Y, R, M, <<[op |-> get, on |-> c, to |-> place]>>,
                a, Stored(a, place, Converted(get, place, At(R, Q))))
<1> DEFINE call == [op |-> get, on |-> c, to |-> place]
           b == Stored(a, place, Converted(get, place, At(R, Q)))
<1>1. call.op = get /\ call.on = c /\ call.to = place
  OBVIOUS
<1>2. Q # Garbage
  BY PlaceIsSet
<1>3. get \in Methods(SchemaAt(S, Q).type) /\ get \in UNION Range(Getters)
  BY DEF Methods, Range
<1>4. get # "get_by_name" /\ get # "get_by_index"
  BY <1>3, OpKinds
<1> HIDE DEF call, b
<1>5. ASSUME NEW l \in M, NEW x
      PROVE  Did(S, call, State(l, R, a, x), State(l, R, b, x))
  <2> DEFINE s == State(l, R, a, x)
  <2>1. s.locals = l /\ s.record = R /\ s.out = a /\ s.status = x /\ l[c] = Q
    BY DEF State
  <2> HIDE DEF s
  <2>2. Found(S, call, s)
    BY <1>1, <1>2, <1>3, <1>4, <2>1 DEF Found
  <2>3. b = Stored(s.out, call.to, Converted(call.op, call.to, At(s.record, s.locals[call.on])))
    BY <1>1, <2>1 DEF b
  <2>4. Did(S, call, s, State(l, R, b, x))
    BY <1>1, <1>3, <2>1, <2>2, <2>3 DEF Did
  <2> QED
    BY <2>4 DEF s
<1>6. Puts(S, R, M, call, a, b)
  BY <1>5 DEF Puts
<1>7. Gets(S, Y, R, M, <<call>>, a, b)
  BY <1>6, PutsGets
<1> QED
  BY <1>7 DEF call, b

\* The field f of the record at P, stored in g of what is at I.
LEMMA GetFieldGets ==
    ASSUME NEW S, NEW Y, NEW R, NEW M, NEW v, NEW P, NEW c, Frees(M, v, P, c),
           NEW w, w = At(R, P), NEW f \in Keys, f \in DOMAIN w,
           NEW T, T = SchemaAt(S, P), T.type = "record",
           NEW type, type = FieldSchema(T, f).type, type \in DOMAIN Getters,
           NEW get \in Getters[type],
           NEW O, NEW I, IsPlace(O, I), NEW e, e = [g \in DOMAIN e |-> e[g]],
           NEW g \in Keys, g \in DOMAIN e
    PROVE  Gets(S, Y, R, M, GetField(v, f, c, get, Append(I, g)), Stored(O, I, e),
                Stored(O, I, Changed(e, g, Converted(get, Append(I, g), w[f]))))
<1> DEFINE a == Stored(O, I, e)
           J == Append(I, g)
           Q == Append(P, f)
           y == Converted(get, J, w[f])
<1>1. P \in Places /\ Q \in Places
  BY Longer DEF Frees
<1>2. SchemaAt(S, Q).type = type /\ At(R, Q) = w[f]
  <2>1. SchemaAt(S, Q) = Inside(SchemaAt(S, P), f)
    BY <1>1, SchemaAtPlace
  <2>2. At(R, Q) = w[f]
    BY <1>1, AtPlace
  <2> QED
    BY <2>1, <2>2 DEF Inside
<1>3. Stored(a, J, y) = Stored(O, I, Changed(e, g, y))
  <2>1. IsPlace(a, I) /\ At(a, I) = e
    BY StaysPlace
  <2>2. PICK z : z = y
    OBVIOUS
  <2> HIDE DEF a, y
  <2>3. Stored(a, Append(I, g), z) = Stored(a, I, Changed(e, g, z))
    BY <2>1, PartIsPlace
  <2> QED
    BY <2>2, <2>3, StaysPlace DEF a
<1>4. \A l \in Where(M, c, Q) : l[c] = Q
  BY DEF Where
<1> HIDE DEF Q, J, a
<1>5. Gets(S, Y, R, Where(M, c, Q), <<[op |-> get, on |-> c, to |-> J]>>, a, Stored(a, J, y))
  BY <1>1, <1>2, <1>4, GetGets
<1>6. Gets(S, Y, R, M, ByName(v, f, c) \o <<[op |-> get, on |-> c, to |-> J]>>, a, Stored(a, J, y))
  BY <1>5, ByNameGets DEF Q
<1> QED
  BY <1>3, <1>6 DEF GetField, a, J

\* Getters of the types of the schemas.
LEMMA GettersOf ==
    /\ {"boolean", "int", "long", "enum", "bytes", "string"} \subseteq DOMAIN Getters
    /\ "get_boolean" \in Getters["boolean"] /\ "get_int" \in Getters["int"]
    /\ "get_long" \in Getters["long"] /\ "get_enum" \in Getters["enum"]
    /\ "get_bytes" \in Getters["bytes"] /\ "get_string" \in Getters["string"]
BY DEF Getters

LEMMA ConvertedIs ==
    \A p, x : /\ Converted("get_boolean", p, x) = x /\ Converted("get_int", p, x) = x
              /\ Converted("get_long", p, x) = x /\ Converted("get_bytes", p, x) = x
              /\ Converted("get_string", p, x) = x
BY DEF Converted

\* The name in the record at P, stored in the name of the struct at <<i>>.
LEMMA GetNameGets ==
    ASSUME NEW S, NEW Y, NEW R, NEW M, NEW v, NEW P, NEW u \in {"jobid_value", "vpid_value"},
           Frees(M, v, P, "name_value"), Frees(M, v, P, "jobid_value"), Frees(M, v, P, u),
           NEW w, w = At(R, P), "name" \in DOMAIN w,
           NEW m, m = w["name"], m = [g \in {"jobid", "vpid"} |-> m[g]],
           NEW T, T = SchemaAt(S, P), T.type = "record", FieldSchema(T, "name") = ProcessName,
           NEW O, NEW i, IsPlace(O, <<i>>), NEW e, e = [g \in DOMAIN e |-> e[g]],
           "proc_name" \in DOMAIN e, e["proc_name"] = process_name_t
    PROVE  Gets(S, Y, R, M, GetName(v, u, i), Stored(O, <<i>>, e),
                Stored(O, <<i>>, Changed(e, "proc_name", m)))
<1> DEFINE o == Stored(O, <<i>>, e)
           I == Append(<<i>>, "proc_name")
           Q == Append(P, "name")
           N == Where(M, "name_value", Q)
           e0 == process_name_t
           e1 == Changed(e0, "jobid", m["jobid"])
           e2 == Changed(e1, "vpid", m["vpid"])
<1>1. /\ P \in Places /\ <<i>> \in Places /\ {"name", "jobid", "vpid", "proc_name"} \subseteq Keys
  BY DEF Frees, IsPlace, Keys
<1>2. Q \in Places /\ SchemaAt(S, Q) = ProcessName /\ At(R, Q) = m
  <2>1. Q \in Places
    BY <1>1, Longer
  <2>2. SchemaAt(S, Q) = Inside(SchemaAt(S, P), "name")
    BY <1>1, SchemaAtPlace
  <2>3. At(R, Q) = At(R, P)["name"]
    <3>1. PICK k \in Keys : k = "name"
      BY <1>1
    <3>2. At(R, Append(P, k)) = At(R, P)[k]
      BY <1>1, AtPlace
    <3> QED
      BY <3>1, <3>2
  <2> QED
    BY <2>1, <2>2, <2>3 DEF Inside
<1>3. /\ IsPlace(o, I) /\ At(o, I) = e0
      /\ \A x : Stored(o, I, x) = Stored(O, <<i>>, Changed(e, "proc_name", x))
  <2>1. IsPlace(o, <<i>>) /\ At(o, <<i>>) = e
        /\ \A x : Stored(o, <<i>>, x) = Stored(O, <<i>>, x)
    BY StaysPlace
  <2>2. PICK k \in Keys : k = "proc_name"
    BY <1>1
  <2> HIDE DEF o
  <2>3. /\ IsPlace(o, Append(<<i>>, k)) /\ At(o, Append(<<i>>, k)) = e[k]
        /\ \A x : Stored(o, Append(<<i>>, k), x) = Stored(o, <<i>>, Changed(e, k, x))
    BY <2>1, <2>2, PartIsPlace
  <2> QED
    BY <2>1, <2>2, <2>3
<1>4. Stored(o, I, e0) = o
  BY <1>3 DEF IsPlace
<1>5. Frees(N, "name_value", Q, "jobid_value") /\ Frees(N, "name_value", Q, u)
  BY <1>2, FreesWhere
<1>6. /\ e0 = [g \in DOMAIN e0 |-> e0[g]] /\ DOMAIN e0 = {"jobid", "vpid"}
      /\ e1 = [g \in DOMAIN e1 |-> e1[g]] /\ DOMAIN e1 = {"jobid", "vpid"}
      /\ e2 = m
  <2>1. e0 = [g \in DOMAIN e0 |-> e0[g]] /\ DOMAIN e0 = {"jobid", "vpid"}
    BY DEF process_name_t
  <2> HIDE DEF e0
  <2>2. /\ e1 = [g \in DOMAIN e1 |-> e1[g]] /\ DOMAIN e1 = {"jobid", "vpid"}
        /\ e1["jobid"] = m["jobid"]
    BY <2>1, ChangedIs
  <2> HIDE DEF e1
  <2>3. /\ e2 = [g \in DOMAIN e2 |-> e2[g]] /\ DOMAIN e2 = {"jobid", "vpid"}
        /\ e2["jobid"] = m["jobid"] /\ e2["vpid"] = m["vpid"]
    BY <2>2, ChangedIs
  <2> HIDE DEF e2
  <2> QED
    BY <2>1, <2>2, <2>3
<1>7. AvroInt.type = "int" /\ "int" \in DOMAIN Getters /\ "get_int" \in Getters["int"]
  BY TypesOf, GettersOf
<1>8. DOMAIN m = {"jobid", "vpid"}
  OBVIOUS
<1> DEFINE ds == GetField("name_value", "jobid", "jobid_value", "get_int", Append(I, "jobid"))
           es == GetField("name_value", "vpid", u, "get_int", Append(I, "vpid"))
           cs == ByName(v, "name", "name_value")
<1> HIDE DEF o, I, Q, N, e0, e1, e2
<1>9. Gets(S, Y, R, N, ds, Stored(o, I, e0), Stored(o, I, e1))
  <2>1. Gets(S, Y, R, N, ds, Stored(o, I, e0),
             Stored(o, I, Changed(e0, "jobid", Converted("get_int", Append(I, "jobid"), m["jobid"]))))
    BY <1>1, <1>2, <1>3, <1>5, <1>6, <1>7, <1>8, NameFields, GetFieldGets
  <2> QED
    BY <2>1, ConvertedIs DEF e1
<1>10. Gets(S, Y, R, N, es, Stored(o, I, e1), Stored(o, I, e2))
  <2>1. Gets(S, Y, R, N, es, Stored(o, I, e1),
             Stored(o, I, Changed(e1, "vpid", Converted("get_int", Append(I, "vpid"), m["vpid"]))))
    BY <1>1, <1>2, <1>3, <1>5, <1>6, <1>7, <1>8, NameFields, GetFieldGets
  <2> QED
    BY <2>1, ConvertedIs DEF e2
<1>11. Gets(S, Y, R, N, ds \o es, o, Stored(o, I, e2))
  <2> HIDE DEF ds, es
  <2> QED
    BY <1>4, <1>9, <1>10, GetsBoth
<1>12. IsList(ds) /\ IsList(es) /\ IsList(cs)
  BY Lists DEF ByName, GetField
<1>13. GetName(v, u, i) = (cs \o ds) \o es
  <2>1. <<i, "proc_name", "jobid">> = Append(I, "jobid") /\ <<i, "proc_name", "vpid">> = Append(I, "vpid")
    BY DEF I
  <2> QED
    BY <2>1 DEF GetName
<1>14. (cs \o ds) \o es = cs \o (ds \o es)
  <2> HIDE DEF cs, ds, es
  <2>1. \A p, q, s : IsList(p) /\ IsList(q) /\ IsList(s) => (p \o q) \o s = p \o (q \o s)
    BY Lists
  <2> QED
    BY <1>12, <2>1
<1>15. Gets(S, Y, R, M, cs \o (ds \o es), o, Stored(o, I, e2))
  <2> HIDE DEF ds, es
  <2> QED
    BY <1>1, <1>11, ByNameGets DEF Q, N
<1> HIDE DEF cs, ds, es
<1> QED
  BY <1>3, <1>6, <1>13, <1>14, <1>15 DEF o

\* Round k of the loop takes what it finds to the result of k.
Fits(S, Y, R, M, loop, i, O, Q, n, element, res) ==
    \A k \in 1..n : \A vs :
      vs = [j \in 1..n |-> vs[j]] /\ vs[k] = element =>
        Gets(S, Y, R, M, Round(loop, i, k), Stored(O, Q, vs), Stored(O, Q, Changed(vs, k, res[k])))
\* The states with the record R, locals in M, a status in Y, and a stored.
Stage(Y, R, M, a) == {State(z[1], R, a, z[2]) : z \in M \X Y}

LEMMA GetsLeads ==
    ASSUME NEW S, NEW Y, NEW R, NEW M, NEW cs, NEW a, NEW b
    PROVE  Gets(S, Y, R, M, cs, a, b) <=> Leads(S, Stage(Y, R, M, a), cs, Stage(Y, R, M, b))
<1>1. \A o, s : s \in Stage(Y, R, M, o) <=> \E l \in M, x \in Y : s = State(l, R, o, x)
  <2> TAKE o, s
  <2>1. ASSUME s \in Stage(Y, R, M, o) PROVE \E l \in M, x \in Y : s = State(l, R, o, x)
    <3>1. PICK z \in M \X Y : s = State(z[1], R, o, z[2])
      BY <2>1 DEF Stage
    <3> QED
      BY <3>1
  <2>2. ASSUME NEW l \in M, NEW x \in Y, s = State(l, R, o, x) PROVE s \in Stage(Y, R, M, o)
    <3>1. <<l, x>> \in M \X Y /\ s = State(<<l, x>>[1], R, o, <<l, x>>[2])
      BY <2>2
    <3> QED
      BY <3>1 DEF Stage
  <2> QED
    BY <2>1, <2>2
<1> QED
  <2> DEFINE A == Stage(Y, R, M, a)
             B == Stage(Y, R, M, b)
  <2> HIDE DEF A, B
  <2>1. /\ \A s : s \in A <=> \E l \in M, x \in Y : s = State(l, R, a, x)
        /\ \A s : s \in B <=> \E l \in M, x \in Y : s = State(l, R, b, x)
    BY <1>1 DEF A, B
  <2>2. ASSUME Gets(S, Y, R, M, cs, a, b), NEW s \in A PROVE \E t \in B : Run(S, cs, s, t)
    <3>1. PICK l \in M, x \in Y : s = State(l, R, a, x)
      BY <2>1, <2>2
    <3>2. PICK y \in Y, k \in M : Run(S, cs, State(l, R, a, x), State(k, R, b, y))
      BY <2>2 DEF Gets
    <3> QED
      BY <2>1, <3>1, <3>2
  <2>3. ASSUME Leads(S, A, cs, B), NEW x \in Y, NEW l \in M
        PROVE  \E y \in Y, k \in M : Run(S, cs, State(l, R, a, x), State(k, R, b, y))
    <3>1. State(l, R, a, x) \in A
      BY <2>1
    <3>2. PICK t \in B : Run(S, cs, State(l, R, a, x), t)
      BY <2>3, <3>1 DEF Leads
    <3>3. PICK k \in M, y \in Y : t = State(k, R, b, y)
      BY <2>1
    <3> QED
      BY <3>2, <3>3
  <2>4. Gets(S, Y, R, M, cs, a, b) => Leads(S, A, cs, B)
    BY <2>2 DEF Leads
  <2>5. Leads(S, A, cs, B) => Gets(S, Y, R, M, cs, a, b)
    BY <2>3 DEF Gets
  <2> QED
    BY <2>4, <2>5 DEF A, B

AllRounds(loop, i, n) == FlattenSeq([k \in 1..n |-> Round(loop, i, k)])

Blank(n, element) == [k \in 1..n |-> element]

LEMMA FitsGets ==
    ASSUME NEW S, NEW Y, NEW R, NEW M, NEW loop, NEW i, NEW O, NEW Q, NEW n \in Nat,
           NEW element, NEW res, res = [k \in 1..n |-> res[k]],
           Fits(S, Y, R, M, loop, i, O, Q, n, element, res)
    PROVE  Gets(S, Y, R, M, AllRounds(loop, i, n), Stored(O, Q, Blank(n, element)), Stored(O, Q, res))
<1> DEFINE Part(k) == [j \in 1..n |-> IF j <= k THEN res[j] ELSE element]
           With(k) == Stage(Y, R, M, Stored(O, Q, Part(k)))
           X == [k \in 0..n |-> With(k)]
           rs == [k \in 1..n |-> Round(loop, i, k)]
<1>1. Part(0) = Blank(n, element) /\ Part(n) = res
  BY DEF Blank
<1>2. ASSUME NEW k \in 1..n PROVE Leads(S, X[k - 1], rs[k], X[k])
  <2>1. k - 1 \in 0..n /\ k \in 0..n
    OBVIOUS
  <2>2. PICK vs : vs = Part(k - 1)
    OBVIOUS
  <2>3. vs = [j \in 1..n |-> vs[j]] /\ vs[k] = element /\ Changed(vs, k, res[k]) = Part(k)
    <3>1. \A j \in 1..n : j <= k <=> (j <= k - 1 \/ j = k)
      OBVIOUS
    <3>2. vs = [j \in 1..n |-> vs[j]] /\ \A j \in 1..n : vs[j] = IF j <= k - 1 THEN res[j] ELSE element
      BY <2>2
    <3>3. Changed(vs, k, res[k]) = [j \in 1..n |-> IF j = k THEN res[k] ELSE vs[j]]
      BY <3>2 DEF Changed
    <3> QED
      BY <3>1, <3>2, <3>3
  <2>4. Gets(S, Y, R, M, rs[k], Stored(O, Q, vs), Stored(O, Q, Part(k)))
    BY <2>3 DEF Fits
  <2>5. X[k - 1] = With(k - 1) /\ X[k] = With(k)
    <3> HIDE DEF With
    <3> QED
      BY <2>1
  <2>6. Leads(S, With(k - 1), rs[k], With(k))
    BY <2>2, <2>4, GetsLeads
  <2> QED
    BY <2>5, <2>6
<1>3. X[0] = With(0) /\ X[n] = With(n)
  <2> HIDE DEF With
  <2> QED
    OBVIOUS
<1>4. rs = [k \in 1..n |-> rs[k]]
  OBVIOUS
<1> HIDE DEF X, rs, Part
<1>5. Leads(S, X[0], FlattenSeq(rs), X[n])
  BY <1>2, <1>4, LeadsRounds DEF RoundsLead
<1>6. Gets(S, Y, R, M, FlattenSeq(rs), Stored(O, Q, Part(0)), Stored(O, Q, Part(n)))
  BY <1>3, <1>5, GetsLeads
<1> QED
  BY <1>1, <1>6 DEF rs, AllRounds

\* An array of n elements, and the loop that fills it.
LEMMA FillGets ==
    ASSUME NEW S, NEW Y, NEW R, NEW M, NEW v, NEW n \in Nat, \A l \in M : l[v] = n,
           NEW O, NEW Q, NEW loop, NEW i,
           NEW element, NEW res, res = [k \in 1..n |-> res[k]],
           Fits(S, Y, R, M, loop, i, O, Q, n, element, res)
    PROVE  Gets(S, Y, R, M, Malloc(v, Q, element) \o For(v, loop, i), O, Stored(O, Q, res))
<1> DEFINE call == [op |-> "xmalloc", on |-> v, to |-> Q, element |-> element]
           loops == [op |-> "for", on |-> v, loop |-> loop, element |-> i]
           a == Stored(O, Q, Blank(n, element))
           b == Stored(O, Q, res)
           rs == AllRounds(loop, i, n)
<1>1. /\ call.op = "xmalloc" /\ call.on = v /\ call.to = Q /\ call.element = element
      /\ loops.op = "for" /\ loops.on = v /\ loops.loop = loop /\ loops.element = i
  OBVIOUS
<1>2. n # Garbage
  BY GarbageAssumption
<1>3. Gets(S, Y, R, M, rs, a, b)
  BY FitsGets
<1> HIDE DEF call, loops, rs, b
<1>4. ASSUME NEW l \in M, NEW x
      PROVE  Did(S, call, State(l, R, O, x), State(l, R, a, x))
  <2> DEFINE s == State(l, R, O, x)
  <2>1. s.locals = l /\ s.record = R /\ s.out = O /\ s.status = x /\ l[v] = n
    BY DEF State
  <2> HIDE DEF s
  <2>2. a = Stored(s.out, call.to, [k \in 1..s.locals[call.on] |-> call.element])
    BY <1>1, <2>1 DEF Blank
  <2> HIDE DEF a
  <2>3. Did(S, call, s, State(l, R, a, x))
    BY <1>1, <1>2, <2>1, <2>2 DEF Did
  <2> QED
    BY <2>3 DEF s
<1> HIDE DEF a
<1>5. Gets(S, Y, R, M, <<call>>, O, a)
  BY <1>4, PutsGets DEF Puts
<1>6. ASSUME NEW x \in Y, NEW l \in M
      PROVE  \E y \in Y, k \in M : Run(S, <<loops>>, State(l, R, a, x), State(k, R, b, y))
  <2>1. PICK s : s = State(l, R, a, x)
    OBVIOUS
  <2>2. s.locals[loops.on] = n
    BY <1>1, <2>1 DEF State
  <2>3. RoundsOf(loops, s) = rs
    BY <1>1, <2>2 DEF RoundsOf, AllRounds, rs
  <2>4. PICK y \in Y, k \in M : Run(S, rs, s, State(k, R, b, y))
    BY <1>3, <2>1 DEF Gets
  <2>5. Run(S, <<loops>>, s, State(k, R, b, y))
    BY <1>1, <1>2, <2>2, <2>3, <2>4, RunLoop
  <2> QED
    BY <2>1, <2>5
<1>7. Gets(S, Y, R, M, <<loops>>, a, b)
  BY <1>6 DEF Gets
<1>8. Gets(S, Y, R, M, <<call>> \o <<loops>>, O, b)
  BY <1>5, <1>7, GetsBoth
<1> QED
  BY <1>8 DEF Malloc, For, call, loops, b

\* Lists of calls one after the other, from the left and from the right.
Chained(a, b, c, d) == ((a \o b) \o c) \o d
Nested(a, b, c, d) == a \o (b \o (c \o d))

LEMMA ListsOf ==
    ASSUME NEW a, NEW b, NEW c, NEW d, IsList(a), IsList(b), IsList(c), IsList(d)
    PROVE  Chained(a, b, c, d) = Nested(a, b, c, d)
<1>1. \A p, q, s : IsList(p) /\ IsList(q) /\ IsList(s) => (p \o q) \o s = p \o (q \o s)
  BY Lists
<1>2. PICK x, y : x = a \o b /\ y = b \o c
  OBVIOUS
<1>3. IsList(x) /\ IsList(y)
  <2>1. \A p, q : IsList(p) /\ IsList(q) => IsList(p \o q)
    BY Lists
  <2> QED
    BY <1>2, <2>1
<1>4. (a \o b) \o c = a \o (b \o c)
  BY <1>1
<1>5. (b \o c) \o d = b \o (c \o d)
  BY <1>1
<1>6. (a \o y) \o d = a \o (y \o d)
  BY <1>1, <1>3
<1>7. ((a \o b) \o c) \o d = (a \o y) \o d
  BY <1>2, <1>4, Zenon
<1>8. a \o (y \o d) = a \o (b \o (c \o d))
  BY <1>2, <1>5, Zenon
<1> QED
  BY <1>4, <1>6, <1>7, <1>8, Zenon DEF Chained, Nested

\* One key deeper.
LEMMA Deeper ==
    /\ \A P \in Places, k \in Keys :
         /\ Append(P, k) \in Places
         /\ \A S : SchemaAt(S, Append(P, k)) = Inside(SchemaAt(S, P), k)
         /\ \A R : At(R, Append(P, k)) = At(R, P)[k]
    /\ \A f \in Keys : /\ <<f>> \in Places /\ Append(<<>>, f) = <<f>>
                       /\ \A S : SchemaAt(S, <<f>>) = Inside(S, f)
                       /\ \A R : At(R, <<f>>) = R[f]
    /\ <<>> \in Places /\ \A S : SchemaAt(S, <<>>) = S /\ At(S, <<>>) = S
<1>1. ASSUME NEW P \in Places, NEW k \in Keys
      PROVE  /\ Append(P, k) \in Places
             /\ \A S : SchemaAt(S, Append(P, k)) = Inside(SchemaAt(S, P), k)
             /\ \A R : At(R, Append(P, k)) = At(R, P)[k]
  BY Longer, SchemaAtPlace, AtPlace
<1>2. <<>> \in Places /\ 0 \in Keys
  BY DEF Places, Keys
<1>3. \A S : SchemaAt(S, <<>>) = S /\ At(S, <<>>) = S
  BY <1>2, SchemaAtPlace, AtPlace
<1>4. \A f \in Keys : <<f>> \in Places /\ Append(<<>>, f) = <<f>>
  BY DEF Places
<1>5. ASSUME NEW f \in Keys
      PROVE  (\A S : SchemaAt(S, <<f>>) = Inside(S, f)) /\ \A R : At(R, <<f>>) = R[f]
  <2>1. PICK P : P = <<>>
    OBVIOUS
  <2>2. Append(P, f) = <<f>>
    BY <1>4, <2>1
  <2>3. /\ \A S : SchemaAt(S, Append(P, f)) = Inside(SchemaAt(S, P), f)
        /\ \A R : At(R, Append(P, f)) = At(R, P)[f]
    BY <1>1, <1>2, <2>1
  <2>4. \A S : SchemaAt(S, P) = S /\ At(S, P) = S
    BY <1>3, <2>1
  <2> HIDE <2>1
  <2> QED
    BY <2>2, <2>3, <2>4
<1> QED
  BY <1>1, <1>2, <1>3, <1>4, <1>5

LEMMA PairIs ==
    ASSUME NEW f, NEW k
    PROVE  Append(<<f>>, k) = <<f, k>>
<1>1. Append(<<f>>, k) = [i \in 1..2 |-> IF i = 2 THEN k ELSE f]
  OBVIOUS
<1>2. <<f, k>> = [i \in 1..2 |-> IF i = 2 THEN k ELSE f]
  OBVIOUS
<1> QED
  BY <1>1, <1>2

LEMMA CountOf == \A n \in Nat : Cardinality(1..n) = n
BY FS_Interval

\* An element of an array is a place in it.
LEMMA ItemIsPlace ==
    ASSUME NEW n \in Nat, NEW k \in 1..n, NEW vs, vs = [j \in 1..n |-> vs[j]]
    PROVE  /\ IsPlace(vs, <<k>>) /\ Stored(vs, <<k>>, vs[k]) = vs
           /\ \A x : Stored(vs, <<k>>, x) = Changed(vs, k, x)
<1>1. k \in Keys
  BY DEF Keys
<1>2. Append(<<>>, k) = <<k>>
  BY <1>1, Deeper
<1>3. PICK E : E = <<>>
  OBVIOUS
<1>4. IsPlace(vs, E) /\ vs = At(vs, E) /\ \A y : Stored(vs, E, y) = y
  BY <1>3, WholeIsPlace
<1>5. DOMAIN vs = 1..n
  OBVIOUS
<1>6. vs = [j \in DOMAIN vs |-> vs[j]] /\ k \in DOMAIN vs
  BY <1>5
<1>7. /\ IsPlace(vs, Append(E, k)) /\ At(vs, Append(E, k)) = vs[k]
      /\ \A x : Stored(vs, Append(E, k), x) = Stored(vs, E, Changed(vs, k, x))
  BY <1>1, <1>4, <1>6, PartIsPlace
<1>8. IsPlace(vs, <<k>>) /\ At(vs, <<k>>) = vs[k]
  BY <1>2, <1>3, <1>7
<1>9. \A x : Stored(vs, <<k>>, x) = Changed(vs, k, x)
  BY <1>2, <1>3, <1>4, <1>7
<1>10. Stored(vs, <<k>>, vs[k]) = vs
  BY <1>8 DEF IsPlace
<1> QED
  BY <1>8, <1>9, <1>10

\* What the calls after each item store in its struct.
Parses(S, Y, R, B, array, item, f, I, ws, body, element, res) ==
    \A k \in 1..Len(ws) : \A P, O :
      P = <<f, k>> /\ At(R, P) = ws[k] /\ SchemaAt(S, P) = I /\ IsPlace(O, <<k>>)
        /\ Ready(Where(B, item, P), item, P, Locals \ {"record", "array_size", array, item})
      => Gets(S, Y, R, Where(B, item, P), body[k],
              Stored(O, <<k>>, element), Stored(O, <<k>>, res[k]))

\* The locals of a parser that has allocated its array.
Sized(f, array, n) == Where(Where(Fresh, array, <<f>>), "array_size", n)

LEMMA SizedFrees ==
    ASSUME NEW f \in Keys, NEW array \in Locals \ {"record", "array_size"}, NEW n \in Nat
    PROVE  /\ Frees(Fresh, "record", <<>>, array)
           /\ Frees(Where(Fresh, array, <<f>>), array, <<f>>, "array_size")
           /\ \A l \in Sized(f, array, n) : l["array_size"] = n
           /\ \A item \in Locals \ {"record", "array_size", array} :
                /\ Frees(Sized(f, array, n), array, <<f>>, item)
                /\ \A P \in Places : Ready(Where(Sized(f, array, n), item, P), item, P,
                                           Locals \ {"record", "array_size", array, item})
<1> DEFINE A == Where(Fresh, array, <<f>>)
           B == Sized(f, array, n)
<1>1. <<f>> \in Places /\ n \in Marks /\ "array_size" \in Locals \ {"record", array}
  BY DEF Places, Marks, Locals
<1>2. \A c \in Locals \ {"record", array} : Frees(A, array, <<f>>, c)
  BY <1>1, FreshFrees, FreesWhere
<1>3. B = Where(A, "array_size", n)
  BY DEF Sized
<1> HIDE DEF A, B
<1>4. \A c \in Locals \ {"record", "array_size", array} : Frees(B, array, <<f>>, c)
  BY <1>1, <1>2, <1>3, FreesMark
<1>5. ASSUME NEW item \in Locals \ {"record", "array_size", array}, NEW P \in Places
      PROVE  Ready(Where(B, item, P), item, P, Locals \ {"record", "array_size", array, item})
  <2>1. \A c \in Locals \ {"record", "array_size", array, item} : Frees(Where(B, item, P), item, P, c)
    BY <1>4, FreesWhere
  <2> QED
    BY <2>1 DEF Ready
<1>6. \A l \in B : l["array_size"] = n
  BY <1>3 DEF Where
<1> QED
  BY <1>1, <1>2, <1>4, <1>5, <1>6, FreshFrees DEF A, B

\* A message of one array.
LEMMA ParseArrayGets ==
    ASSUME NEW S, NEW Y, NEW R, NEW f \in Keys, NEW I, S = ArrayMessage(f, I),
           NEW array \in Locals \ {"record", "array_size"},
           NEW item \in Locals \ {"record", "array_size", array},
           NEW C, NEW ws \in Seq(C), f \in DOMAIN R, R[f] = ws, NEW element,
           NEW body, \A k \in 1..Len(ws) : Round(f, 0, k) = ByIndex(array, k, item) \o body[k],
           NEW res, res = [k \in 1..Len(ws) |-> res[k]],
           Parses(S, Y, R, Sized(f, array, Len(ws)), array, item, f, I, ws, body, element, res),
           NEW a
    PROVE  Gets(S, Y, R, Fresh, ParseArray(f, array, element), a, res)
<1> DEFINE n == Len(ws)
           Q == <<f>>
           A == Where(Fresh, array, Q)
           B == Sized(f, array, n)
<1>1. <<>> \in Places /\ Q \in Places /\ Append(<<>>, f) = Q /\ n \in Nat
  BY DEF Places
<1>2. S.type = "record" /\ FieldSchema(S, f) = AvroArray(I)
  BY ArrayMessageFields
<1>3. SchemaAt(S, <<>>) = S /\ SchemaAt(S, Q) = AvroArray(I)
  BY <1>2, Deeper DEF Inside
<1>4. SchemaAt(S, Q).type = "array" /\ SchemaAt(S, Q).items = I
  BY <1>3, TypesOf
<1>5. At(R, <<>>) = R /\ At(R, Q) = ws
  BY Deeper
<1>6. DOMAIN ws = 1..n /\ Cardinality(DOMAIN ws) = n
  <2>1. Cardinality(1..n) = n
    BY <1>1, CountOf
  <2> QED
    BY <2>1
<1>7. /\ Frees(Fresh, "record", <<>>, array) /\ Frees(A, array, Q, "array_size")
      /\ \A l \in B : l["array_size"] = n
      /\ Frees(B, array, Q, item)
      /\ \A P \in Places : Ready(Where(B, item, P), item, P,
                                 Locals \ {"record", "array_size", array, item})
  BY <1>1, SizedFrees
<1>8. B = Where(A, "array_size", n)
  BY DEF Sized
<1> HIDE DEF n, Q, A, B
<1>9. ASSUME NEW k \in 1..n, NEW vs, vs = [j \in 1..n |-> vs[j]], vs[k] = element
      PROVE  Gets(S, Y, R, B, Round(f, 0, k), Stored(a, <<>>, vs),
                  Stored(a, <<>>, Changed(vs, k, res[k])))
  <2> DEFINE P == Append(Q, k)
  <2>1. k \in Keys /\ P \in Places /\ P = <<f, k>> /\ <<k>> = Append(<<>>, k)
    <3>1. k \in Keys
      BY <1>1 DEF Keys
    <3>2. P \in Places /\ <<k>> = Append(<<>>, k)
      BY <1>1, <3>1, Deeper
    <3>3. P = <<f, k>>
      BY PairIs, Zenon DEF Q
    <3> QED
      BY <3>1, <3>2, <3>3
  <2>2. SchemaAt(S, P) = I /\ At(R, P) = ws[k]
    <3>1. SchemaAt(S, P) = Inside(SchemaAt(S, Q), k) /\ At(R, P) = At(R, Q)[k]
      BY <1>1, <2>1, Deeper
    <3> QED
      BY <1>4, <1>5, <3>1 DEF Inside
  <2>3. /\ IsPlace(vs, <<k>>) /\ Stored(vs, <<k>>, element) = vs
        /\ \A x : Stored(vs, <<k>>, x) = Changed(vs, k, x)
    BY <1>1, <1>9, ItemIsPlace
  <2>4. Ready(Where(B, item, P), item, P, Locals \ {"record", "array_size", array, item})
    BY <1>7, <2>1
  <2> HIDE DEF P
  <2>5. Gets(S, Y, R, Where(B, item, P), body[k], vs, Changed(vs, k, res[k]))
    <3>1. Gets(S, Y, R, Where(B, item, P), body[k], Stored(vs, <<k>>, element), Stored(vs, <<k>>, res[k]))
      BY <2>1, <2>2, <2>3, <2>4 DEF Parses, n, B
    <3> QED
      BY <2>3, <3>1
  <2>6. Gets(S, Y, R, B, ByIndex(array, k, item) \o body[k], vs, Changed(vs, k, res[k]))
    BY <1>4, <1>5, <1>6, <1>7, <2>1, <2>5, ByIndexGets DEF P
  <2>7. Round(f, 0, k) = ByIndex(array, k, item) \o body[k]
    BY DEF n
  <2> QED
    BY <2>6, <2>7, StoredWhole
<1>10. Fits(S, Y, R, B, f, 0, a, <<>>, n, element, res)
  BY <1>9 DEF Fits
<1> DEFINE ds == Malloc("array_size", <<>>, element)
           es == For("array_size", f, 0)
           bs == Size(array, "array_size")
           cs == ByName("record", f, array)
<1>11. Gets(S, Y, R, B, ds \o es, a, res)
  <2>1. res = [k \in 1..n |-> res[k]]
    BY DEF n
  <2>2. Gets(S, Y, R, B, ds \o es, a, Stored(a, <<>>, res))
    BY <1>1, <1>7, <1>10, <2>1, FillGets
  <2> QED
    BY <2>2, StoredWhole
<1>12. IsList(bs) /\ IsList(cs) /\ IsList(ds) /\ IsList(es)
  BY Lists DEF ByName, Size, Malloc, For
<1>13. ParseArray(f, array, element) = ((cs \o bs) \o ds) \o es
  BY DEF ParseArray
<1> HIDE DEF ds, es, cs
<1>14. Gets(S, Y, R, A, bs \o (ds \o es), a, res)
  BY <1>1, <1>4, <1>5, <1>6, <1>7, <1>8, <1>11, SizeGets
<1> HIDE DEF bs
<1>15. SchemaAt(S, <<>>).type = "record" /\ f \in DOMAIN At(R, <<>>)
  BY <1>2, <1>3, <1>5
<1>16. Gets(S, Y, R, Fresh, cs \o (bs \o (ds \o es)), a, res)
  BY <1>1, <1>7, <1>14, <1>15, ByNameGets DEF A, cs
<1>17. ((cs \o bs) \o ds) \o es = cs \o (bs \o (ds \o es))
  <2>1. Chained(cs, bs, ds, es) = Nested(cs, bs, ds, es)
    BY <1>12, ListsOf
  <2> QED
    BY <2>1 DEF Chained, Nested
<1> QED
  BY <1>13, <1>16, <1>17

\* The structs, as they are filled in.
LEMMA StructsAre ==
    /\ process_name_t = [g \in DOMAIN process_name_t |-> process_name_t[g]]
    /\ node_resource_t = [g \in DOMAIN node_resource_t |-> node_resource_t[g]]
    /\ DOMAIN node_resource_t = {"host_name", "slot_num"}
    /\ launch_response_t = [g \in DOMAIN launch_response_t |-> launch_response_t[g]]
    /\ DOMAIN launch_response_t = {"is_successful", "proc_name"}
    /\ launch_response_t["proc_name"] = process_name_t
    /\ completed_proc_t = [g \in DOMAIN completed_proc_t |-> completed_proc_t[g]]
    /\ DOMAIN completed_proc_t = {"proc_name", "proc_state", "exit_value"}
    /\ completed_proc_t["proc_name"] = process_name_t
    /\ launch_context_t = [g \in DOMAIN launch_context_t |-> launch_context_t[g]]
    /\ DOMAIN launch_context_t = {"en_vars", "args", "host_name", "proc_name"}
    /\ launch_context_t["proc_name"] = process_name_t
BY DEF process_name_t, node_resource_t, launch_response_t, completed_proc_t, launch_context_t

LEMMA ItemSchemas ==
    /\ NodeResource.type = "record"
    /\ FieldSchema(NodeResource, "host_name") = AvroString
    /\ FieldSchema(NodeResource, "slot") = AvroInt
    /\ LaunchResult.type = "record"
    /\ FieldSchema(LaunchResult, "is_successful") = AvroBoolean
    /\ FieldSchema(LaunchResult, "name") = ProcessName
    /\ ProcessStatus.type = "record"
    /\ FieldSchema(ProcessStatus, "name") = ProcessName
    /\ FieldSchema(ProcessStatus, "state") = AvroEnum(ProcessStateSymbols)
    /\ FieldSchema(ProcessStatus, "exit_value") = AvroInt
<1>1. /\ NodeResource.type = "record"
      /\ FieldSchema(NodeResource, "host_name") = AvroString
      /\ FieldSchema(NodeResource, "slot") = AvroInt
      /\ New(NodeResource) = [x \in {"host_name", "slot"} |-> New_1(FieldSchema(NodeResource, x))]
  BY TwoFieldRecord DEF NodeResource
<1>2. /\ LaunchResult.type = "record"
      /\ FieldSchema(LaunchResult, "is_successful") = AvroBoolean
      /\ FieldSchema(LaunchResult, "name") = ProcessName
      /\ New(LaunchResult) = [x \in {"is_successful", "name"} |-> New_1(FieldSchema(LaunchResult, x))]
  BY TwoFieldRecord DEF LaunchResult
<1>3. /\ ProcessStatus.type = "record"
      /\ FieldSchema(ProcessStatus, "name") = ProcessName
      /\ FieldSchema(ProcessStatus, "state") = AvroEnum(ProcessStateSymbols)
      /\ FieldSchema(ProcessStatus, "exit_value") = AvroInt
      /\ New(ProcessStatus) = [x \in {"name", "state", "exit_value"} |->
                                 New_1(FieldSchema(ProcessStatus, x))]
  BY ThreeFieldRecord DEF ProcessStatus
<1> QED
  BY <1>1, <1>2, <1>3

\* The field f of the record at P, stored in the field g of the struct at <<i>>.
LEMMA GetPartGets ==
    ASSUME NEW S, NEW Y, NEW R, NEW M, NEW v, NEW P, NEW c, Frees(M, v, P, c),
           NEW w, w = At(R, P), NEW f \in Keys, f \in DOMAIN w,
           NEW T, T = SchemaAt(S, P), T.type = "record",
           NEW type, type = FieldSchema(T, f).type, type \in DOMAIN Getters,
           NEW get \in Getters[type],
           NEW O, NEW i, IsPlace(O, <<i>>), NEW e, e = [g \in DOMAIN e |-> e[g]],
           NEW g \in Keys, g \in DOMAIN e, NEW y, y = Converted(get, <<i, g>>, w[f])
    PROVE  Gets(S, Y, R, M, GetField(v, f, c, get, <<i, g>>), Stored(O, <<i>>, e),
                Stored(O, <<i>>, Changed(e, g, y)))
<1>1. PICK I, J : I = <<i>> /\ J = Append(I, g)
  OBVIOUS
<1>2. J = <<i, g>>
  BY <1>1, PairIs
<1>3. IsPlace(O, I)
  BY <1>1
<1>4. Gets(S, Y, R, M, GetField(v, f, c, get, Append(I, g)), Stored(O, I, e),
           Stored(O, I, Changed(e, g, Converted(get, Append(I, g), w[f]))))
  BY <1>3, GetFieldGets
<1>5. Gets(S, Y, R, M, GetField(v, f, c, get, J), Stored(O, I, e),
           Stored(O, I, Changed(e, g, Converted(get, J, w[f]))))
  BY <1>1, <1>4
<1> QED
  BY <1>1, <1>2, <1>5

LEMMA NodeGets ==
    ASSUME NEW S, NEW Y, NEW R, NEW M, NEW P,
           Ready(M, "NodeResource_value", P, {"host_name_value", "slot_value"}),
           NEW w \in Nodes, At(R, P) = w, SchemaAt(S, P) = NodeResource,
           NEW O, NEW i, IsPlace(O, <<i>>)
    PROVE  Gets(S, Y, R, M,
             GetField("NodeResource_value", "host_name", "host_name_value", "get_string",
                      <<i, "host_name">>)
             \o GetField("NodeResource_value", "slot", "slot_value", "get_int", <<i, "slot_num">>),
             Stored(O, <<i>>, node_resource_t),
             Stored(O, <<i>>, [host_name |-> w.host_name, slot_num |-> w.slot]))
<1> DEFINE e0 == node_resource_t
           e1 == Changed(e0, "host_name", w["host_name"])
           e2 == Changed(e1, "slot_num", w["slot"])
<1>1. /\ NodeResource.type = "record"
      /\ FieldSchema(NodeResource, "host_name") = AvroString
      /\ FieldSchema(NodeResource, "slot") = AvroInt
  BY ItemSchemas
<1>2. e0 = [g \in DOMAIN e0 |-> e0[g]] /\ DOMAIN e0 = {"host_name", "slot_num"}
  BY StructsAre
<1> HIDE DEF e0
<1>3. /\ e1 = [g \in DOMAIN e1 |-> e1[g]] /\ DOMAIN e1 = {"host_name", "slot_num"}
      /\ e1["host_name"] = w["host_name"]
  BY <1>2, ChangedIs
<1> HIDE DEF e1
<1>4. e2 = [host_name |-> w.host_name, slot_num |-> w.slot]
  <2>1. /\ e2 = [g \in DOMAIN e2 |-> e2[g]] /\ DOMAIN e2 = {"host_name", "slot_num"}
        /\ e2["host_name"] = w["host_name"] /\ e2["slot_num"] = w["slot"]
    BY <1>3, ChangedIs
  <2> HIDE DEF e2
  <2> QED
    BY <2>1
<1> HIDE DEF e2
<1>5. Frees(M, "NodeResource_value", P, "host_name_value") /\ Frees(M, "NodeResource_value", P, "slot_value")
  BY DEF Ready
<1>6. "host_name" \in Keys /\ "slot" \in Keys /\ "slot_num" \in Keys
  BY DEF Keys
<1>7. "host_name" \in DOMAIN w /\ "slot" \in DOMAIN w
  BY DEF Nodes
<1>8. Gets(S, Y, R, M, GetField("NodeResource_value", "host_name", "host_name_value", "get_string",
                               <<i, "host_name">>), Stored(O, <<i>>, e0), Stored(O, <<i>>, e1))
  BY <1>1, <1>2, <1>5, <1>6, <1>7, TypesOf, GettersOf, ConvertedIs, GetPartGets DEF e1
<1>9. Gets(S, Y, R, M, GetField("NodeResource_value", "slot", "slot_value", "get_int",
                               <<i, "slot_num">>), Stored(O, <<i>>, e1), Stored(O, <<i>>, e2))
  BY <1>1, <1>3, <1>5, <1>6, <1>7, TypesOf, GettersOf, ConvertedIs, GetPartGets DEF e2
<1> QED
  BY <1>4, <1>8, <1>9, GetsBoth DEF e0
LEMMA ResultGets ==
    ASSUME NEW S, NEW Y, NEW R, NEW M, NEW P,
           Ready(M, "LaunchResult_value", P,
                 {"is_successful_value", "name_value", "jobid_value", "vpid_value"}),
           NEW w \in Results, At(R, P) = w, SchemaAt(S, P) = LaunchResult,
           NEW O, NEW i, IsPlace(O, <<i>>)
    PROVE  Gets(S, Y, R, M,
             GetField("LaunchResult_value", "is_successful", "is_successful_value", "get_boolean",
                      <<i, "is_successful">>)
             \o GetName("LaunchResult_value", "vpid_value", i),
             Stored(O, <<i>>, launch_response_t),
             Stored(O, <<i>>, [is_successful |-> w.is_successful, proc_name |-> w.name]))
<1> DEFINE e0 == launch_response_t
           e1 == Changed(e0, "is_successful", w["is_successful"])
           e2 == Changed(e1, "proc_name", w["name"])
<1>1. /\ LaunchResult.type = "record"
      /\ FieldSchema(LaunchResult, "is_successful") = AvroBoolean
      /\ FieldSchema(LaunchResult, "name") = ProcessName
  BY ItemSchemas
<1>2. /\ e0 = [g \in DOMAIN e0 |-> e0[g]] /\ DOMAIN e0 = {"is_successful", "proc_name"}
      /\ e0["proc_name"] = process_name_t
  BY StructsAre
<1> HIDE DEF e0
<1>3. /\ e1 = [g \in DOMAIN e1 |-> e1[g]] /\ DOMAIN e1 = {"is_successful", "proc_name"}
      /\ e1["is_successful"] = w["is_successful"] /\ e1["proc_name"] = process_name_t
  BY <1>2, ChangedIs
<1> HIDE DEF e1
<1>4. e2 = [is_successful |-> w.is_successful, proc_name |-> w.name]
  <2>1. /\ e2 = [g \in DOMAIN e2 |-> e2[g]] /\ DOMAIN e2 = {"is_successful", "proc_name"}
        /\ e2["is_successful"] = w["is_successful"] /\ e2["proc_name"] = w["name"]
    BY <1>3, ChangedIs
  <2> HIDE DEF e2
  <2> QED
    BY <2>1
<1> HIDE DEF e2
<1>5. /\ Frees(M, "LaunchResult_value", P, "is_successful_value")
      /\ Frees(M, "LaunchResult_value", P, "name_value")
      /\ Frees(M, "LaunchResult_value", P, "jobid_value")
      /\ Frees(M, "LaunchResult_value", P, "vpid_value")
  BY DEF Ready
<1>6. "is_successful" \in Keys
  BY DEF Keys
<1>7. "is_successful" \in DOMAIN w /\ "name" \in DOMAIN w
  BY DEF Results
<1>8. Gets(S, Y, R, M, GetField("LaunchResult_value", "is_successful", "is_successful_value",
                               "get_boolean", <<i, "is_successful">>),
           Stored(O, <<i>>, e0), Stored(O, <<i>>, e1))
  BY <1>1, <1>2, <1>5, <1>6, <1>7, TypesOf, GettersOf, ConvertedIs, GetPartGets DEF e1
<1>9. Gets(S, Y, R, M, GetName("LaunchResult_value", "vpid_value", i),
           Stored(O, <<i>>, e1), Stored(O, <<i>>, e2))
  <2>1. PICK m : m = w["name"]
    OBVIOUS
  <2>2. m = [g \in {"jobid", "vpid"} |-> m[g]]
    BY <2>1 DEF Results, ProcessNames
  <2> QED
    BY <1>1, <1>3, <1>5, <1>7, <2>1, <2>2, GetNameGets DEF e2
<1> QED
  BY <1>4, <1>8, <1>9, GetsBoth DEF e0

LEMMA StatusGets ==
    ASSUME NEW S, NEW Y, NEW R, NEW M, NEW P,
           Ready(M, "ProcessStatus_value", P,
                 {"name_value", "jobid_value", "vpid_value", "state_value", "exit_value_value"}),
           NEW w \in Statuses, At(R, P) = w, SchemaAt(S, P) = ProcessStatus,
           NEW O, NEW i, IsPlace(O, <<i>>)
    PROVE  Gets(S, Y, R, M,
             GetName("ProcessStatus_value", "vpid_value", i)
             \o (GetField("ProcessStatus_value", "state", "state_value", "get_enum",
                          <<i, "proc_state">>)
                 \o GetField("ProcessStatus_value", "exit_value", "exit_value_value", "get_int",
                             <<i, "exit_value">>)),
             Stored(O, <<i>>, completed_proc_t),
             Stored(O, <<i>>, [proc_name |-> w.name,
                               proc_state |-> NameOf(process_state_enum_t, w.state),
                               exit_value |-> w.exit_value]))
<1> DEFINE state == NameOf(process_state_enum_t, w["state"])
           e0 == completed_proc_t
           e1 == Changed(e0, "proc_name", w["name"])
           e2 == Changed(e1, "proc_state", state)
           e3 == Changed(e2, "exit_value", w["exit_value"])
<1>1. /\ ProcessStatus.type = "record"
      /\ FieldSchema(ProcessStatus, "name") = ProcessName
      /\ FieldSchema(ProcessStatus, "state") = AvroEnum(ProcessStateSymbols)
      /\ FieldSchema(ProcessStatus, "exit_value") = AvroInt
  BY ItemSchemas
<1>2. /\ e0 = [g \in DOMAIN e0 |-> e0[g]] /\ DOMAIN e0 = {"proc_name", "proc_state", "exit_value"}
      /\ e0["proc_name"] = process_name_t
  BY StructsAre
<1> HIDE DEF e0, state
<1>3. /\ e1 = [g \in DOMAIN e1 |-> e1[g]] /\ DOMAIN e1 = {"proc_name", "proc_state", "exit_value"}
      /\ e1["proc_name"] = w["name"]
  BY <1>2, ChangedIs
<1> HIDE DEF e1
<1>4. /\ e2 = [g \in DOMAIN e2 |-> e2[g]] /\ DOMAIN e2 = {"proc_name", "proc_state", "exit_value"}
      /\ e2["proc_name"] = w["name"] /\ e2["proc_state"] = state
  BY <1>3, ChangedIs
<1> HIDE DEF e2
<1>5. e3 = [proc_name |-> w.name, proc_state |-> state, exit_value |-> w.exit_value]
  <2>1. /\ e3 = [g \in DOMAIN e3 |-> e3[g]] /\ DOMAIN e3 = {"proc_name", "proc_state", "exit_value"}
        /\ e3["proc_name"] = w["name"] /\ e3["proc_state"] = state
        /\ e3["exit_value"] = w["exit_value"]
    BY <1>4, ChangedIs
  <2> HIDE DEF e3
  <2> QED
    BY <2>1
<1> HIDE DEF e3
<1>6. /\ Frees(M, "ProcessStatus_value", P, "name_value")
      /\ Frees(M, "ProcessStatus_value", P, "jobid_value")
      /\ Frees(M, "ProcessStatus_value", P, "vpid_value")
      /\ Frees(M, "ProcessStatus_value", P, "state_value")
      /\ Frees(M, "ProcessStatus_value", P, "exit_value_value")
  BY DEF Ready
<1>7. {"state", "proc_state", "exit_value"} \subseteq Keys
  BY DEF Keys
<1>8. "name" \in DOMAIN w /\ "state" \in DOMAIN w /\ "exit_value" \in DOMAIN w
  BY DEF Statuses
<1>9. Gets(S, Y, R, M, GetName("ProcessStatus_value", "vpid_value", i),
           Stored(O, <<i>>, e0), Stored(O, <<i>>, e1))
  <2>1. PICK m : m = w["name"]
    OBVIOUS
  <2>2. m = [g \in {"jobid", "vpid"} |-> m[g]]
    BY <2>1 DEF Statuses, ProcessNames
  <2> QED
    BY <1>1, <1>2, <1>6, <1>8, <2>1, <2>2, GetNameGets DEF e1
<1>10. Gets(S, Y, R, M, GetField("ProcessStatus_value", "state", "state_value", "get_enum",
                                <<i, "proc_state">>), Stored(O, <<i>>, e1), Stored(O, <<i>>, e2))
  <2>1. state = Converted("get_enum", <<i, "proc_state">>, w["state"])
    BY DEF Converted, Last, state
  <2> QED
    BY <1>1, <1>3, <1>6, <1>7, <1>8, <2>1, TypesOf, GettersOf, GetPartGets DEF e2
<1>11. Gets(S, Y, R, M, GetField("ProcessStatus_value", "exit_value", "exit_value_value", "get_int",
                                <<i, "exit_value">>), Stored(O, <<i>>, e2), Stored(O, <<i>>, e3))
  BY <1>1, <1>4, <1>6, <1>7, <1>8, TypesOf, GettersOf, ConvertedIs, GetPartGets DEF e3
<1> QED
  BY <1>5, <1>9, <1>10, <1>11, GetsBoth DEF e0, state

\* A list in front of four others.
LEMMA FirstOfLists ==
    ASSUME NEW z, NEW a, NEW b, NEW c, NEW d,
           IsList(z), IsList(a), IsList(b), IsList(c), IsList(d)
    PROVE  /\ Chained(z \o a, b, c, d) = z \o Chained(a, b, c, d)
           /\ Chained(z \o a, b, c, d) = z \o Nested(a, b, c, d)
<1>1. \A p, q, s : IsList(p) /\ IsList(q) /\ IsList(s) => (p \o q) \o s = p \o (q \o s)
  BY Lists
<1>2. \A p, q : IsList(p) /\ IsList(q) => IsList(p \o q)
  BY Lists
<1>3. PICK x, y : x = z \o a /\ y = b \o (c \o d)
  OBVIOUS
<1>4. IsList(c \o d)
  BY <1>2
<1>5. PICK t : t = c \o d
  OBVIOUS
<1>6. IsList(x) /\ IsList(y)
  BY <1>2, <1>3, <1>4
<1>7. Chained(x, b, c, d) = x \o y
  <2>1. Chained(x, b, c, d) = Nested(x, b, c, d)
    BY <1>6, ListsOf
  <2> QED
    BY <1>3, <2>1, Zenon DEF Nested
<1>8. (z \o a) \o y = z \o (a \o y)
  <2>1. IsList(z) /\ IsList(a) /\ IsList(y)
    BY <1>6
  <2> QED
    BY <1>1, <2>1, SMT
<1>9. Chained(x, b, c, d) = z \o (a \o y)
  BY <1>3, <1>7, <1>8, Zenon
<1>10. a \o y = Nested(a, b, c, d)
  BY <1>3, Zenon DEF Nested
<1>11. Chained(a, b, c, d) = Nested(a, b, c, d)
  BY ListsOf
<1> QED
  BY <1>3, <1>9, <1>10, <1>11, Zenon

LEMMA ZeroKeeps ==
    ASSUME NEW S, NEW Y, NEW R, NEW M, NEW v, NEW P, NEW c, Frees(M, v, P, c), NEW a
    PROVE  Gets(S, Y, R, M, Zero(c), a, a)
<1>1. PICK e : e = <<>>
  OBVIOUS
<1>2. Gets(S, Y, R, Where(M, c, 0), e, a, a)
  BY <1>1, RunNothing DEF Gets
<1>3. Gets(S, Y, R, M, Zero(c) \o e, a, a)
  BY <1>2, ZeroGets
<1>4. Zero(c) \o e = Zero(c)
  BY <1>1 DEF Zero
<1> QED
  BY <1>3, <1>4

\* The environment of the struct at <<i>>.
LEMMA EnvironmentPlace ==
    ASSUME NEW O, NEW i, IsPlace(O, <<i>>), NEW e, e = [g \in DOMAIN e |-> e[g]],
           "en_vars" \in DOMAIN e, NEW o, o = Stored(O, <<i>>, e), NEW J, J = <<i, "en_vars">>
    PROVE  /\ J \in Places /\ IsPlace(o, J)
           /\ \A x : Stored(o, J, x) = Stored(O, <<i>>, Changed(e, "en_vars", x))
<1>1. "en_vars" \in Keys
  BY DEF Keys
<1>2. PICK I, k : I = <<i>> /\ k = "en_vars"
  OBVIOUS
<1>3. Append(I, k) = J
  BY <1>2, PairIs
<1>4. IsPlace(o, I) /\ At(o, I) = e /\ \A x : Stored(o, I, x) = Stored(O, I, x)
  BY <1>2, StaysPlace
<1>5. /\ IsPlace(o, Append(I, k)) /\ At(o, Append(I, k)) = e[k]
      /\ \A x : Stored(o, Append(I, k), x) = Stored(o, I, Changed(e, k, x))
  BY <1>1, <1>2, <1>4, PartIsPlace
<1>6. \A x : Stored(o, J, x) = Stored(o, I, Changed(e, k, x))
  BY <1>3, <1>5
<1>7. \A x : Stored(o, J, x) = Stored(O, I, Changed(e, k, x))
  BY <1>4, <1>6
<1>8. J \in Places /\ IsPlace(o, J)
  BY <1>3, <1>5 DEF IsPlace
<1> QED
  BY <1>2, <1>7, <1>8

LEMMA EnvironmentLists ==
    ASSUME NEW i, NEW z, z = Zero("en_vars_array_size"),
           NEW b, b = ByName("launchContext_value", "en_vars", "en_vars_array_value"),
           NEW s, s = Size("en_vars_array_value", "en_vars_array_size"),
           NEW m, m = Malloc("en_vars_array_size", <<i, "en_vars">>, Garbage),
           NEW f, f = For("en_vars_array_size", "en_vars", i)
    PROVE  /\ IsList(z) /\ IsList(b) /\ IsList(s) /\ IsList(m) /\ IsList(f)
           /\ EnvironmentCalls(i) = z \o Nested(b, s, m, f)
<1>1. IsList(z) /\ IsList(b) /\ IsList(s) /\ IsList(m) /\ IsList(f)
  BY Lists DEF Zero, ByName, Size, Malloc, For
<1>2. EnvironmentCalls(i) = Chained(z \o b, s, m, f)
  BY DEF EnvironmentCalls, Chained
<1>3. Chained(z \o b, s, m, f) = z \o Nested(b, s, m, f)
  <2>1. PICK z1, b1, s1, m1, f1 : z1 = z /\ b1 = b /\ s1 = s /\ m1 = m /\ f1 = f
    OBVIOUS
  <2>2. IsList(z1) /\ IsList(b1) /\ IsList(s1) /\ IsList(m1) /\ IsList(f1)
    BY <1>1, <2>1
  <2>3. Chained(z1 \o b1, s1, m1, f1) = z1 \o Nested(b1, s1, m1, f1)
    BY <2>2, FirstOfLists
  <2> QED
    BY <2>1, <2>3
<1> QED
  BY <1>1, <1>2, <1>3, Zenon

LEMMA TripleIs ==
    ASSUME NEW f, NEW g, NEW k
    PROVE  Append(<<f, g>>, k) = <<f, g, k>>
<1>1. Append(<<f, g>>, k) = [i \in 1..3 |-> IF i = 3 THEN k ELSE IF i = 2 THEN g ELSE f]
  OBVIOUS
<1>2. <<f, g, k>> = [i \in 1..3 |-> IF i = 3 THEN k ELSE IF i = 2 THEN g ELSE f]
  OBVIOUS
<1> QED
  BY <1>1, <1>2

\* The environment of the record at P, stored in that of the struct at <<i>>.
LEMMA EnvironmentGets ==
    ASSUME NEW S, NEW Y, NEW R, NEW M, NEW P,
           Ready(M, "launchContext_value", P,
                 {"en_vars_array_size", "en_vars_array_value", "en_vars_item_value"}),
           NEW w, w = At(R, P), "en_vars" \in DOMAIN w,
           NEW env \in Seq(Bytes), env = w["en_vars"],
           NEW T, T = SchemaAt(S, P), T.type = "record",
           FieldSchema(T, "en_vars") = AvroArray(AvroString),
           NEW O, NEW i, IsPlace(O, <<i>>), NEW e, e = [g \in DOMAIN e |-> e[g]],
           "en_vars" \in DOMAIN e
    PROVE  Gets(S, Y, R, M, EnvironmentCalls(i), Stored(O, <<i>>, e),
                Stored(O, <<i>>, Changed(e, "en_vars", env)))
<1> DEFINE o == Stored(O, <<i>>, e)
           J == <<i, "en_vars">>
           Q == Append(P, "en_vars")
           n == Len(env)
           u == "launchContext_value"
           c == "en_vars_array_size"
           v == "en_vars_array_value"
           it == "en_vars_item_value"
           M2 == Where(M, v, Q)
           M3 == Where(M2, c, n)
           z == Zero(c)
           bs == ByName(u, "en_vars", v)
           ss == Size(v, c)
           ms == Malloc(c, J, Garbage)
           fs == For(c, "en_vars", i)
<1>1. P \in Places /\ "en_vars" \in Keys /\ n \in Nat /\ n \in Marks
  BY DEF Ready, Frees, Keys, Marks
<1>2. /\ Q \in Places /\ SchemaAt(S, Q) = AvroArray(AvroString) /\ At(R, Q) = env
  <2>1. SchemaAt(S, Q) = Inside(SchemaAt(S, P), "en_vars") /\ Q \in Places
    BY <1>1, Deeper
  <2>2. PICK k \in Keys : k = "en_vars"
    BY <1>1
  <2>3. At(R, Append(P, k)) = At(R, P)[k]
    BY <1>1, Deeper
  <2> QED
    BY <2>1, <2>2, <2>3 DEF Inside
<1>3. /\ J \in Places /\ IsPlace(o, J)
      /\ \A x : Stored(o, J, x) = Stored(O, <<i>>, Changed(e, "en_vars", x))
  BY EnvironmentPlace
<1>4. Frees(M, u, P, c) /\ Frees(M, u, P, v) /\ Frees(M, u, P, it)
  BY DEF Ready
<1>5. Frees(M2, v, Q, c) /\ Frees(M2, v, Q, it)
  BY <1>2, <1>4, FreesWhere
<1>6. Frees(M3, v, Q, it) /\ \A l \in M3 : l[c] = n
  <2>1. Frees(M3, v, Q, it)
    BY <1>1, <1>5, FreesMark
  <2> QED
    BY <2>1 DEF Where
<1>7. SchemaAt(S, Q).type = "array" /\ SchemaAt(S, Q).items = AvroString
  BY <1>2, TypesOf
<1>8. /\ DOMAIN env = 1..n /\ Cardinality(DOMAIN env) = n
      /\ env = [k \in 1..n |-> env[k]] 
  <2>1. Cardinality(1..n) = n
    BY <1>1, CountOf
  <2> QED
    BY <2>1
<1> HIDE DEF o, J, Q, n, M2, M3
<1>9. ASSUME NEW k \in 1..n, NEW vs, vs = [j \in 1..n |-> vs[j]], vs[k] = Garbage
      PROVE  Gets(S, Y, R, M3, Round("en_vars", i, k), Stored(o, J, vs),
                  Stored(o, J, Changed(vs, k, env[k])))
  <2> DEFINE a == Stored(o, J, vs)
             Qk == Append(Q, k)
             Jk == Append(J, k)
             N == Where(M3, it, Qk)
  <2>1. k \in Keys
    BY <1>1 DEF Keys
  <2>2. Qk \in Places /\ SchemaAt(S, Qk) = AvroString /\ At(R, Qk) = env[k]
    <3>1. Qk \in Places /\ SchemaAt(S, Qk) = Inside(SchemaAt(S, Q), k) /\ At(R, Qk) = At(R, Q)[k]
      BY <1>2, <2>1, Deeper
    <3> QED
      BY <1>2, <1>7, <3>1 DEF Inside
  <2>3. Stored(a, Jk, env[k]) = Stored(o, J, Changed(vs, k, env[k]))
    <3>1. IsPlace(a, J) /\ At(a, J) = vs /\ \A y : Stored(a, J, y) = Stored(o, J, y)
      BY <1>3, StaysPlace
    <3>2. PICK x : x = env[k]
      OBVIOUS
    <3>3. DOMAIN vs = 1..n
      BY <1>9
    <3>4. vs = [j \in DOMAIN vs |-> vs[j]] /\ k \in DOMAIN vs
      BY <1>9, <3>3
    <3> HIDE DEF a
    <3>5. Stored(a, Append(J, k), x) = Stored(a, J, Changed(vs, k, x))
      BY <2>1, <3>1, <3>4, PartIsPlace
    <3> QED
      BY <3>1, <3>2, <3>5
  <2>4. Jk = <<i, "en_vars", k>>
    BY TripleIs, Zenon DEF J
  <2>5. \A l \in N : l[it] = Qk
    BY DEF Where
  <2>6. SchemaAt(S, Qk).type \in DOMAIN Getters /\ "get_string" \in Getters[SchemaAt(S, Qk).type]
    BY <2>2, TypesOf, GettersOf
  <2>7. Round("en_vars", i, k) = ByIndex(v, k, it) \o <<[op |-> "get_string", on |-> it, to |-> Jk]>>
    BY <2>4 DEF Round, EnvironmentRound
  <2>8. Converted("get_string", Jk, At(R, Qk)) = env[k]
    BY <2>2, ConvertedIs
  <2>9. k \in DOMAIN At(R, Q)
    BY <1>2, <1>8
  <2> HIDE DEF a, Qk, Jk, N
  <2>10. Gets(S, Y, R, N, <<[op |-> "get_string", on |-> it, to |-> Jk]>>, a, Stored(a, Jk, env[k]))
    <3>1. Gets(S, Y, R, N, <<[op |-> "get_string", on |-> it, to |-> Jk]>>, a,
               Stored(a, Jk, Converted("get_string", Jk, At(R, Qk))))
      BY <2>2, <2>5, <2>6, GetGets
    <3> QED
      BY <2>8, <3>1
  <2>11. Gets(S, Y, R, M3, ByIndex(v, k, it) \o <<[op |-> "get_string", on |-> it, to |-> Jk]>>,
              a, Stored(a, Jk, env[k]))
    BY <1>6, <1>7, <2>1, <2>9, <2>10, ByIndexGets DEF N, Qk
  <2> QED
    BY <2>3, <2>7, <2>11 DEF a
<1>10. Fits(S, Y, R, M3, "en_vars", i, o, J, n, Garbage, env)
  BY <1>9 DEF Fits
<1>11. Gets(S, Y, R, M3, ms \o fs, o, Stored(o, J, env))
  BY <1>1, <1>6, <1>8, <1>10, FillGets
<1>12. /\ IsList(z) /\ IsList(bs) /\ IsList(ss) /\ IsList(ms) /\ IsList(fs)
       /\ EnvironmentCalls(i) = z \o Nested(bs, ss, ms, fs)
  BY EnvironmentLists DEF J
<1> HIDE DEF z, bs, ss, ms, fs
<1>13. Gets(S, Y, R, M2, ss \o (ms \o fs), o, Stored(o, J, env))
  BY <1>1, <1>2, <1>5, <1>7, <1>8, <1>11, SizeGets DEF M3, ss
<1>14. Gets(S, Y, R, M, bs \o (ss \o (ms \o fs)), o, Stored(o, J, env))
  BY <1>1, <1>4, <1>13, ByNameGets DEF M2, Q, bs
<1>15. Gets(S, Y, R, M, z, o, o)
  BY <1>4, ZeroKeeps DEF z
<1>16. Gets(S, Y, R, M, z \o (bs \o (ss \o (ms \o fs))), o, Stored(o, J, env))
  BY <1>14, <1>15, GetsBoth
<1>17. Gets(S, Y, R, M, EnvironmentCalls(i), o, Stored(o, J, env))
  BY <1>12, <1>16 DEF Nested
<1> QED
  BY <1>3, <1>17 DEF o

\* Where the schema is the earlier one, in which it is a string: its size is
\* not to be had, stays zero, and the array is empty.
LEMMA EarlierEnvironmentGets ==
    ASSUME NEW S, NEW Y, Y \subseteq {"ok", "einval"}, "einval" \in Y, NEW R, NEW M, NEW P,
           Ready(M, "launchContext_value", P, {"en_vars_array_size", "en_vars_array_value"}),
           NEW w, w = At(R, P), "en_vars" \in DOMAIN w,
           NEW T, T = SchemaAt(S, P), T.type = "record",
           FieldSchema(T, "en_vars") = AvroString,
           NEW O, NEW i, IsPlace(O, <<i>>), NEW e, e = [g \in DOMAIN e |-> e[g]],
           "en_vars" \in DOMAIN e
    PROVE  Gets(S, Y, R, M, EnvironmentCalls(i), Stored(O, <<i>>, e),
                Stored(O, <<i>>, Changed(e, "en_vars", <<>>)))
<1> DEFINE o == Stored(O, <<i>>, e)
           J == <<i, "en_vars">>
           Q == Append(P, "en_vars")
           u == "launchContext_value"
           c == "en_vars_array_size"
           v == "en_vars_array_value"
           M1 == Where(M, c, 0)
           M2 == Where(M1, v, Q)
           none == [k \in 1..0 |-> Garbage]
           z == Zero(c)
           bs == ByName(u, "en_vars", v)
           ss == Size(v, c)
           ms == Malloc(c, J, Garbage)
           fs == For(c, "en_vars", i)
<1>1. P \in Places /\ "en_vars" \in Keys /\ 0 \in Marks
  BY DEF Ready, Frees, Keys, Marks
<1>2. Q \in Places /\ SchemaAt(S, Q).type = "string"
  <2>1. SchemaAt(S, Q) = Inside(SchemaAt(S, P), "en_vars") /\ Q \in Places
    BY <1>1, Deeper
  <2> QED
    BY <2>1, TypesOf DEF Inside
<1>3. /\ J \in Places /\ IsPlace(o, J)
      /\ \A x : Stored(o, J, x) = Stored(O, <<i>>, Changed(e, "en_vars", x))
  BY EnvironmentPlace
<1>4. Frees(M, u, P, c) /\ Frees(M, u, P, v)
  BY DEF Ready
<1>5. Frees(M1, u, P, v)
  BY <1>1, <1>4, FreesMark
<1>6. \A l \in M2 : l[c] = 0 /\ l[v] = Q
  BY DEF Where
<1>7. none = <<>> /\ none = [k \in 1..0 |-> none[k]]
  OBVIOUS
<1> HIDE DEF o, J, Q, M1, M2, none
<1>8. Fits(S, Y, R, M2, "en_vars", i, o, J, 0, Garbage, none)
  <2>1. \A k : k \notin 1..0
    OBVIOUS
  <2> QED
    BY <2>1, Zenon DEF Fits
<1>9. Gets(S, Y, R, M2, ms \o fs, o, Stored(o, J, none))
  BY <1>6, <1>7, <1>8, FillGets
<1>10. /\ IsList(z) /\ IsList(bs) /\ IsList(ss) /\ IsList(ms) /\ IsList(fs)
       /\ EnvironmentCalls(i) = z \o Nested(bs, ss, ms, fs)
  BY EnvironmentLists DEF J
<1> HIDE DEF z, bs, ss, ms, fs
<1>11. Gets(S, Y, R, M2, ss, o, o)
  BY <1>2, <1>6, NoSizeGets DEF ss
<1>12. Gets(S, Y, R, M2, ss \o (ms \o fs), o, Stored(o, J, none))
  BY <1>9, <1>11, GetsBoth
<1>13. Gets(S, Y, R, M1, bs \o (ss \o (ms \o fs)), o, Stored(o, J, none))
  BY <1>1, <1>5, <1>12, ByNameGets DEF M2, Q, bs
<1>14. Gets(S, Y, R, M, z \o (bs \o (ss \o (ms \o fs))), o, Stored(o, J, none))
  BY <1>4, <1>13, ZeroGets DEF M1, z
<1>15. Gets(S, Y, R, M, EnvironmentCalls(i), o, Stored(o, J, none))
  BY <1>10, <1>14 DEF Nested
<1> QED
  BY <1>3, <1>7, <1>15 DEF o

ContextBody(i) ==
    Chained(EnvironmentCalls(i),
            GetField("launchContext_value", "args", "args_value", "get_string", <<i, "args">>),
            GetField("launchContext_value", "host_name", "host_name_value", "get_string",
                     <<i, "host_name">>),
            GetName("launchContext_value", "jobid_value", i))

\* A launch context, whose environment is env when it is stored.
LEMMA ContextGets ==
    ASSUME NEW S, NEW Y, NEW R, NEW M, NEW P,
           Ready(M, "launchContext_value", P,
                 {"args_value", "host_name_value", "name_value", "jobid_value"}),
           NEW w, At(R, P) = w, {"args", "host_name", "name"} \subseteq DOMAIN w,
           w["name"] \in ProcessNames,
           NEW T, T = SchemaAt(S, P), T.type = "record", FieldSchema(T, "args") = AvroString,
           FieldSchema(T, "host_name") = AvroString, FieldSchema(T, "name") = ProcessName,
           NEW O, NEW i, IsPlace(O, <<i>>), NEW env,
           Gets(S, Y, R, M, EnvironmentCalls(i), Stored(O, <<i>>, launch_context_t),
                Stored(O, <<i>>, Changed(launch_context_t, "en_vars", env)))
    PROVE  Gets(S, Y, R, M, ContextBody(i), Stored(O, <<i>>, launch_context_t),
                Stored(O, <<i>>, [en_vars |-> env, args |-> w.args, host_name |-> w.host_name,
                                  proc_name |-> w.name]))
<1> DEFINE e0 == launch_context_t
           e1 == Changed(e0, "en_vars", env)
           e2 == Changed(e1, "args", w["args"])
           e3 == Changed(e2, "host_name", w["host_name"])
           e4 == Changed(e3, "proc_name", w["name"])
           F == {"en_vars", "args", "host_name", "proc_name"}
           u == "launchContext_value"
<1>2. /\ e0 = [g \in DOMAIN e0 |-> e0[g]] /\ DOMAIN e0 = F /\ e0["proc_name"] = process_name_t
  BY StructsAre
<1> HIDE DEF e0
<1>3. /\ e1 = [g \in DOMAIN e1 |-> e1[g]] /\ DOMAIN e1 = F
      /\ e1["en_vars"] = env /\ e1["proc_name"] = process_name_t
  BY <1>2, ChangedIs
<1> HIDE DEF e1
<1>4. /\ e2 = [g \in DOMAIN e2 |-> e2[g]] /\ DOMAIN e2 = F
      /\ e2["en_vars"] = env /\ e2["args"] = w["args"] /\ e2["proc_name"] = process_name_t
  BY <1>3, ChangedIs
<1> HIDE DEF e2
<1>5. /\ e3 = [g \in DOMAIN e3 |-> e3[g]] /\ DOMAIN e3 = F
      /\ e3["en_vars"] = env /\ e3["args"] = w["args"] /\ e3["host_name"] = w["host_name"]
      /\ e3["proc_name"] = process_name_t
  BY <1>4, ChangedIs
<1> HIDE DEF e3
<1>6. e4 = [en_vars |-> env, args |-> w.args, host_name |-> w.host_name, proc_name |-> w.name]
  <2>1. /\ e4 = [g \in DOMAIN e4 |-> e4[g]] /\ DOMAIN e4 = F
        /\ e4["en_vars"] = env /\ e4["args"] = w["args"] /\ e4["host_name"] = w["host_name"]
        /\ e4["proc_name"] = w["name"]
    BY <1>5, ChangedIs
  <2> HIDE DEF e4
  <2> QED
    BY <2>1
<1> HIDE DEF e4
<1>7. /\ Frees(M, u, P, "args_value") /\ Frees(M, u, P, "host_name_value")
      /\ Frees(M, u, P, "name_value") /\ Frees(M, u, P, "jobid_value")
  BY DEF Ready
<1>8. {"args", "host_name"} \subseteq Keys
  BY DEF Keys
<1> DEFINE es == EnvironmentCalls(i)
           as == GetField(u, "args", "args_value", "get_string", <<i, "args">>)
           hs == GetField(u, "host_name", "host_name_value", "get_string", <<i, "host_name">>)
           ns == GetName(u, "jobid_value", i)
<1>9. Gets(S, Y, R, M, es, Stored(O, <<i>>, e0), Stored(O, <<i>>, e1))
  BY DEF e0, e1
<1>10. Gets(S, Y, R, M, as, Stored(O, <<i>>, e1), Stored(O, <<i>>, e2))
  BY <1>3, <1>7, <1>8, TypesOf, GettersOf, ConvertedIs, GetPartGets DEF e2
<1>11. Gets(S, Y, R, M, hs, Stored(O, <<i>>, e2), Stored(O, <<i>>, e3))
  BY <1>4, <1>7, <1>8, TypesOf, GettersOf, ConvertedIs, GetPartGets DEF e3
<1>12. Gets(S, Y, R, M, ns, Stored(O, <<i>>, e3), Stored(O, <<i>>, e4))
  <2>1. PICK m : m = w["name"]
    OBVIOUS
  <2>2. m = [g \in {"jobid", "vpid"} |-> m[g]]
    BY <2>1 DEF ProcessNames
  <2> QED
    BY <1>5, <1>7, <2>1, <2>2, GetNameGets DEF e4
<1> HIDE DEF es, as, hs, ns
<1>13. Gets(S, Y, R, M, es \o as, Stored(O, <<i>>, e0), Stored(O, <<i>>, e2))
  BY <1>9, <1>10, GetsBoth
<1>14. Gets(S, Y, R, M, (es \o as) \o hs, Stored(O, <<i>>, e0), Stored(O, <<i>>, e3))
  BY <1>11, <1>13, GetsBoth
<1>15. Gets(S, Y, R, M, ((es \o as) \o hs) \o ns, Stored(O, <<i>>, e0), Stored(O, <<i>>, e4))
  BY <1>12, <1>14, GetsBoth
<1>16. ContextBody(i) = ((es \o as) \o hs) \o ns
  BY DEF ContextBody, Chained, es, as, hs, ns
<1> QED
  BY <1>6, <1>15, <1>16 DEF e0

\* The rounds of the four parsers of arrays, as what fetches an element and
\* what stores it.
LEMMA RoundsAre ==
    ASSUME NEW k
    PROVE  /\ Round("node_resources", 0, k) =
                ByIndex("node_resources_value", k, "NodeResource_value")
                \o (GetField("NodeResource_value", "host_name", "host_name_value", "get_string",
                             <<k, "host_name">>)
                    \o GetField("NodeResource_value", "slot", "slot_value", "get_int",
                                <<k, "slot_num">>))
           /\ Round("results", 0, k) =
                ByIndex("results_value", k, "LaunchResult_value")
                \o (GetField("LaunchResult_value", "is_successful", "is_successful_value",
                             "get_boolean", <<k, "is_successful">>)
                    \o GetName("LaunchResult_value", "vpid_value", k))
           /\ Round("completed_processes", 0, k) =
                ByIndex("completed_processes_value", k, "ProcessStatus_value")
                \o (GetName("ProcessStatus_value", "vpid_value", k)
                    \o (GetField("ProcessStatus_value", "state", "state_value", "get_enum",
                                 <<k, "proc_state">>)
                        \o GetField("ProcessStatus_value", "exit_value", "exit_value_value",
                                    "get_int", <<k, "exit_value">>)))
           /\ Round("launchContexts", 0, k) =
                ByIndex("launchContexts_value", k, "launchContext_value") \o ContextBody(k)
<1>0. /\ \A v, f, c : IsList(ByName(v, f, c))
      /\ \A v, i, c : IsList(ByIndex(v, i, c))
      /\ \A v, f, c, get, place : IsList(GetField(v, f, c, get, place))
      /\ \A v, u, i : IsList(GetName(v, u, i))
      /\ \A i : IsList(EnvironmentCalls(i))
  BY Lists DEF ByName, ByIndex, GetField, GetName, EnvironmentCalls, Zero, Size, Malloc, For
<1>1. \A p, q, s : IsList(p) /\ IsList(q) /\ IsList(s) => (p \o q) \o s = p \o (q \o s)
  BY Lists
<1>2. Round("node_resources", 0, k) =
                ByIndex("node_resources_value", k, "NodeResource_value")
                \o (GetField("NodeResource_value", "host_name", "host_name_value", "get_string",
                             <<k, "host_name">>)
                    \o GetField("NodeResource_value", "slot", "slot_value", "get_int",
                                <<k, "slot_num">>))
  <2>1. PICK a, b, c :
          /\ a = ByIndex("node_resources_value", k, "NodeResource_value")
          /\ b = GetField("NodeResource_value", "host_name", "host_name_value", "get_string",
                             <<k, "host_name">>)
          /\ c = GetField("NodeResource_value", "slot", "slot_value", "get_int", <<k, "slot_num">>)
    OBVIOUS
  <2>2. (a \o b) \o c = a \o (b \o c)
    <3>1. IsList(a) /\ IsList(b) /\ IsList(c)
      BY <1>0, <2>1
    <3> QED
      BY <1>1, <3>1
  <2>3. Round("node_resources", 0, k) = (a \o b) \o c
    BY <2>1 DEF Round, AllocateResponseRound
  <2> QED
    BY <2>1, <2>2, <2>3
<1>3. Round("results", 0, k) =
                ByIndex("results_value", k, "LaunchResult_value")
                \o (GetField("LaunchResult_value", "is_successful", "is_successful_value",
                             "get_boolean", <<k, "is_successful">>)
                    \o GetName("LaunchResult_value", "vpid_value", k))
  <2>1. PICK a, b, c :
          /\ a = ByIndex("results_value", k, "LaunchResult_value")
          /\ b = GetField("LaunchResult_value", "is_successful", "is_successful_value",
                             "get_boolean", <<k, "is_successful">>)
          /\ c = GetName("LaunchResult_value", "vpid_value", k)
    OBVIOUS
  <2>2. (a \o b) \o c = a \o (b \o c)
    <3>1. IsList(a) /\ IsList(b) /\ IsList(c)
      BY <1>0, <2>1
    <3> QED
      BY <1>1, <3>1
  <2>3. Round("results", 0, k) = (a \o b) \o c
    BY <2>1 DEF Round, LaunchResponseRound
  <2> QED
    BY <2>1, <2>2, <2>3
<1>4. Round("completed_processes", 0, k) =
                ByIndex("completed_processes_value", k, "ProcessStatus_value")
                \o (GetName("ProcessStatus_value", "vpid_value", k)
                    \o (GetField("ProcessStatus_value", "state", "state_value", "get_enum",
                                 <<k, "proc_state">>)
                        \o GetField("ProcessStatus_value", "exit_value", "exit_value_value",
                                    "get_int", <<k, "exit_value">>)))
  <2>1. PICK a, b, c, d :
          /\ a = ByIndex("completed_processes_value", k, "ProcessStatus_value")
          /\ b = GetName("ProcessStatus_value", "vpid_value", k)
          /\ c = GetField("ProcessStatus_value", "state", "state_value", "get_enum",
                                 <<k, "proc_state">>)
          /\ d = GetField("ProcessStatus_value", "exit_value", "exit_value_value",
                                    "get_int", <<k, "exit_value">>)
    OBVIOUS
  <2>2. Chained(a, b, c, d) = Nested(a, b, c, d)
    <3>1. IsList(a) /\ IsList(b) /\ IsList(c) /\ IsList(d)
      BY <1>0, <2>1
    <3> QED
      BY <3>1, ListsOf
  <2>3. Round("completed_processes", 0, k) = Chained(a, b, c, d)
    BY <2>1 DEF Round, HeartBeatResponseRound, Chained
  <2> QED
    BY <2>1, <2>2, <2>3 DEF Nested
<1>5. Round("launchContexts", 0, k) =
                ByIndex("launchContexts_value", k, "launchContext_value") \o ContextBody(k)
  <2>1. PICK z, a, b, c, d :
          /\ z = ByIndex("launchContexts_value", k, "launchContext_value")
          /\ a = EnvironmentCalls(k)
          /\ b = GetField("launchContext_value", "args", "args_value", "get_string", <<k, "args">>)
          /\ c = GetField("launchContext_value", "host_name", "host_name_value", "get_string",
                     <<k, "host_name">>)
          /\ d = GetName("launchContext_value", "jobid_value", k)
    OBVIOUS
  <2>2. Chained(z \o a, b, c, d) = z \o Chained(a, b, c, d)
    <3>1. IsList(z) /\ IsList(a) /\ IsList(b) /\ IsList(c) /\ IsList(d)
      BY <1>0, <2>1
    <3> QED
      BY <3>1, FirstOfLists
  <2>3. Round("launchContexts", 0, k) = Chained(z \o a, b, c, d)
    BY <2>1 DEF Round, LaunchRequestRound, Chained
  <2> QED
    BY <2>1, <2>2, <2>3 DEF ContextBody
<1> QED
  BY <1>2, <1>3, <1>4, <1>5

LEMMA AllocateResponseGets ==
    ASSUME NEW Y, NEW R \in [node_resources: Seq(Nodes)], NEW a
    PROVE  Gets(AllocateResponse, Y, R, Fresh,
                ParseArray("node_resources", "node_resources_value", node_resource_t), a,
                [i \in DOMAIN R.node_resources |->
                   [host_name |-> R.node_resources[i].host_name,
                    slot_num |-> R.node_resources[i].slot]])
<1> DEFINE ws == R.node_resources
           array == "node_resources_value"
           item == "NodeResource_value"
           body == [k \in 1..Len(ws) |->
                      GetField("NodeResource_value", "host_name", "host_name_value", "get_string",
                               <<k, "host_name">>)
                      \o GetField("NodeResource_value", "slot", "slot_value", "get_int",
                                  <<k, "slot_num">>)]
           res == [i \in DOMAIN ws |-> [host_name |-> ws[i].host_name, slot_num |-> ws[i].slot]]
           B == Sized("node_resources", array, Len(ws))
<1>1. AllocateResponse = ArrayMessage("node_resources", NodeResource)
  BY ArraySchemas DEF ArrayMessage
<1>2. ws \in Seq(Nodes) /\ "node_resources" \in DOMAIN R /\ R["node_resources"] = ws
  OBVIOUS
<1>3. /\ "node_resources" \in Keys /\ array \in Locals \ {"record", "array_size"}
      /\ item \in Locals \ {"record", "array_size", array}
  BY DEF Keys, Locals
<1>4. \A k \in 1..Len(ws) : Round("node_resources", 0, k) = ByIndex(array, k, item) \o body[k]
  BY RoundsAre
<1>5. res = [k \in 1..Len(ws) |-> res[k]]
  <2>1. DOMAIN ws = 1..Len(ws)
    BY <1>2
  <2> QED
    BY <2>1
<1>6. ASSUME NEW k \in 1..Len(ws), NEW P, NEW O, P = <<"node_resources", k>>,
             At(R, P) = ws[k], SchemaAt(AllocateResponse, P) = NodeResource, IsPlace(O, <<k>>),
             Ready(Where(B, item, P), item, P, Locals \ {"record", "array_size", array, item})
      PROVE  Gets(AllocateResponse, Y, R, Where(B, item, P), body[k],
                  Stored(O, <<k>>, node_resource_t), Stored(O, <<k>>, res[k]))
  <2>1. ws[k] \in Nodes /\ k \in DOMAIN ws
    BY <1>2
  <2>2. Ready(Where(B, item, P), item, P, {"host_name_value", "slot_value"})
    BY <1>6 DEF Ready, Locals
  <2>3. PICK w \in Nodes : w = ws[k]
    BY <2>1
  <2>4. res[k] = [host_name |-> w.host_name, slot_num |-> w.slot]
    BY <2>1, <2>3
  <2> HIDE DEF B, ws, res
  <2>5. Gets(AllocateResponse, Y, R, Where(B, item, P),
             GetField("NodeResource_value", "host_name", "host_name_value", "get_string",
                      <<k, "host_name">>)
             \o GetField("NodeResource_value", "slot", "slot_value", "get_int", <<k, "slot_num">>),
             Stored(O, <<k>>, node_resource_t),
             Stored(O, <<k>>, [host_name |-> w.host_name, slot_num |-> w.slot]))
    BY <1>6, <2>2, <2>3, NodeGets
  <2> QED
    BY <2>4, <2>5
<1>7. Parses(AllocateResponse, Y, R, B, array, item, "node_resources", NodeResource, ws, body,
             node_resource_t, res)
  <2> HIDE DEF B, ws, res, body
  <2> QED
    BY <1>6 DEF Parses
<1> HIDE DEF ws, body, res, B
<1>8. Gets(AllocateResponse, Y, R, Fresh, ParseArray("node_resources", array, node_resource_t), a, res)
  BY <1>1, <1>2, <1>3, <1>4, <1>5, <1>7, ParseArrayGets DEF B
<1> QED
  BY <1>8 DEF res, ws

LEMMA LaunchResponseGets ==
    ASSUME NEW Y, NEW R \in [results: Seq(Results)], NEW a
    PROVE  Gets(LaunchResponse, Y, R, Fresh,
                ParseArray("results", "results_value", launch_response_t), a,
                [i \in DOMAIN R.results |->
                   [is_successful |-> R.results[i].is_successful,
                    proc_name |-> R.results[i].name]])
<1> DEFINE ws == R.results
           array == "results_value"
           item == "LaunchResult_value"
           body == [k \in 1..Len(ws) |->
                      GetField("LaunchResult_value", "is_successful", "is_successful_value",
                               "get_boolean", <<k, "is_successful">>)
                      \o GetName("LaunchResult_value", "vpid_value", k)]
           res == [i \in DOMAIN ws |-> [is_successful |-> ws[i].is_successful, proc_name |-> ws[i].name]]
           B == Sized("results", array, Len(ws))
<1>1. LaunchResponse = ArrayMessage("results", LaunchResult)
  BY ArraySchemas DEF ArrayMessage
<1>2. ws \in Seq(Results) /\ "results" \in DOMAIN R /\ R["results"] = ws
  OBVIOUS
<1>3. /\ "results" \in Keys /\ array \in Locals \ {"record", "array_size"}
      /\ item \in Locals \ {"record", "array_size", array}
  BY DEF Keys, Locals
<1>4. \A k \in 1..Len(ws) : Round("results", 0, k) = ByIndex(array, k, item) \o body[k]
  BY RoundsAre
<1>5. res = [k \in 1..Len(ws) |-> res[k]]
  <2>1. DOMAIN ws = 1..Len(ws)
    BY <1>2
  <2> QED
    BY <2>1
<1>6. ASSUME NEW k \in 1..Len(ws), NEW P, NEW O, P = <<"results", k>>,
             At(R, P) = ws[k], SchemaAt(LaunchResponse, P) = LaunchResult, IsPlace(O, <<k>>),
             Ready(Where(B, item, P), item, P, Locals \ {"record", "array_size", array, item})
      PROVE  Gets(LaunchResponse, Y, R, Where(B, item, P), body[k],
                  Stored(O, <<k>>, launch_response_t), Stored(O, <<k>>, res[k]))
  <2>1. ws[k] \in Results /\ k \in DOMAIN ws
    BY <1>2
  <2>2. Ready(Where(B, item, P), item, P, {"is_successful_value", "name_value", "jobid_value", "vpid_value"})
    BY <1>6 DEF Ready, Locals
  <2>3. PICK w \in Results : w = ws[k]
    BY <2>1
  <2>4. res[k] = [is_successful |-> w.is_successful, proc_name |-> w.name]
    BY <2>1, <2>3
  <2> HIDE DEF B, ws, res
  <2>5. Gets(LaunchResponse, Y, R, Where(B, item, P),
             GetField("LaunchResult_value", "is_successful", "is_successful_value", "get_boolean",
                      <<k, "is_successful">>)
             \o GetName("LaunchResult_value", "vpid_value", k),
             Stored(O, <<k>>, launch_response_t),
             Stored(O, <<k>>, [is_successful |-> w.is_successful, proc_name |-> w.name]))
    BY <1>6, <2>2, <2>3, ResultGets
  <2> QED
    BY <2>4, <2>5
<1>7. Parses(LaunchResponse, Y, R, B, array, item, "results", LaunchResult, ws, body,
             launch_response_t, res)
  <2> HIDE DEF B, ws, res, body
  <2> QED
    BY <1>6 DEF Parses
<1> HIDE DEF ws, body, res, B
<1>8. Gets(LaunchResponse, Y, R, Fresh, ParseArray("results", array, launch_response_t), a, res)
  BY <1>1, <1>2, <1>3, <1>4, <1>5, <1>7, ParseArrayGets DEF B
<1> QED
  BY <1>8 DEF res, ws

LEMMA HeartBeatResponseGets ==
    ASSUME NEW Y, NEW R \in [completed_processes: Seq(Statuses)], NEW a
    PROVE  Gets(HeartBeatResponse, Y, R, Fresh,
                ParseArray("completed_processes", "completed_processes_value", completed_proc_t), a,
                [i \in DOMAIN R.completed_processes |->
                   [proc_name |-> R.completed_processes[i].name,
                    proc_state |-> NameOf(process_state_enum_t, R.completed_processes[i].state),
                    exit_value |-> R.completed_processes[i].exit_value]])
<1> DEFINE ws == R.completed_processes
           array == "completed_processes_value"
           item == "ProcessStatus_value"
           body == [k \in 1..Len(ws) |->
                      GetName("ProcessStatus_value", "vpid_value", k)
                      \o (GetField("ProcessStatus_value", "state", "state_value", "get_enum",
                                   <<k, "proc_state">>)
                          \o GetField("ProcessStatus_value", "exit_value", "exit_value_value",
                                      "get_int", <<k, "exit_value">>))]
           res == [i \in DOMAIN ws |-> [proc_name |-> ws[i].name,
                                     proc_state |-> NameOf(process_state_enum_t, ws[i].state),
                                     exit_value |-> ws[i].exit_value]]
           B == Sized("completed_processes", array, Len(ws))
<1>1. HeartBeatResponse = ArrayMessage("completed_processes", ProcessStatus)
  BY ArraySchemas DEF ArrayMessage
<1>2. ws \in Seq(Statuses) /\ "completed_processes" \in DOMAIN R /\ R["completed_processes"] = ws
  OBVIOUS
<1>3. /\ "completed_processes" \in Keys /\ array \in Locals \ {"record", "array_size"}
      /\ item \in Locals \ {"record", "array_size", array}
  BY DEF Keys, Locals
<1>4. \A k \in 1..Len(ws) : Round("completed_processes", 0, k) = ByIndex(array, k, item) \o body[k]
  BY RoundsAre
<1>5. res = [k \in 1..Len(ws) |-> res[k]]
  <2>1. DOMAIN ws = 1..Len(ws)
    BY <1>2
  <2> QED
    BY <2>1
<1>6. ASSUME NEW k \in 1..Len(ws), NEW P, NEW O, P = <<"completed_processes", k>>,
             At(R, P) = ws[k], SchemaAt(HeartBeatResponse, P) = ProcessStatus, IsPlace(O, <<k>>),
             Ready(Where(B, item, P), item, P, Locals \ {"record", "array_size", array, item})
      PROVE  Gets(HeartBeatResponse, Y, R, Where(B, item, P), body[k],
                  Stored(O, <<k>>, completed_proc_t), Stored(O, <<k>>, res[k]))
  <2>1. ws[k] \in Statuses /\ k \in DOMAIN ws
    BY <1>2
  <2>2. Ready(Where(B, item, P), item, P, {"name_value", "jobid_value", "vpid_value", "state_value", "exit_value_value"})
    BY <1>6 DEF Ready, Locals
  <2>3. PICK w \in Statuses : w = ws[k]
    BY <2>1
  <2>4. res[k] = [proc_name |-> w.name, proc_state |-> NameOf(process_state_enum_t, w.state),
                               exit_value |-> w.exit_value]
    BY <2>1, <2>3
  <2> HIDE DEF B, ws, res
  <2>5. Gets(HeartBeatResponse, Y, R, Where(B, item, P),
             GetName("ProcessStatus_value", "vpid_value", k)
             \o (GetField("ProcessStatus_value", "state", "state_value", "get_enum",
                          <<k, "proc_state">>)
                 \o GetField("ProcessStatus_value", "exit_value", "exit_value_value", "get_int",
                             <<k, "exit_value">>)),
             Stored(O, <<k>>, completed_proc_t),
             Stored(O, <<k>>, [proc_name |-> w.name, proc_state |-> NameOf(process_state_enum_t, w.state),
                               exit_value |-> w.exit_value]))
    BY <1>6, <2>2, <2>3, StatusGets
  <2> QED
    BY <2>4, <2>5
<1>7. Parses(HeartBeatResponse, Y, R, B, array, item, "completed_processes", ProcessStatus, ws, body,
             completed_proc_t, res)
  <2> HIDE DEF B, ws, res, body
  <2> QED
    BY <1>6 DEF Parses
<1> HIDE DEF ws, body, res, B
<1>8. Gets(HeartBeatResponse, Y, R, Fresh, ParseArray("completed_processes", array, completed_proc_t), a, res)
  BY <1>1, <1>2, <1>3, <1>4, <1>5, <1>7, ParseArrayGets DEF B
<1> QED
  BY <1>8 DEF res, ws

\* The environments of the contexts ws, of schema I, are stored as envs.
EnvironmentsGet(S, Y, R, I, ws, envs) ==
    \A k \in 1..Len(ws) : \A M, P, O :
      IsPlace(O, <<k>>) /\ At(R, P) = ws[k] /\ SchemaAt(S, P) = I
        /\ Ready(M, "launchContext_value", P,
                 {"en_vars_array_size", "en_vars_array_value", "en_vars_item_value"})
      => Gets(S, Y, R, M, EnvironmentCalls(k), Stored(O, <<k>>, launch_context_t),
              Stored(O, <<k>>, Changed(launch_context_t, "en_vars", envs[k])))

\* A launch request of such contexts.
LEMMA ContextsGet ==
    ASSUME NEW S, NEW I, S = ArrayMessage("launchContexts", I), NEW Y,
           NEW C, NEW ws \in Seq(C), NEW R, "launchContexts" \in DOMAIN R, R["launchContexts"] = ws,
           \A w \in C : {"args", "host_name", "name"} \subseteq DOMAIN w /\ w["name"] \in ProcessNames,
           I.type = "record", FieldSchema(I, "args") = AvroString,
           FieldSchema(I, "host_name") = AvroString, FieldSchema(I, "name") = ProcessName,
           NEW envs,
           EnvironmentsGet(S, Y, R, I, ws, envs),
           NEW a
    PROVE  Gets(S, Y, R, Fresh, ParseArray("launchContexts", "launchContexts_value", launch_context_t),
                a, [i \in DOMAIN ws |->
                      [en_vars |-> envs[i], args |-> ws[i].args, host_name |-> ws[i].host_name,
                       proc_name |-> ws[i].name]])
<1> DEFINE array == "launchContexts_value"
           item == "launchContext_value"
           body == [k \in 1..Len(ws) |-> ContextBody(k)]
           res == [i \in DOMAIN ws |->
                     [en_vars |-> envs[i], args |-> ws[i].args, host_name |-> ws[i].host_name,
                      proc_name |-> ws[i].name]]
           B == Sized("launchContexts", array, Len(ws))
<1>3. /\ "launchContexts" \in Keys /\ array \in Locals \ {"record", "array_size"}
      /\ item \in Locals \ {"record", "array_size", array}
  BY DEF Keys, Locals
<1>4. \A k \in 1..Len(ws) : Round("launchContexts", 0, k) = ByIndex(array, k, item) \o body[k]
  BY RoundsAre
<1>5. res = [k \in 1..Len(ws) |-> res[k]]
  <2>1. DOMAIN ws = 1..Len(ws)
    OBVIOUS
  <2> QED
    BY <2>1
<1>6. ASSUME NEW k \in 1..Len(ws), NEW P, NEW O, P = <<"launchContexts", k>>,
             At(R, P) = ws[k], SchemaAt(S, P) = I, IsPlace(O, <<k>>),
             Ready(Where(B, item, P), item, P, Locals \ {"record", "array_size", array, item})
      PROVE  Gets(S, Y, R, Where(B, item, P), body[k],
                  Stored(O, <<k>>, launch_context_t), Stored(O, <<k>>, res[k]))
  <2>1. ws[k] \in C /\ k \in DOMAIN ws
    OBVIOUS
  <2>2. PICK M : M = Where(B, item, P)
    OBVIOUS
  <2>3. /\ Ready(M, item, P, {"args_value", "host_name_value", "name_value", "jobid_value"})
        /\ Ready(M, item, P, {"en_vars_array_size", "en_vars_array_value", "en_vars_item_value"})
    BY <1>6, <2>2 DEF Ready, Locals
  <2>4. PICK w \in C : w = ws[k]
    BY <2>1
  <2>5. res[k] = [en_vars |-> envs[k], args |-> w.args, host_name |-> w.host_name,
                  proc_name |-> w.name]
    BY <2>1, <2>4
  <2> HIDE DEF B, res
  <2>6. Gets(S, Y, R, M, EnvironmentCalls(k), Stored(O, <<k>>, launch_context_t),
             Stored(O, <<k>>, Changed(launch_context_t, "en_vars", envs[k])))
    BY <1>6, <2>3 DEF EnvironmentsGet
  <2>7. {"args", "host_name", "name"} \subseteq DOMAIN w /\ w["name"] \in ProcessNames /\ At(R, P) = w
    BY <1>6, <2>4
  <2>8. Gets(S, Y, R, M, ContextBody(k), Stored(O, <<k>>, launch_context_t),
             Stored(O, <<k>>, [en_vars |-> envs[k], args |-> w.args, host_name |-> w.host_name,
                               proc_name |-> w.name]))
    BY <1>6, <2>3, <2>6, <2>7, ContextGets
  <2> QED
    BY <2>2, <2>5, <2>8
<1>7. Parses(S, Y, R, B, array, item, "launchContexts", I, ws, body, launch_context_t, res)
  <2> HIDE DEF B, res, body
  <2> QED
    BY <1>6 DEF Parses
<1> HIDE DEF body, res, B
<1>8. Gets(S, Y, R, Fresh, ParseArray("launchContexts", array, launch_context_t), a, res)
  BY <1>3, <1>4, <1>5, <1>7, ParseArrayGets DEF B
<1> QED
  BY <1>8 DEF res

LEMMA LaunchRequestGets ==
    ASSUME NEW Y, NEW R \in [launchContexts: Seq(ContextRecords)], NEW a
    PROVE  Gets(LaunchRequest, Y, R, Fresh,
                ParseArray("launchContexts", "launchContexts_value", launch_context_t), a,
                [i \in DOMAIN R.launchContexts |->
                   [en_vars |-> R.launchContexts[i].en_vars, args |-> R.launchContexts[i].args,
                    host_name |-> R.launchContexts[i].host_name,
                    proc_name |-> R.launchContexts[i].name]])
<1>1. LaunchRequest = ArrayMessage("launchContexts", LaunchContext)
  BY ArraySchemas DEF ArrayMessage
<1>2. PICK ws \in Seq(ContextRecords) : ws = R.launchContexts
  OBVIOUS
<1>3. "launchContexts" \in DOMAIN R /\ R["launchContexts"] = ws
  BY <1>2
<1>4. \A w \in ContextRecords : /\ {"args", "host_name", "name"} \subseteq DOMAIN w /\ "en_vars" \in DOMAIN w
                          /\ w["name"] \in ProcessNames /\ w["en_vars"] \in Seq(Bytes)
  BY DEF ContextRecords
<1>5. PICK envs : envs = [i \in DOMAIN ws |-> ws[i].en_vars]
  OBVIOUS
<1>6. /\ LaunchContext.type = "record" /\ FieldSchema(LaunchContext, "args") = AvroString
      /\ FieldSchema(LaunchContext, "host_name") = AvroString
      /\ FieldSchema(LaunchContext, "name") = ProcessName
      /\ FieldSchema(LaunchContext, "en_vars") = AvroArray(AvroString)
  BY LaunchContextFields
<1>7. ASSUME NEW k \in 1..Len(ws), NEW M, NEW P, NEW O,
             IsPlace(O, <<k>>) /\ At(R, P) = ws[k] /\ SchemaAt(LaunchRequest, P) = LaunchContext
               /\ Ready(M, "launchContext_value", P,
                        {"en_vars_array_size", "en_vars_array_value", "en_vars_item_value"})
      PROVE  Gets(LaunchRequest, Y, R, M, EnvironmentCalls(k), Stored(O, <<k>>, launch_context_t),
                  Stored(O, <<k>>, Changed(launch_context_t, "en_vars", envs[k])))
  <2>1. ws[k] \in ContextRecords /\ k \in DOMAIN ws
    OBVIOUS
  <2>2. PICK w : w = At(R, P)
    OBVIOUS
  <2>3. PICK env \in Seq(Bytes) : env = w["en_vars"]
    BY <1>4, <1>7, <2>1, <2>2
  <2>4. "en_vars" \in DOMAIN w /\ envs[k] = env
    BY <1>4, <1>5, <1>7, <2>1, <2>2, <2>3
  <2>5. "en_vars" \in DOMAIN launch_context_t /\ launch_context_t = [g \in DOMAIN launch_context_t |-> launch_context_t[g]]
    BY StructsAre
  <2>6. Gets(LaunchRequest, Y, R, M, EnvironmentCalls(k), Stored(O, <<k>>, launch_context_t),
                  Stored(O, <<k>>, Changed(launch_context_t, "en_vars", env)))
    BY <1>6, <1>7, <2>2, <2>3, <2>4, <2>5, EnvironmentGets
  <2> QED
    BY <2>4, <2>6
<1>8. EnvironmentsGet(LaunchRequest, Y, R, LaunchContext, ws, envs)
  BY <1>7 DEF EnvironmentsGet
<1>9. Gets(LaunchRequest, Y, R, Fresh, ParseArray("launchContexts", "launchContexts_value", launch_context_t),
                a, [i \in DOMAIN ws |->
                      [en_vars |-> envs[i], args |-> ws[i].args, host_name |-> ws[i].host_name,
                       proc_name |-> ws[i].name]])
  BY <1>1, <1>3, <1>4, <1>6, <1>8, ContextsGet
<1>10. \A i \in DOMAIN ws : envs[i] = ws[i].en_vars
  BY <1>5
<1> QED
  BY <1>2, <1>9, <1>10

LEMMA EarlierLaunchRequestGets ==
    ASSUME NEW Y, Y \subseteq {"ok", "einval"}, "einval" \in Y,
           NEW R \in [launchContexts: Seq(EarlierContextRecords)], NEW a
    PROVE  Gets(EarlierLaunchRequest, Y, R, Fresh,
                ParseArray("launchContexts", "launchContexts_value", launch_context_t), a,
                [i \in DOMAIN R.launchContexts |->
                   [en_vars |-> <<>>, args |-> R.launchContexts[i].args,
                    host_name |-> R.launchContexts[i].host_name,
                    proc_name |-> R.launchContexts[i].name]])
<1>1. EarlierLaunchRequest = ArrayMessage("launchContexts", EarlierContext)
  BY DEF ArrayMessage, EarlierLaunchRequest, EarlierContext
<1>2. PICK ws \in Seq(EarlierContextRecords) : ws = R.launchContexts
  OBVIOUS
<1>3. "launchContexts" \in DOMAIN R /\ R["launchContexts"] = ws
  BY <1>2
<1>4. \A w \in EarlierContextRecords : /\ {"args", "host_name", "name"} \subseteq DOMAIN w
                                 /\ "en_vars" \in DOMAIN w /\ w["name"] \in ProcessNames
  BY DEF EarlierContextRecords
<1>5. PICK envs : envs = [i \in DOMAIN ws |-> <<>>]
  OBVIOUS
<1>6. /\ EarlierContext.type = "record" /\ FieldSchema(EarlierContext, "args") = AvroString
      /\ FieldSchema(EarlierContext, "host_name") = AvroString
      /\ FieldSchema(EarlierContext, "name") = ProcessName
      /\ FieldSchema(EarlierContext, "en_vars") = AvroString
  BY EarlierContextFields
<1>7. ASSUME NEW k \in 1..Len(ws), NEW M, NEW P, NEW O,
             IsPlace(O, <<k>>) /\ At(R, P) = ws[k] /\ SchemaAt(EarlierLaunchRequest, P) = EarlierContext
               /\ Ready(M, "launchContext_value", P,
                        {"en_vars_array_size", "en_vars_array_value", "en_vars_item_value"})
      PROVE  Gets(EarlierLaunchRequest, Y, R, M, EnvironmentCalls(k), Stored(O, <<k>>, launch_context_t),
                  Stored(O, <<k>>, Changed(launch_context_t, "en_vars", envs[k])))
  <2>1. ws[k] \in EarlierContextRecords /\ k \in DOMAIN ws
    OBVIOUS
  <2>2. PICK w : w = At(R, P)
    OBVIOUS
  <2>3. Ready(M, "launchContext_value", P, {"en_vars_array_size", "en_vars_array_value"})
    BY <1>7 DEF Ready
  <2>4. "en_vars" \in DOMAIN w /\ envs[k] = <<>>
    BY <1>4, <1>5, <1>7, <2>1, <2>2
  <2>5. "en_vars" \in DOMAIN launch_context_t /\ launch_context_t = [g \in DOMAIN launch_context_t |-> launch_context_t[g]]
    BY StructsAre
  <2>6. Gets(EarlierLaunchRequest, Y, R, M, EnvironmentCalls(k), Stored(O, <<k>>, launch_context_t),
                  Stored(O, <<k>>, Changed(launch_context_t, "en_vars", <<>>)))
    BY <1>6, <1>7, <2>2, <2>3, <2>4, <2>5, EarlierEnvironmentGets
  <2> QED
    BY <2>4, <2>6
<1>8. EnvironmentsGet(EarlierLaunchRequest, Y, R, EarlierContext, ws, envs)
  BY <1>7 DEF EnvironmentsGet
<1>9. Gets(EarlierLaunchRequest, Y, R, Fresh, ParseArray("launchContexts", "launchContexts_value", launch_context_t),
                a, [i \in DOMAIN ws |->
                      [en_vars |-> envs[i], args |-> ws[i].args, host_name |-> ws[i].host_name,
                       proc_name |-> ws[i].name]])
  BY <1>1, <1>3, <1>4, <1>6, <1>8, ContextsGet
<1>10. \A i \in DOMAIN ws : envs[i] = <<>>
  BY <1>5
<1> QED
  BY <1>2, <1>9, <1>10

\* The whole record is a place, and so are its fields.
LEMMA FieldGets ==
    ASSUME NEW S, S.type = "record", NEW Y, NEW R, NEW c \in Locals \ {"record"},
           NEW f \in Keys, f \in DOMAIN R,
           NEW type, type = FieldSchema(S, f).type, type \in DOMAIN Getters,
           NEW get \in Getters[type],
           NEW e, e = [h \in DOMAIN e |-> e[h]], NEW g \in Keys, g \in DOMAIN e,
           NEW y, y = Converted(get, <<g>>, R[f])
    PROVE  Gets(S, Y, R, Fresh, GetField("record", f, c, get, <<g>>), e, Changed(e, g, y))
<1>1. PICK P, J : P = <<>> /\ J = <<g>>
  OBVIOUS
<1>2. IsPlace(e, P) /\ \A x : Stored(e, P, x) = x
  BY <1>1, WholeIsPlace
<1>3. Frees(Fresh, "record", P, c)
  BY <1>1, FreshFrees
<1>4. SchemaAt(S, P) = S /\ At(R, P) = R /\ Append(P, g) = J
  BY <1>1, Deeper
<1>5. PICK z : z = Converted(get, J, R[f])
  OBVIOUS
<1>6. Gets(S, Y, R, Fresh, GetField("record", f, c, get, Append(P, g)), Stored(e, P, e),
           Stored(e, P, Changed(e, g, Converted(get, Append(P, g), R[f]))))
  BY <1>2, <1>3, <1>4, GetFieldGets
<1>7. Gets(S, Y, R, Fresh, GetField("record", f, c, get, J), Stored(e, P, e),
           Stored(e, P, Changed(e, g, z)))
  BY <1>4, <1>5, <1>6
<1>8. Gets(S, Y, R, Fresh, GetField("record", f, c, get, J), e, Changed(e, g, z))
  BY <1>2, <1>7
<1> QED
  BY <1>1, <1>5, <1>8

LEMMA AllocateRequestGets ==
    ASSUME NEW Y, NEW R \in [resource_count: Int], NEW a
    PROVE  Gets(AllocateRequest, Y, R, Fresh,
                GetField("record", "resource_count", "field_value", "get_int", <<>>), a,
                R.resource_count)
<1> DEFINE Q == Append(<<>>, "resource_count")
           N == Where(Fresh, "field_value", Q)
           call == <<[op |-> "get_int", on |-> "field_value", to |-> <<>>]>>
<1>1. /\ AllocateRequest.type = "record"
      /\ FieldSchema(AllocateRequest, "resource_count") = AvroInt
      /\ New(AllocateRequest) = [x \in {"resource_count"} |-> New_1(FieldSchema(AllocateRequest, x))]
  BY OneFieldRecord DEF AllocateRequest
<1>2. /\ "resource_count" \in Keys /\ "field_value" \in Locals \ {"record"}
      /\ "resource_count" \in DOMAIN R
  BY DEF Keys, Locals
<1>3. Frees(Fresh, "record", <<>>, "field_value")
  BY <1>2, FreshFrees
<1>4. SchemaAt(AllocateRequest, <<>>) = AllocateRequest /\ At(R, <<>>) = R
  BY Deeper
<1>5. Q \in Places /\ SchemaAt(AllocateRequest, Q) = AvroInt /\ At(R, Q) = R.resource_count
  <2>1. PICK P, f : P = <<>> /\ f = "resource_count"
    OBVIOUS
  <2>2. P \in Places /\ f \in Keys
    BY <1>2, <2>1, Deeper
  <2>3. /\ Append(P, f) \in Places
        /\ SchemaAt(AllocateRequest, Append(P, f)) = Inside(SchemaAt(AllocateRequest, P), f)
        /\ At(R, Append(P, f)) = At(R, P)[f]
    BY <2>2, Deeper
  <2>4. Q = Append(P, f)
    BY <2>1
  <2>5. Inside(AllocateRequest, f) = AvroInt
    BY <1>1, <2>1 DEF Inside
  <2> HIDE DEF Q
  <2> QED
    BY <1>4, <2>1, <2>3, <2>4, <2>5
<1>6. /\ SchemaAt(AllocateRequest, Q).type \in DOMAIN Getters
      /\ "get_int" \in Getters[SchemaAt(AllocateRequest, Q).type]
      /\ \A l \in N : l["field_value"] = Q
  BY <1>5, TypesOf, GettersOf DEF Where
<1>7. Converted("get_int", <<>>, At(R, Q)) = R.resource_count
  BY <1>5, ConvertedIs
<1> HIDE DEF Q, N
<1>8. Gets(AllocateRequest, Y, R, N, call, a, Stored(a, <<>>, Converted("get_int", <<>>, At(R, Q))))
  BY <1>5, <1>6, GetGets
<1>9. Stored(a, <<>>, Converted("get_int", <<>>, At(R, Q))) = R.resource_count
  BY <1>7, StoredWhole
<1> HIDE DEF call
<1>10. Gets(AllocateRequest, Y, R, N, call, a, R.resource_count)
  BY <1>8, <1>9
<1>11. SchemaAt(AllocateRequest, <<>>).type = "record" /\ "resource_count" \in DOMAIN At(R, <<>>)
  BY <1>1, <1>2, <1>4
<1>12. Gets(AllocateRequest, Y, R, Fresh, ByName("record", "resource_count", "field_value") \o call,
            a, R.resource_count)
  BY <1>2, <1>3, <1>10, <1>11, ByNameGets DEF N, Q
<1> QED
  BY <1>12 DEF GetField, call

LEMMA FinishRequestGets ==
    ASSUME NEW Y, NEW R \in [succeed: BOOLEAN, diagnostics: Bytes]
    PROVE  Gets(FinishRequest, Y, R, Fresh,
                GetField("record", "succeed", "succeed_value", "get_boolean", <<"succeed">>)
                \o GetField("record", "diagnostics", "diag_value", "get_string", <<"diagnostics">>),
                [succeed |-> Garbage, diagnostics |-> Garbage], R)
<1> DEFINE e0 == [succeed |-> Garbage, diagnostics |-> Garbage]
           e1 == Changed(e0, "succeed", R["succeed"])
           e2 == Changed(e1, "diagnostics", R["diagnostics"])
           F == {"succeed", "diagnostics"}
<1>1. /\ FinishRequest.type = "record"
      /\ FieldSchema(FinishRequest, "succeed") = AvroBoolean
      /\ FieldSchema(FinishRequest, "diagnostics") = AvroString
      /\ New(FinishRequest) = [x \in F |-> New_1(FieldSchema(FinishRequest, x))]
  BY TwoFieldRecord DEF FinishRequest
<1>2. e0 = [g \in DOMAIN e0 |-> e0[g]] /\ DOMAIN e0 = F
  OBVIOUS
<1>3. DOMAIN R = F /\ R = [g \in F |-> R[g]]
  OBVIOUS
<1> HIDE DEF e0
<1>4. e1 = [g \in DOMAIN e1 |-> e1[g]] /\ DOMAIN e1 = F /\ e1["succeed"] = R["succeed"]
  BY <1>2, ChangedIs
<1> HIDE DEF e1
<1>5. e2 = R
  <2>1. /\ e2 = [g \in DOMAIN e2 |-> e2[g]] /\ DOMAIN e2 = F
        /\ e2["succeed"] = R["succeed"] /\ e2["diagnostics"] = R["diagnostics"]
    BY <1>4, ChangedIs
  <2> HIDE DEF e2
  <2> QED
    BY <1>3, <2>1
<1> HIDE DEF e2
<1>6. {"succeed", "diagnostics"} \subseteq Keys /\ {"succeed_value", "diag_value"} \subseteq Locals \ {"record"}
  BY DEF Keys, Locals
<1>7. Gets(FinishRequest, Y, R, Fresh,
           GetField("record", "succeed", "succeed_value", "get_boolean", <<"succeed">>), e0, e1)
  BY <1>1, <1>2, <1>3, <1>6, TypesOf, GettersOf, ConvertedIs, FieldGets DEF e1
<1>8. Gets(FinishRequest, Y, R, Fresh,
           GetField("record", "diagnostics", "diag_value", "get_string", <<"diagnostics">>), e1, e2)
  BY <1>1, <1>3, <1>4, <1>6, TypesOf, GettersOf, ConvertedIs, FieldGets DEF e2
<1> QED
  BY <1>5, <1>7, <1>8, GetsBoth DEF e0

LEMMA WrapperGets ==
    ASSUME NEW Y, NEW R \in [request: Bytes, msg_type: Int]
    PROVE  Gets(HamsterHnpRequest, Y, R, Fresh,
                GetField("record", "request", "request_value", "get_bytes", <<"inner">>)
                \o GetField("record", "msg_type", "msg_type_value", "get_enum", <<"msg_type">>),
                [inner |-> Garbage, msg_type |-> Garbage],
                [inner |-> R.request, msg_type |-> NameOf(msg_type_enum_t, R.msg_type)])
<1> DEFINE type == NameOf(msg_type_enum_t, R.msg_type)
           e0 == [inner |-> Garbage, msg_type |-> Garbage]
           e1 == Changed(e0, "inner", R["request"])
           e2 == Changed(e1, "msg_type", type)
           F == {"inner", "msg_type"}
<1>1. /\ HamsterHnpRequest.type = "record"
      /\ FieldSchema(HamsterHnpRequest, "request") = AvroBytes
      /\ FieldSchema(HamsterHnpRequest, "msg_type") = AvroEnum(MsgTypeSymbols)
      /\ New(HamsterHnpRequest) = [x \in {"request", "msg_type"} |->
                                     New_1(FieldSchema(HamsterHnpRequest, x))]
  BY TwoFieldRecord DEF HamsterHnpRequest
<1>2. e0 = [g \in DOMAIN e0 |-> e0[g]] /\ DOMAIN e0 = F
  OBVIOUS
<1>3. DOMAIN R = {"request", "msg_type"}
  OBVIOUS
<1>9. type = Converted("get_enum", <<"msg_type">>, R["msg_type"])
  BY DEF Converted, Last
<1> HIDE DEF e0, type
<1>4. e1 = [g \in DOMAIN e1 |-> e1[g]] /\ DOMAIN e1 = F /\ e1["inner"] = R["request"]
  BY <1>2, ChangedIs
<1> HIDE DEF e1
<1>5. e2 = [inner |-> R.request, msg_type |-> type]
  <2>1. /\ e2 = [g \in DOMAIN e2 |-> e2[g]] /\ DOMAIN e2 = F
        /\ e2["inner"] = R["request"] /\ e2["msg_type"] = type
    BY <1>4, ChangedIs
  <2> HIDE DEF e2
  <2> QED
    BY <1>3, <2>1
<1> HIDE DEF e2
<1>6. /\ {"request", "msg_type", "inner"} \subseteq Keys
      /\ {"request_value", "msg_type_value"} \subseteq Locals \ {"record"}
  BY DEF Keys, Locals
<1>7. Gets(HamsterHnpRequest, Y, R, Fresh,
           GetField("record", "request", "request_value", "get_bytes", <<"inner">>), e0, e1)
  BY <1>1, <1>2, <1>3, <1>6, TypesOf, GettersOf, ConvertedIs, FieldGets DEF e1
<1>8. Gets(HamsterHnpRequest, Y, R, Fresh,
           GetField("record", "msg_type", "msg_type_value", "get_enum", <<"msg_type">>), e1, e2)
  BY <1>1, <1>3, <1>4, <1>6, <1>9, TypesOf, GettersOf, FieldGets DEF e2
<1> QED
  BY <1>5, <1>7, <1>8, GetsBoth DEF e0, type

LEMMA PersonGets ==
    ASSUME NEW Y, NEW R \in [height: Int, weight: Int, name: Bytes]
    PROVE  Gets(Person, Y, R, Fresh,
                GetField("record", "name", "name_value", "get_string", <<"name">>)
                \o GetField("record", "height", "height_value", "get_long", <<"height">>)
                \o GetField("record", "weight", "weight_value", "get_long", <<"weight">>),
                [name |-> Garbage, height |-> Garbage, weight |-> Garbage], R)
<1> DEFINE e0 == [name |-> Garbage, height |-> Garbage, weight |-> Garbage]
           e1 == Changed(e0, "name", R["name"])
           e2 == Changed(e1, "height", R["height"])
           e3 == Changed(e2, "weight", R["weight"])
           F == {"height", "weight", "name"}
<1>1. /\ Person.type = "record"
      /\ FieldSchema(Person, "name") = AvroString
      /\ FieldSchema(Person, "weight") = AvroLong
      /\ FieldSchema(Person, "height") = AvroLong
      /\ New(Person) = [x \in {"height", "weight", "name"} |-> New_1(FieldSchema(Person, x))]
  BY ThreeFieldRecord DEF Person
<1>2. e0 = [g \in DOMAIN e0 |-> e0[g]] /\ DOMAIN e0 = F
  OBVIOUS
<1>3. DOMAIN R = F /\ R = [g \in F |-> R[g]]
  OBVIOUS
<1> HIDE DEF e0
<1>4. e1 = [g \in DOMAIN e1 |-> e1[g]] /\ DOMAIN e1 = F /\ e1["name"] = R["name"]
  BY <1>2, ChangedIs
<1> HIDE DEF e1
<1>5. /\ e2 = [g \in DOMAIN e2 |-> e2[g]] /\ DOMAIN e2 = F
      /\ e2["name"] = R["name"] /\ e2["height"] = R["height"]
  BY <1>4, ChangedIs
<1> HIDE DEF e2
<1>6. e3 = R
  <2>1. /\ e3 = [g \in DOMAIN e3 |-> e3[g]] /\ DOMAIN e3 = F
        /\ e3["name"] = R["name"] /\ e3["height"] = R["height"] /\ e3["weight"] = R["weight"]
    BY <1>5, ChangedIs
  <2> HIDE DEF e3
  <2> QED
    BY <1>3, <2>1
<1> HIDE DEF e3
<1>7. /\ {"height", "weight", "name"} \subseteq Keys
      /\ {"name_value", "height_value", "weight_value"} \subseteq Locals \ {"record"}
  BY DEF Keys, Locals
<1>8. Gets(Person, Y, R, Fresh, GetField("record", "name", "name_value", "get_string", <<"name">>), e0, e1)
  <2>1. /\ "name" \in DOMAIN e0 /\ "name" \in DOMAIN R
        /\ "name" \in Keys /\ "name_value" \in Locals \ {"record"}
    BY <1>2, <1>3, <1>7
  <2>2. PICK type : type = FieldSchema(Person, "name").type
    OBVIOUS
  <2>3. type \in DOMAIN Getters /\ "get_string" \in Getters[type]
    BY <1>1, <2>2, TypesOf, GettersOf
  <2>4. R["name"] = Converted("get_string", <<"name">>, R["name"])
    BY ConvertedIs
  <2> QED
    BY <1>1, <1>2, <2>1, <2>2, <2>3, <2>4, FieldGets DEF e1
<1>9. Gets(Person, Y, R, Fresh, GetField("record", "height", "height_value", "get_long", <<"height">>), e1, e2)
  <2>1. /\ "height" \in DOMAIN e1 /\ "height" \in DOMAIN R
        /\ "height" \in Keys /\ "height_value" \in Locals \ {"record"}
    BY <1>3, <1>4, <1>7
  <2>2. PICK type : type = FieldSchema(Person, "height").type
    OBVIOUS
  <2>3. type \in DOMAIN Getters /\ "get_long" \in Getters[type]
    BY <1>1, <2>2, TypesOf, GettersOf
  <2>4. R["height"] = Converted("get_long", <<"height">>, R["height"])
    BY ConvertedIs
  <2> QED
    BY <1>1, <1>4, <2>1, <2>2, <2>3, <2>4, FieldGets DEF e2
<1>10. Gets(Person, Y, R, Fresh, GetField("record", "weight", "weight_value", "get_long", <<"weight">>), e2, e3)
  <2>1. /\ e2 = [g \in DOMAIN e2 |-> e2[g]] /\ "weight" \in DOMAIN e2 /\ "weight" \in DOMAIN R
        /\ "weight" \in Keys /\ "weight_value" \in Locals \ {"record"}
    BY <1>3, <1>5, <1>7
  <2>2. PICK type : type = FieldSchema(Person, "weight").type
    OBVIOUS
  <2>3. type \in DOMAIN Getters /\ "get_long" \in Getters[type]
    BY <1>1, <2>2, TypesOf, GettersOf
  <2>4. R["weight"] = Converted("get_long", <<"weight">>, R["weight"])
    BY ConvertedIs
  <2> QED
    BY <1>1, <2>1, <2>2, <2>3, <2>4, FieldGets DEF e3
<1>11. Gets(Person, Y, R, Fresh,
            GetField("record", "name", "name_value", "get_string", <<"name">>)
            \o GetField("record", "height", "height_value", "get_long", <<"height">>), e0, e2)
  BY <1>8, <1>9, GetsBoth
<1> QED
  BY <1>6, <1>10, <1>11, GetsBoth DEF e0

\* A message of one null field: its size, turned into a status.
LEMMA StatusCallsGet ==
    ASSUME NEW S, S.type = "record", NEW Y, NEW R, NEW n \in Nat, Cardinality(DOMAIN R) = n, NEW a
    PROVE  Gets(S, Y, R, Fresh, StatusCalls, a, IF n = 0 THEN 0 ELSE -1)
<1> DEFINE call == [op |-> "return", on |-> "size"]
           N == Where(Fresh, "size", n)
           b == IF n = 0 THEN 0 ELSE -1
           zs == Zero("size")
           ss == Size("record", "size")
<1>1. "size" \in Locals \ {"record"} /\ n # Garbage
  BY GarbageAssumption DEF Locals
<1>2. Frees(Fresh, "record", <<>>, "size")
  BY <1>1, FreshFrees
<1>3. SchemaAt(S, <<>>) = S /\ At(R, <<>>) = R
  BY Deeper
<1>4. call.op = "return" /\ call.on = "size" /\ StatusCalls = (zs \o ss) \o <<call>>
  BY DEF StatusCalls, Return
<1>5. IsList(zs) /\ IsList(ss) /\ IsList(<<call>>)
  BY Lists DEF Zero, Size
<1> HIDE DEF call, N, b
<1>6. ASSUME NEW l \in N, NEW x
      PROVE  Did(S, call, State(l, R, a, x), State(l, R, b, x))
  <2> DEFINE s == State(l, R, a, x)
  <2>1. s.locals = l /\ s.record = R /\ s.out = a /\ s.status = x /\ l["size"] = n
    BY DEF State, N, Where
  <2> HIDE DEF s
  <2>2. b = IF Accepts(s.locals[call.on]) THEN 0 ELSE -1
    BY <1>4, <2>1 DEF b, Accepts
  <2>3. Did(S, call, s, State(l, R, b, x))
    BY <1>1, <1>4, <2>1, <2>2 DEF Did
  <2> QED
    BY <2>3 DEF s
<1>7. Gets(S, Y, R, N, <<call>>, a, b)
  BY <1>6, PutsGets DEF Puts
<1>8. SchemaAt(S, <<>>).type \in {"record", "array"} /\ Cardinality(DOMAIN At(R, <<>>)) = n
  BY <1>3
<1>9. Gets(S, Y, R, Fresh, ss \o <<call>>, a, b)
  BY <1>2, <1>7, <1>8, SizeGets DEF N
<1>10. Gets(S, Y, R, Fresh, zs, a, a)
  BY <1>2, ZeroKeeps
<1>11. (zs \o ss) \o <<call>> = zs \o (ss \o <<call>>)
  <2>1. \A p, q, s : IsList(p) /\ IsList(q) /\ IsList(s) => (p \o q) \o s = p \o (q \o s)
    BY Lists
  <2>2. PICK z, s, r : z = zs /\ s = ss /\ r = <<call>>
    OBVIOUS
  <2>3. (z \o s) \o r = z \o (s \o r)
    <3>1. IsList(z) /\ IsList(s) /\ IsList(r)
      BY <1>5, <2>2
    <3> QED
      BY <2>1, <3>1
  <2> QED
    BY <2>2, <2>3
<1> HIDE DEF zs, ss
<1>12. Gets(S, Y, R, Fresh, zs \o (ss \o <<call>>), a, b)
  BY <1>9, <1>10, GetsBoth
<1> QED
  BY <1>4, <1>11, <1>12 DEF b

-----------------------------------------------------------------------------
(* Whole parsers.                                                            *)

LEMMA ReadHas ==
    ASSUME NEW S, NEW V, HasValues(S, V), NEW b \in Bytes, Read(S, b).ok
    PROVE  Read(S, b).value \in V
<1>1. IsSchema(S) /\ \A v : IsValue(S, v) => v \in V
  BY DEF HasValues
<1>2. Decode(S, b).ok /\ Read(S, b).value = Decode(S, b).value
  BY DEF Read
<1>3. IsValue(S, Decode(S, b).value)
  BY <1>1, <1>2, DecodingIsValue
<1> QED
  BY <1>1, <1>2, <1>3

\* What a parser that has read R with schema S stores for its caller.
Outcome(S, R) ==
    CASE form = "LAUNCH" ->
           [i \in DOMAIN R.launchContexts |->
              [en_vars |-> IF S = LaunchRequest THEN R.launchContexts[i].en_vars ELSE <<>>,
               args |-> R.launchContexts[i].args, host_name |-> R.launchContexts[i].host_name,
               proc_name |-> R.launchContexts[i].name]]
      [] form = "AllocateResponse" ->
           [i \in DOMAIN R.node_resources |->
              [host_name |-> R.node_resources[i].host_name,
               slot_num |-> R.node_resources[i].slot]]
      [] form = "LaunchResponse" ->
           [i \in DOMAIN R.results |->
              [is_successful |-> R.results[i].is_successful, proc_name |-> R.results[i].name]]
      [] form = "HeartBeatResponse" ->
           [i \in DOMAIN R.completed_processes |->
              [proc_name |-> R.completed_processes[i].name,
               proc_state |-> NameOf(process_state_enum_t, R.completed_processes[i].state),
               exit_value |-> R.completed_processes[i].exit_value]]
      [] form = "ALLOCATE" -> R.resource_count
      [] form \in {"FINISH", "person"} -> R
      [] form = "wrapper" ->
           [inner |-> R.request, msg_type |-> NameOf(msg_type_enum_t, R.msg_type)]
      [] OTHER -> IF S = NoFields THEN 0 ELSE -1

\* The status a parser may end with: no call fails with the schema in use.
Endings(S) == IF S = Schema[form] THEN {"ok"} ELSE {"ok", "einval"}

LEMMA LaunchSchemasDiffer == LaunchRequest # EarlierLaunchRequest
<1>1. /\ LaunchRequest = ArrayMessage("launchContexts", LaunchContext)
      /\ EarlierLaunchRequest = ArrayMessage("launchContexts", EarlierContext)
  BY ArraySchemas DEF ArrayMessage, EarlierLaunchRequest, EarlierContext
<1>2. PICK S, T : S = LaunchRequest /\ T = EarlierLaunchRequest
  OBVIOUS
<1>3. /\ FieldSchema(S, "launchContexts") = AvroArray(LaunchContext)
      /\ FieldSchema(T, "launchContexts") = AvroArray(EarlierContext)
  BY <1>1, <1>2, ArrayMessageFields
<1>4. AvroArray(LaunchContext).items = LaunchContext /\ AvroArray(EarlierContext).items = EarlierContext
  BY TypesOf
<1>5. FieldSchema(LaunchContext, "en_vars").type = "array" /\ FieldSchema(EarlierContext, "en_vars").type = "string"
  BY LaunchContextFields, EarlierContextFields, TypesOf
<1> QED
  BY <1>2, <1>3, <1>4, <1>5

\* Whatever bytes it is given, a parser stores what its caller is meant to get
\* of the record that was read.
LEMMA ParserGets ==
    ASSUME form \in Forms, NEW S \in {Schema[form]} \cup Earlier(form),
           NEW b \in Bytes, Read(S, b).ok, NEW R, R = Read(S, b).value
    PROVE  Gets(S, Endings(S), R, Fresh, ParserCalls, Unset, Outcome(S, R))
<1>1. CASE form = "ALLOCATE"
  <2>1. S = AllocateRequest
    BY <1>1 DEF Schema, Earlier
  <2>2. R \in [resource_count: Int]
    BY <2>1, AllocateRequestHas, ReadHas
  <2>3. /\ ParserCalls = GetField("record", "resource_count", "field_value", "get_int", <<>>)
        /\ Outcome(S, R) = R.resource_count
    BY <1>1 DEF ParserCalls, Outcome
  <2> QED
    BY <2>1, <2>2, <2>3, AllocateRequestGets
<1>2. CASE form = "FINISH"
  <2>1. S = FinishRequest
    BY <1>2 DEF Schema, Earlier
  <2>2. R \in [succeed: BOOLEAN, diagnostics: Bytes]
    BY <2>1, FinishRequestHas, ReadHas
  <2>3. /\ ParserCalls = GetField("record", "succeed", "succeed_value", "get_boolean", <<"succeed">>)
             \o GetField("record", "diagnostics", "diag_value", "get_string", <<"diagnostics">>)
        /\ Outcome(S, R) = R /\ Unset = [succeed |-> Garbage, diagnostics |-> Garbage]
    BY <1>2 DEF ParserCalls, Outcome, Unset
  <2> QED
    BY <2>1, <2>2, <2>3, FinishRequestGets
<1>3. CASE form = "wrapper"
  <2>1. S = HamsterHnpRequest
    BY <1>3 DEF Schema, Earlier
  <2>2. R \in [request: Bytes, msg_type: Int]
    BY <2>1, HamsterHnpRequestHas, ReadHas
  <2>3. /\ ParserCalls = GetField("record", "request", "request_value", "get_bytes", <<"inner">>)
             \o GetField("record", "msg_type", "msg_type_value", "get_enum", <<"msg_type">>)
        /\ Outcome(S, R) = [inner |-> R.request, msg_type |-> NameOf(msg_type_enum_t, R.msg_type)]
        /\ Unset = [inner |-> Garbage, msg_type |-> Garbage]
    BY <1>3 DEF ParserCalls, Outcome, Unset
  <2> QED
    BY <2>1, <2>2, <2>3, WrapperGets
<1>4. CASE form = "person"
  <2>1. S = Person
    BY <1>4 DEF Schema, Earlier
  <2>2. R \in [height: Int, weight: Int, name: Bytes]
    BY <2>1, PersonHas, ReadHas
  <2>3. /\ ParserCalls = GetField("record", "name", "name_value", "get_string", <<"name">>)
             \o GetField("record", "height", "height_value", "get_long", <<"height">>)
             \o GetField("record", "weight", "weight_value", "get_long", <<"weight">>)
        /\ Outcome(S, R) = R
        /\ Unset = [name |-> Garbage, height |-> Garbage, weight |-> Garbage]
    BY <1>4 DEF ParserCalls, Outcome, Unset
  <2> QED
    BY <2>1, <2>2, <2>3, PersonGets
<1>5. CASE form = "AllocateResponse"
  <2>1. S = AllocateResponse
    BY <1>5 DEF Schema, Earlier
  <2>2. R \in [node_resources: Seq(Nodes)]
    BY <2>1, AllocateResponseHas, ReadHas
  <2>3. /\ ParserCalls = ParseArray("node_resources", "node_resources_value", node_resource_t)
        /\ Outcome(S, R) = [i \in DOMAIN R.node_resources |->
              [host_name |-> R.node_resources[i].host_name,
               slot_num |-> R.node_resources[i].slot]]
    BY <1>5 DEF ParserCalls, Outcome
  <2> QED
    BY <2>1, <2>2, <2>3, AllocateResponseGets
<1>6. CASE form = "LaunchResponse"
  <2>1. S = LaunchResponse
    BY <1>6 DEF Schema, Earlier
  <2>2. R \in [results: Seq(Results)]
    BY <2>1, LaunchResponseHas, ReadHas
  <2>3. /\ ParserCalls = ParseArray("results", "results_value", launch_response_t)
        /\ Outcome(S, R) = [i \in DOMAIN R.results |->
              [is_successful |-> R.results[i].is_successful, proc_name |-> R.results[i].name]]
    BY <1>6 DEF ParserCalls, Outcome
  <2> QED
    BY <2>1, <2>2, <2>3, LaunchResponseGets
<1>7. CASE form = "HeartBeatResponse"
  <2>1. S = HeartBeatResponse
    BY <1>7 DEF Schema, Earlier
  <2>2. R \in [completed_processes: Seq(Statuses)]
    BY <2>1, HeartBeatResponseHas, ReadHas
  <2>3. /\ ParserCalls = ParseArray("completed_processes", "completed_processes_value", completed_proc_t)
        /\ Outcome(S, R) = [i \in DOMAIN R.completed_processes |->
              [proc_name |-> R.completed_processes[i].name,
               proc_state |-> NameOf(process_state_enum_t, R.completed_processes[i].state),
               exit_value |-> R.completed_processes[i].exit_value]]
    BY <1>7 DEF ParserCalls, Outcome
  <2> QED
    BY <2>1, <2>2, <2>3, HeartBeatResponseGets
<1>8. CASE form = "LAUNCH"
  <2>1. /\ S \in {LaunchRequest, EarlierLaunchRequest} /\ Schema[form] = LaunchRequest
        /\ ParserCalls = ParseArray("launchContexts", "launchContexts_value", launch_context_t)
        /\ Outcome(S, R) = [i \in DOMAIN R.launchContexts |->
              [en_vars |-> IF S = LaunchRequest THEN R.launchContexts[i].en_vars ELSE <<>>,
               args |-> R.launchContexts[i].args, host_name |-> R.launchContexts[i].host_name,
               proc_name |-> R.launchContexts[i].name]]
    BY <1>8 DEF Schema, Earlier, ParserCalls, Outcome
  <2>2. CASE S = LaunchRequest
    <3>1. R \in [launchContexts: Seq(ContextRecords)]
      BY <2>2, LaunchRequestHas, ReadHas
    <3>2. Gets(LaunchRequest, Endings(S), R, Fresh,
                ParseArray("launchContexts", "launchContexts_value", launch_context_t), Unset,
                [i \in DOMAIN R.launchContexts |->
                   [en_vars |-> R.launchContexts[i].en_vars, args |-> R.launchContexts[i].args,
                    host_name |-> R.launchContexts[i].host_name,
                    proc_name |-> R.launchContexts[i].name]])
      BY <3>1, LaunchRequestGets
    <3> QED
      BY <2>1, <2>2, <3>2
  <2>3. CASE S = EarlierLaunchRequest
    <3>1. R \in [launchContexts: Seq(EarlierContextRecords)]
      BY <2>3, EarlierRequestHas, ReadHas
    <3>2. S # LaunchRequest /\ Endings(S) = {"ok", "einval"}
      BY <2>1, <2>3, LaunchSchemasDiffer DEF Endings
    <3>3. Gets(EarlierLaunchRequest, Endings(S), R, Fresh,
                ParseArray("launchContexts", "launchContexts_value", launch_context_t), Unset,
                [i \in DOMAIN R.launchContexts |->
                   [en_vars |-> <<>>, args |-> R.launchContexts[i].args,
                    host_name |-> R.launchContexts[i].host_name,
                    proc_name |-> R.launchContexts[i].name]])
      BY <3>1, <3>2, EarlierLaunchRequestGets
    <3> QED
      BY <2>1, <2>3, <3>2, <3>3
  <2> QED
    BY <2>1, <2>2, <2>3
<1>9. CASE form \in StatusForms
  <2>1. S \in {Schema[form], NoFields}
    BY <1>9, StatusFormsAre
  <2>2. S.type = "record" /\ Cardinality(DOMAIN R) = FieldCount(S)
    BY <1>9, <2>1, SizeRead
  <2>3. FieldCount(S) \in Nat /\ (FieldCount(S) = 0 <=> S = NoFields)
    BY DEF FieldCount
  <2>4. Gets(S, Endings(S), R, Fresh, StatusCalls, Unset, IF FieldCount(S) = 0 THEN 0 ELSE -1)
    BY <2>2, <2>3, StatusCallsGet
  <2>5. ParserCalls = StatusCalls
    BY <1>9, StatusCallsAre
  <2>6. Outcome(S, R) = IF S = NoFields THEN 0 ELSE -1
    BY <1>9 DEF Outcome, StatusForms
  <2> QED
    BY <2>3, <2>4, <2>5, <2>6
<1> QED
  BY <1>1, <1>2, <1>3, <1>4, <1>5, <1>6, <1>7, <1>8, <1>9 DEF Forms, Requests, Responses, StatusForms

\* With the schema in use, that is what Codec says.
LEMMA OutcomeIsParsed ==
    ASSUME form \in Forms, NEW b \in Bytes, NEW S, S = Schema[form], Read(S, b).ok
    PROVE  Parsed(b) = [ok |-> TRUE, result |-> Outcome(S, Read(S, b).value)]
<1>1. CASE form = "ALLOCATE"
  BY <1>1 DEF Schema, Outcome, Parsed, parse_allocate_request, Parse
<1>2. CASE form = "FINISH"
  BY <1>2 DEF Schema, Outcome, Parsed, parse_finish_request, Parse
<1>3. CASE form = "wrapper"
  BY <1>3 DEF Schema, Outcome, Parsed, parse_hnp_request_wrapper, Parse
<1>4. CASE form = "person"
  <2>1. S = Person
    BY <1>4 DEF Schema
  <2>2. PICK R : R = Read(S, b).value
    OBVIOUS
  <2>3. R \in [height: Int, weight: Int, name: Bytes]
    BY <2>1, <2>2, PersonHas, ReadHas
  <2>4. R = [name |-> R.name, height |-> R.height, weight |-> R.weight]
    BY <2>3
  <2>5. Outcome(S, R) = R
    BY <1>4 DEF Outcome
  <2>6. Parsed(b) = [ok |-> TRUE, result |-> [name |-> R.name, height |-> R.height, weight |-> R.weight]]
    BY <1>4, <2>1, <2>2 DEF Parsed, parse_person, Parse
  <2> QED
    BY <2>2, <2>4, <2>5, <2>6
<1>5. CASE form = "AllocateResponse"
  BY <1>5 DEF Schema, Outcome, Parsed, parse_allocate_response, Parse
<1>6. CASE form = "LaunchResponse"
  BY <1>6 DEF Schema, Outcome, Parsed, parse_launch_response, Parse
<1>7. CASE form = "HeartBeatResponse"
  BY <1>7 DEF Schema, Outcome, Parsed, parse_heartbeat_response, Parse
<1>8. CASE form = "LAUNCH"
  BY <1>8 DEF Schema, Outcome, Parsed, parse_launch_request, Parse
<1>9. CASE form \in StatusForms
  <2>1. \E f : S = AvroRecord(<< <<f, AvroNull>> >>)
    <3>1. CASE form = "REGISTER"
      BY <3>1 DEF Schema, RegisterRequest
    <3>2. CASE form = "HEARTBEAT"
      BY <3>2 DEF Schema, HeartBeatRequest
    <3>3. CASE form = "RegisterResponse"
      BY <3>3 DEF Schema, RegisterResponse
    <3>4. CASE form = "FinishResponse"
      BY <3>4 DEF Schema, FinishResponse
    <3> QED
      BY <1>9, <3>1, <3>2, <3>3, <3>4 DEF StatusForms
  <2>2. Len(S.fields) = 1 /\ S # NoFields
    <3>1. PICK f : S = AvroRecord(<< <<f, AvroNull>> >>)
      BY <2>1
    <3>2. S.fields = << <<f, AvroNull>> >> /\ NoFields.fields = <<>>
      BY <3>1 DEF AvroRecord, NoFields
    <3>3. \A x : << x >> # <<>> /\ Len(<< x >>) = 1
      OBVIOUS
    <3> QED
      BY <3>2, <3>3
  <2>3. Status(S) = -1
    BY <2>2 DEF Status
  <2>4. Outcome(S, Read(S, b).value) = -1
    BY <1>9, <2>2 DEF Outcome, StatusForms
  <2>5. CASE form = "REGISTER"
    BY <2>3, <2>4, <2>5 DEF Schema, Parsed, parse_register_request, Parse
  <2>6. CASE form = "HEARTBEAT"
    BY <2>3, <2>4, <2>6 DEF Schema, Parsed, parse_heartbeat_request, Parse
  <2>7. CASE form = "RegisterResponse"
    BY <2>3, <2>4, <2>7 DEF Schema, Parsed, parse_register_response, Parse
  <2>8. CASE form = "FinishResponse"
    BY <2>3, <2>4, <2>8 DEF Schema, Parsed, parse_finish_response, Parse
  <2> QED
    BY <1>9, <2>5, <2>6, <2>7, <2>8 DEF StatusForms
<1> QED
  BY <1>1, <1>2, <1>3, <1>4, <1>5, <1>6, <1>7, <1>8, <1>9 DEF Forms, Requests, Responses, StatusForms

-----------------------------------------------------------------------------
(* The message that is handed over.                                          *)

\* A launch request with an environment and a schema that has no room for one.
Overfull(S) ==
    /\ form = "LAUNCH" /\ S = EarlierLaunchRequest
    /\ \E i \in DOMAIN arg : arg[i].en_vars # <<>>

\* What the builder writes otherwise.
Recorded(S) ==
    IF S = Schema[form] THEN Meant
    ELSE IF form = "LAUNCH" THEN Launched ELSE New(S)

LEMMA LaunchArguments ==
    ASSUME Typed, form = "LAUNCH"
    PROVE  /\ arg \in Seq(Items("LAUNCH"))
           /\ \A i \in DOMAIN arg :
                /\ arg[i].proc_name = [jobid |-> arg[i].proc_name.jobid, vpid |-> arg[i].proc_name.vpid]
                /\ arg[i].en_vars \in Seq(Bytes)
<1>1. arg \in Seq(Items("LAUNCH"))
  BY DEF Typed, Given, ArrayForms
<1>2. ASSUME NEW i \in DOMAIN arg PROVE arg[i].en_vars \in Seq(Bytes)
  <2>1. arg[i] \in Items("LAUNCH")
    BY <1>1
  <2>2. arg[i].en_vars \in EnvVectors
    BY <2>1 DEF Items
  <2> QED
    BY <2>2, ArgumentsAssumption
<1> QED
  BY <1>1, <1>2, NameParts

\* What the calls of a builder make of a new record, whichever schema it has.
LEMMA RecordedTurns ==
    ASSUME Typed, NEW S \in {Schema[form]} \cup Earlier(form), ~Overfull(S)
    PROVE  Turns(S, Fresh, BuilderCalls, New(S), Recorded(S))
<1>1. CASE S = Schema[form]
  BY <1>1, BuilderTurns DEF Recorded
<1>2. CASE S # Schema[form] /\ form = "LAUNCH"
  <2>1. S = EarlierLaunchRequest
    BY <1>2 DEF Earlier
  <2>2. \A i \in DOMAIN arg : arg[i].en_vars = <<>>
    BY <1>2, <2>1 DEF Overfull
  <2>3. Turns(EarlierLaunchRequest, Fresh, LaunchRequestCalls, New(EarlierLaunchRequest), Launched)
    BY <1>2, <2>2, LaunchArguments, EarlierLaunchRequestTurns
  <2> QED
    BY <1>2, <2>1, <2>3 DEF Recorded, BuilderCalls
<1>3. CASE S # Schema[form] /\ form # "LAUNCH"
  <2>1. form \in StatusForms
    BY <1>3 DEF Earlier, StatusForms
  <2>2. BuilderCalls = <<>> /\ Recorded(S) = New(S)
    BY <1>3, <2>1 DEF BuilderCalls, StatusForms, Recorded
  <2> QED
    BY <2>2, RunNothing DEF Turns
<1> QED
  BY <1>1, <1>2, <1>3

LEMMA ArgumentsAre ==
    /\ \A s \in Texts : s \in Bytes
    /\ \A s \in Diagnostics : s \in Bytes
    /\ \A n \in Ints : n \in Int
    /\ \A x \in Names : x \in ProcessNames
BY ArgumentsAssumption DEF Names, ProcessNames

\* The record a builder means is a value of the schema of its message.
LEMMA MeantIsValue == ASSUME Typed PROVE IsValue(Schema[form], Meant)
<1>1. CASE form = "ALLOCATE"
  <2>1. arg \in Int
    BY <1>1, ArgumentsAre DEF Typed, Given, ArrayForms, Scalars
  <2>2. IsValue(AllocateRequest, [resource_count |-> arg])
    BY <2>1, AllocateRequestIs
  <2> QED
    BY <1>1, <2>2 DEF Schema, Meant
<1>2. CASE form = "FINISH"
  <2>1. arg.succeed \in BOOLEAN /\ arg.diagnostics \in Bytes
    BY <1>2, ArgumentsAre DEF Typed, Given, ArrayForms, Scalars
  <2>2. IsValue(FinishRequest, [succeed |-> arg.succeed, diagnostics |-> arg.diagnostics])
    BY <2>1, FinishRequestIs
  <2> QED
    BY <1>2, <2>2 DEF Schema, Meant
<1>3. CASE form = "wrapper"
  <2>1. arg.inner \in Bytes /\ arg.msg_type \in Requests
    BY <1>3, ArgumentsAre DEF Typed, Given, ArrayForms, Scalars
  <2>2. Ordinal(msg_type_enum_t, arg.msg_type) \in Int
    BY <2>1, EnumeratorsAre DEF Requests, MsgTypeNames
  <2>3. IsValue(HamsterHnpRequest, [request |-> arg.inner, msg_type |-> Ordinal(msg_type_enum_t, arg.msg_type)])
    BY <2>1, <2>2, HamsterHnpRequestIs
  <2> QED
    BY <1>3, <2>3 DEF Schema, Meant
<1>4. CASE form = "person"
  <2>1. arg.name \in Bytes /\ arg.weight \in Int /\ arg.height \in Int
    BY <1>4, ArgumentsAre DEF Typed, Given, ArrayForms, Scalars
  <2>2. IsValue(Person, [name |-> arg.name, weight |-> arg.weight, height |-> arg.height])
    BY <2>1, PersonIs
  <2> QED
    BY <1>4, <2>2 DEF Schema, Meant
<1>5. CASE form \in StatusForms
  BY <1>5, NullMessageIs DEF StatusForms, Schema, Meant
<1>6. CASE form = "AllocateResponse"
  <2>1. PICK t : t = [i \in DOMAIN arg |-> [host_name |-> arg[i].host_name, slot |-> arg[i].slot_num]]
    OBVIOUS
  <2>2. arg \in Seq(Items(form))
    BY <1>6 DEF Typed, Given, ArrayForms
  <2>3. \A x \in Items(form) : [host_name |-> x.host_name, slot |-> x.slot_num] \in Nodes
    BY <1>6, ArgumentsAre DEF Items, Nodes
  <2>4. t \in Seq(Nodes)
    BY <2>1, <2>2, <2>3
  <2>5. IsValue(AllocateResponse, [node_resources |-> t])
    BY <2>4, AllocateResponseIs
  <2> QED
    BY <1>6, <2>1, <2>5 DEF Schema, Meant
<1>7. CASE form = "LaunchResponse"
  <2>1. PICK t : t = [i \in DOMAIN arg |->
                        [is_successful |-> arg[i].is_successful, name |-> arg[i].proc_name]]
    OBVIOUS
  <2>2. arg \in Seq(Items(form))
    BY <1>7 DEF Typed, Given, ArrayForms
  <2>3. \A x \in Items(form) : [is_successful |-> x.is_successful, name |-> x.proc_name] \in Results
    BY <1>7, ArgumentsAre DEF Items, Results
  <2>4. t \in Seq(Results)
    BY <2>1, <2>2, <2>3
  <2>5. IsValue(LaunchResponse, [results |-> t])
    BY <2>4, LaunchResponseIs
  <2> QED
    BY <1>7, <2>1, <2>5 DEF Schema, Meant
<1>8. CASE form = "HeartBeatResponse"
  <2>1. PICK t : t = [i \in DOMAIN arg |->
                        [name |-> arg[i].proc_name,
                         state |-> Ordinal(process_state_enum_t, arg[i].proc_state),
                         exit_value |-> arg[i].exit_value]]
    OBVIOUS
  <2>2. arg \in Seq(Items(form))
    BY <1>8 DEF Typed, Given, ArrayForms
  <2>3. ASSUME NEW x \in Items(form)
        PROVE  [name |-> x.proc_name, state |-> Ordinal(process_state_enum_t, x.proc_state),
                exit_value |-> x.exit_value] \in Statuses
    <3>1. x.proc_name \in ProcessNames /\ x.proc_state \in ProcessStateNames /\ x.exit_value \in Int
      BY <1>8, ArgumentsAre DEF Items, ProcessStateNames
    <3>2. Ordinal(process_state_enum_t, x.proc_state) \in Int
      BY <3>1, EnumeratorsAre
    <3> QED
      BY <3>1, <3>2 DEF Statuses
  <2>4. t \in Seq(Statuses)
    BY <2>1, <2>2, <2>3
  <2>5. IsValue(HeartBeatResponse, [completed_processes |-> t])
    BY <2>4, HeartBeatResponseIs
  <2> QED
    BY <1>8, <2>1, <2>5 DEF Schema, Meant
<1>9. CASE form = "LAUNCH"
  <2>1. PICK t : t = [i \in DOMAIN arg |->
                        [en_vars |-> arg[i].en_vars, args |-> arg[i].args,
                         host_name |-> arg[i].host_name, name |-> arg[i].proc_name]]
    OBVIOUS
  <2>2. arg \in Seq(Items(form))
    BY <1>9, LaunchArguments
  <2>3. \A x \in Items(form) : [en_vars |-> x.en_vars, args |-> x.args,
                         host_name |-> x.host_name, name |-> x.proc_name] \in ContextRecords
    BY <1>9, ArgumentsAre, ArgumentsAssumption DEF Items, ContextRecords
  <2>4. t \in Seq(ContextRecords)
    BY <2>1, <2>2, <2>3
  <2>5. IsValue(LaunchRequest, [launchContexts |-> t])
    BY <2>4, LaunchRequestIs
  <2> QED
    BY <1>9, <2>1, <2>5 DEF Schema, Meant
<1> QED
  BY <1>1, <1>2, <1>3, <1>4, <1>5, <1>6, <1>7, <1>8, <1>9 DEF Typed, Forms, Requests, Responses, StatusForms

LEMMA NoFieldsIs == IsValue(NoFields, New(NoFields))
<1>1. NoFields.type = "record" /\ NoFields.fields = <<>>
  BY DEF NoFields, AvroRecord
<1>2. IsSeq(<<>>) /\ DOMAIN <<>> = {}
  BY DEF IsSeq
<1>3. PICK S : S = NoFields
  OBVIOUS
<1>4. {S.fields[i][1] : i \in DOMAIN S.fields} = {}
  BY <1>1, <1>2, <1>3
<1>5. New(S) = [f \in {} |-> New_1(FieldSchema(S, f))]
  BY <1>1, <1>3, <1>4 DEF New, NewWith
<1>6. New(S) = [f \in {} |-> New(S)[f]]
  BY <1>5
<1>7. FieldNames(S) = {} /\ DOMAIN Parts(S, New(S)) = {}
  BY <1>1, <1>2, <1>3, <1>4 DEF FieldNames, Parts
<1>8. IsShape(S, New(S))
  BY <1>1, <1>2, <1>3, <1>6, <1>7 DEF IsShape
<1> QED
  BY <1>3, <1>7, <1>8 DEF IsValue, IsWith

\* Whatever is handed over consists of bytes.
LEMMA RecordedIsBytes ==
    ASSUME Typed, NEW S \in {Schema[form]} \cup Earlier(form), ~Overfull(S), Write(S, Recorded(S)).ok
    PROVE  Write(S, Recorded(S)).bytes \in Bytes
<1>1. CASE S = Schema[form]
  BY <1>1, MeantIsValue, WrittenIsRead DEF Recorded
<1>2. CASE S # Schema[form] /\ form = "LAUNCH"
  <2>1. S = EarlierLaunchRequest
    BY <1>2 DEF Earlier
  <2>2. PICK t : t = [i \in DOMAIN arg |->
                        [en_vars |-> arg[i].en_vars, args |-> arg[i].args,
                         host_name |-> arg[i].host_name, name |-> arg[i].proc_name]]
    OBVIOUS
  <2>3. arg \in Seq(Items(form)) /\ \A i \in DOMAIN arg : arg[i].en_vars = <<>>
    BY <1>2, <2>1, LaunchArguments DEF Overfull
  <2>4. \A x \in Items(form) : x.args \in Bytes /\ x.host_name \in Bytes /\ x.proc_name \in ProcessNames
    BY <1>2, ArgumentsAre DEF Items
  <2>5. <<>> \in Bytes
    BY EmptySeq DEF Bytes
  <2>6. \A i \in DOMAIN arg : t[i] \in EarlierContextRecords
    BY <2>2, <2>3, <2>4, <2>5 DEF EarlierContextRecords
  <2>7. t \in Seq(EarlierContextRecords)
    BY <2>2, <2>3, <2>6
  <2>8. IsValue(EarlierLaunchRequest, Launched)
    BY <2>2, <2>7, EarlierRequestIs DEF Launched
  <2> QED
    BY <1>2, <2>1, <2>8, WrittenIsRead DEF Recorded
<1>3. CASE S # Schema[form] /\ form # "LAUNCH"
  <2>1. S = NoFields
    BY <1>3 DEF Earlier
  <2> QED
    BY <1>3, <2>1, NoFieldsIs, WrittenIsRead DEF Recorded
<1> QED
  BY <1>1, <1>2, <1>3

-----------------------------------------------------------------------------
(* The builder of a launch request whose schema has no room for the          *)
(* environment it is given: it never hands over a message.                   *)

\* The calls of that builder, and what they set.
IsLaunchCall(c) ==
    /\ c.op \in {"get_by_name", "append", "set_string", "set_int"}
    /\ c.op = "get_by_name" =>
         /\ c.to \notin {"record", "launchContext_value", "en_var_item_value"}
         /\ c.to = "launchContexts_value" => c.on = "record" /\ c.name = "launchContexts"
         /\ c.to = "en_vars_array_value" => c.on = "launchContext_value" /\ c.name = "en_vars"
    /\ c.op = "append" =>
         \/ c.on = "launchContexts_value" /\ c.to = "launchContext_value"
         \/ c.on = "en_vars_array_value" /\ c.to = "en_var_item_value"

LaunchCalls(cs) == IsList(cs) /\ \A i \in DOMAIN cs : IsLaunchCall(cs[i])

\* One of them sets a variable of an environment.
SetsVariable(c) == c.op = "set_string" /\ c.on = "en_var_item_value"
Loads(cs) == \E i \in DOMAIN cs : SetsVariable(cs[i])

LEMMA LaunchCallsBoth ==
    ASSUME NEW a, NEW b, LaunchCalls(a), LaunchCalls(b)
    PROVE  LaunchCalls(a \o b) /\ (Loads(a) \/ Loads(b) => Loads(a \o b))
<1>1. IsList(a \o b)
  BY Lists DEF LaunchCalls
<1>2. PICK C : a \in Seq(C)
  BY DEF LaunchCalls, IsList
<1>3. PICK D : b \in Seq(D)
  BY DEF LaunchCalls, IsList
<1>4. /\ Len(a) \in Nat /\ Len(b) \in Nat /\ DOMAIN a = 1..Len(a) /\ DOMAIN b = 1..Len(b)
      /\ DOMAIN (a \o b) = 1..(Len(a) + Len(b))
      /\ \A i \in 1..(Len(a) + Len(b)) : (a \o b)[i] = IF i <= Len(a) THEN a[i] ELSE b[i - Len(a)]
  <2>1. a \in Seq(C \cup D) /\ b \in Seq(C \cup D)
    BY <1>2, <1>3
  <2> QED
    BY <2>1
<1>5. PICK c : c = a \o b
  OBVIOUS
<1>6. ASSUME NEW i \in DOMAIN c PROVE IsLaunchCall(c[i])
  <2>1. CASE i <= Len(a)
    BY <1>4, <1>5, <2>1 DEF LaunchCalls
  <2>2. CASE ~(i <= Len(a))
    <3>1. i - Len(a) \in DOMAIN b /\ c[i] = b[i - Len(a)]
      BY <1>4, <1>5, <2>2
    <3> QED
      BY <3>1 DEF LaunchCalls
  <2> QED
    BY <2>1, <2>2
<1>7. ASSUME Loads(a) PROVE Loads(c)
  <2>1. PICK i \in DOMAIN a : SetsVariable(a[i])
    BY <1>7 DEF Loads
  <2>2. i \in DOMAIN c /\ c[i] = a[i]
    BY <1>4, <1>5
  <2> QED
    BY <2>1, <2>2 DEF Loads
<1>8. ASSUME Loads(b) PROVE Loads(c)
  <2>1. PICK i \in DOMAIN b : SetsVariable(b[i])
    BY <1>8 DEF Loads
  <2>2. PICK j : j = Len(a) + i
    OBVIOUS
  <2>3. j \in DOMAIN c /\ ~(j <= Len(a)) /\ j - Len(a) = i
    BY <1>4, <1>5, <2>2
  <2>4. c[j] = b[i]
    BY <1>4, <1>5, <2>3
  <2> QED
    BY <2>1, <2>3, <2>4 DEF Loads
<1> QED
  BY <1>1, <1>5, <1>6, <1>7, <1>8 DEF LaunchCalls

LEMMA LaunchCallsOne == \A c : IsLaunchCall(c) =>
    LaunchCalls(<<c>>) /\ (SetsVariable(c) => Loads(<<c>>))
<1>1. \A c : DOMAIN <<c>> = {1} /\ <<c>>[1] = c
  OBVIOUS
<1> QED
  BY <1>1, Lists DEF LaunchCalls, Loads

LEMMA LaunchCallsRounds ==
    ASSUME NEW n \in Nat, NEW rs, rs = [i \in 1..n |-> rs[i]], \A i \in 1..n : LaunchCalls(rs[i])
    PROVE  /\ LaunchCalls(FlattenSeq(rs))
           /\ (\E i \in 1..n : Loads(rs[i])) => Loads(FlattenSeq(rs))
<1>1. Len(rs) = n
  OBVIOUS
<1>2. CASE n = 0
  <2>1. rs = <<>>
    BY <1>2
  <2>2. FlattenSeq(rs) = <<>>
    BY <1>1, <1>2, <2>1 DEF FlattenSeq
  <2>3. LaunchCalls(<<>>)
    BY Lists DEF LaunchCalls
  <2>4. 1..n = {}
    BY <1>2
  <2> QED
    BY <2>2, <2>3, <2>4
<1>3. CASE n # 0
  <2>1. PICK h : /\ h[1] = rs[1]
                 /\ \A i \in 1..(n - 1) : h[i + 1] = h[i] \o rs[i + 1]
                 /\ FlattenSeq(rs) = h[n]
    BY <1>1, <1>3, FlattenIs
  <2> DEFINE So(i) == LaunchCalls(h[i]) /\ ((\E k \in 1..i : Loads(rs[k])) => Loads(h[i]))
             T == {i \in Nat : i + 1 <= n => So(i + 1)}
  <2>2. 0 \in T
    <3>1. 1 \in 1..n /\ 0 + 1 = 1 /\ \A k \in 1..1 : k = 1
      BY <1>3
    <3>2. So(1)
      BY <2>1, <3>1
    <3> QED
      BY <3>1, <3>2
  <2>3. ASSUME NEW i \in T PROVE i + 1 \in T
    <3> SUFFICES ASSUME (i + 1) + 1 <= n PROVE So((i + 1) + 1)
      OBVIOUS
    <3>1. PICK j : j = i + 1
      OBVIOUS
    <3>2. j \in 1..(n - 1) /\ j + 1 \in 1..n /\ So(j)
      BY <3>1
    <3>3. h[j + 1] = h[j] \o rs[j + 1] /\ LaunchCalls(rs[j + 1])
      BY <2>1, <3>2
    <3>4. PICK a, b : a = h[j] /\ b = rs[j + 1]
      OBVIOUS
    <3>5. LaunchCalls(a) /\ LaunchCalls(b) /\ h[j + 1] = a \o b
      BY <3>2, <3>3, <3>4
    <3>6. LaunchCalls(a \o b) /\ (Loads(a) \/ Loads(b) => Loads(a \o b))
      BY <3>5, LaunchCallsBoth
    <3>7. \A k \in 1..(j + 1) : k \in 1..j \/ k = j + 1
      BY <3>2
    <3>8. So(j + 1)
      BY <3>2, <3>4, <3>5, <3>6, <3>7
    <3> QED
      BY <3>1, <3>8
  <2>4. T \in SUBSET Nat
    OBVIOUS
  <2> HIDE DEF T
  <2>5. n - 1 \in T
    BY <1>3, <2>2, <2>3, <2>4, Induction
  <2>6. (n - 1) + 1 = n /\ n - 1 \in Nat
    BY <1>3
  <2>7. So(n)
    BY <2>5, <2>6 DEF T
  <2> QED
    BY <2>1, <2>7
<1> QED
  BY <1>2, <1>3

\* Those of one context.
LEMMA ContextIsLaunchCalls ==
    ASSUME NEW e, e.en_vars \in Seq(Bytes)
    PROVE  LET cs == Item("launchContexts_value", "launchContext_value")
                     \o (EnvironmentFill(e.en_vars)
                     \o SetField("launchContext_value", "args", "args_value", "set_string", e.args)
                     \o SetField("launchContext_value", "host_name", "host_name_value", "set_string",
                                 e.host_name)
                     \o SetName("launchContext_value", e.proc_name))
           IN  LaunchCalls(cs) /\ (e.en_vars # <<>> => Loads(cs))
<1>1. /\ LaunchCalls(Item("launchContexts_value", "launchContext_value"))
      /\ LaunchCalls(Item("en_vars_array_value", "en_var_item_value"))
  BY LaunchCallsOne DEF Item, IsLaunchCall
<1>2. /\ LaunchCalls(ByName("launchContext_value", "en_vars", "en_vars_array_value"))
      /\ LaunchCalls(ByName("launchContext_value", "args", "args_value"))
      /\ LaunchCalls(ByName("launchContext_value", "host_name", "host_name_value"))
      /\ LaunchCalls(ByName("launchContext_value", "name", "name_value"))
      /\ LaunchCalls(ByName("name_value", "jobid", "jobid_value"))
      /\ LaunchCalls(ByName("name_value", "vpid", "vpid_value"))
  BY LaunchCallsOne DEF ByName, IsLaunchCall
<1>3. ASSUME NEW c, NEW x
      PROVE  /\ LaunchCalls(<<[op |-> "set_string", on |-> c, value |-> x]>>)
             /\ LaunchCalls(<<[op |-> "set_int", on |-> c, value |-> x]>>)
  BY LaunchCallsOne DEF IsLaunchCall
<1>4. ASSUME NEW x PROVE Loads(<<[op |-> "set_string", on |-> "en_var_item_value", value |-> x]>>)
  <2>1. PICK c : c = [op |-> "set_string", on |-> "en_var_item_value", value |-> x]
    OBVIOUS
  <2>2. SetsVariable(c) /\ IsLaunchCall(c)
    BY <2>1 DEF SetsVariable, IsLaunchCall
  <2> QED
    BY <2>1, <2>2, LaunchCallsOne
<1>5. ASSUME NEW x
      PROVE  /\ LaunchCalls(SetField("launchContext_value", "args", "args_value", "set_string", x))
             /\ LaunchCalls(SetField("launchContext_value", "host_name", "host_name_value", "set_string", x))
             /\ LaunchCalls(SetField("name_value", "jobid", "jobid_value", "set_int", x))
             /\ LaunchCalls(SetField("name_value", "vpid", "vpid_value", "set_int", x))
  BY <1>2, <1>3, LaunchCallsBoth DEF SetField
<1>6. LaunchCalls(SetName("launchContext_value", e.proc_name))
  BY <1>2, <1>5, LaunchCallsBoth DEF SetName
<1> DEFINE set(j) == <<[op |-> "set_string", on |-> "en_var_item_value", value |-> e.en_vars[j]]>>
           n == Len(e.en_vars)
           rs == [j \in 1..n |-> Item("en_vars_array_value", "en_var_item_value") \o set(j)]
<1>7. n \in Nat /\ DOMAIN e.en_vars = 1..n /\ (e.en_vars # <<>> => n # 0)
  OBVIOUS
<1>8. \A j \in 1..n : LaunchCalls(rs[j]) /\ Loads(rs[j])
  <2> SUFFICES ASSUME NEW j \in 1..n PROVE LaunchCalls(rs[j]) /\ Loads(rs[j])
    OBVIOUS
  <2>1. rs[j] = Item("en_vars_array_value", "en_var_item_value") \o set(j)
    OBVIOUS
  <2>2. LaunchCalls(set(j)) /\ Loads(set(j))
    BY <1>3, <1>4
  <2> HIDE DEF rs, set
  <2> QED
    BY <1>1, <2>1, <2>2, LaunchCallsBoth
<1>9. EnvironmentFill(e.en_vars) =
        ByName("launchContext_value", "en_vars", "en_vars_array_value") \o FlattenSeq(rs)
  BY <1>7 DEF EnvironmentFill
<1>10. rs = [j \in 1..n |-> rs[j]]
  OBVIOUS
<1> HIDE DEF rs
<1>11. /\ LaunchCalls(FlattenSeq(rs))
       /\ e.en_vars # <<>> => Loads(FlattenSeq(rs))
  <2>1. n # 0 => 1 \in 1..n
    BY <1>7
  <2> QED
    BY <1>7, <1>8, <1>10, <2>1, LaunchCallsRounds
<1>12. PICK a, b, c, d, f :
         /\ a = Item("launchContexts_value", "launchContext_value")
         /\ b = EnvironmentFill(e.en_vars)
         /\ c = SetField("launchContext_value", "args", "args_value", "set_string", e.args)
         /\ d = SetField("launchContext_value", "host_name", "host_name_value", "set_string", e.host_name)
         /\ f = SetName("launchContext_value", e.proc_name)
  OBVIOUS
<1>13. LaunchCalls(b) /\ (e.en_vars # <<>> => Loads(b))
  BY <1>2, <1>9, <1>11, <1>12, LaunchCallsBoth
<1>14. LaunchCalls(a) /\ LaunchCalls(c) /\ LaunchCalls(d) /\ LaunchCalls(f)
  BY <1>1, <1>5, <1>6, <1>12
<1>15. \A x, y : LaunchCalls(x) /\ LaunchCalls(y) =>
         LaunchCalls(x \o y) /\ (Loads(x) \/ Loads(y) => Loads(x \o y))
  BY LaunchCallsBoth
<1>16. LaunchCalls(b \o c) /\ (Loads(b) => Loads(b \o c))
  BY <1>13, <1>14, <1>15
<1>17. PICK g : g = b \o c
  OBVIOUS
<1>18. LaunchCalls(g \o d) /\ (Loads(b) => Loads(g \o d))
  BY <1>14, <1>15, <1>16, <1>17
<1>19. PICK k : k = g \o d
  OBVIOUS
<1>20. LaunchCalls(k \o f) /\ (Loads(b) => Loads(k \o f))
  BY <1>14, <1>15, <1>18, <1>19
<1>21. PICK m : m = k \o f
  OBVIOUS
<1>22. LaunchCalls(a \o m) /\ (Loads(b) => Loads(a \o m))
  BY <1>14, <1>15, <1>20, <1>21
<1> QED
  BY <1>12, <1>13, <1>17, <1>19, <1>21, <1>22

\* Those of the builder.
LEMMA LaunchRequestIsLaunchCalls ==
    ASSUME Typed, form = "LAUNCH"
    PROVE  /\ LaunchCalls(LaunchRequestCalls)
           /\ (\E i \in DOMAIN arg : arg[i].en_vars # <<>>) => Loads(LaunchRequestCalls)
<1> DEFINE n == Len(arg)
           context(e) ==
             Item("launchContexts_value", "launchContext_value")
             \o (EnvironmentFill(e.en_vars)
             \o SetField("launchContext_value", "args", "args_value", "set_string", e.args)
             \o SetField("launchContext_value", "host_name", "host_name_value", "set_string",
                         e.host_name)
             \o SetName("launchContext_value", e.proc_name))
           rs == [i \in 1..n |-> context(arg[i])]
<1>1. n \in Nat /\ DOMAIN arg = 1..n
  BY LaunchArguments
<1>2. ASSUME NEW i \in 1..n PROVE LaunchCalls(rs[i]) /\ (arg[i].en_vars # <<>> => Loads(rs[i]))
  <2>1. PICK e : e = arg[i]
    OBVIOUS
  <2>2. e.en_vars \in Seq(Bytes)
    BY <1>1, <2>1, LaunchArguments
  <2>3. LaunchCalls(context(e)) /\ (e.en_vars # <<>> => Loads(context(e)))
    BY <2>2, ContextIsLaunchCalls
  <2> QED
    BY <2>1, <2>3
<1>3. rs = [i \in 1..n |-> rs[i]]
  OBVIOUS
<1>4. LaunchRequestCalls = ByName("record", "launchContexts", "launchContexts_value") \o FlattenSeq(rs)
  BY <1>1 DEF LaunchRequestCalls, BuildArray, EnvironmentFill
<1> HIDE DEF rs
<1>5. /\ LaunchCalls(FlattenSeq(rs))
      /\ (\E i \in 1..n : Loads(rs[i])) => Loads(FlattenSeq(rs))
  BY <1>1, <1>2, <1>3, LaunchCallsRounds
<1>6. LaunchCalls(ByName("record", "launchContexts", "launchContexts_value"))
  BY LaunchCallsOne DEF ByName, IsLaunchCall
<1> QED
  BY <1>1, <1>2, <1>4, <1>5, <1>6, LaunchCallsBoth

\* The schema three steps into another, whatever the steps are.
LEMMA SchemaThreeDeep ==
    ASSUME NEW S, NEW a, NEW b, NEW c
    PROVE  SchemaAt(S, <<a, b, c>>) = Inside(Inside(Inside(S, a), b), c)
<1> DEFINE p == <<a, b, c>>
<1>1. Len(p) = 3 /\ p[1] = a /\ p[2] = b /\ p[3] = c
  OBVIOUS
<1> HIDE DEF p
<1>2. \E h : SchemaPath(S, p, h)
  <2> DEFINE h == [i \in 0..3 |-> IF i = 0 THEN S ELSE IF i = 1 THEN Inside(S, a)
                       ELSE IF i = 2 THEN Inside(Inside(S, a), b)
                       ELSE Inside(Inside(Inside(S, a), b), c)]
  <2>1. h[0] = S /\ h[1] = Inside(S, a) /\ h[2] = Inside(Inside(S, a), b)
        /\ h[3] = Inside(Inside(Inside(S, a), b), c)
    OBVIOUS
  <2>2. h = [i \in 0..3 |-> h[i]]
    OBVIOUS
  <2> HIDE DEF h
  <2>3. ASSUME NEW i \in 0..3 PROVE h[i] = IF i = 0 THEN S ELSE Inside(h[i - 1], p[i])
    <3>1. i = 0 \/ i = 1 \/ i = 2 \/ i = 3
      OBVIOUS
    <3>2. CASE i = 0
      BY <2>1, <3>2
    <3>3. CASE i = 1
      BY <1>1, <2>1, <3>3
    <3>4. CASE i = 2
      BY <1>1, <2>1, <3>4
    <3>5. CASE i = 3
      BY <1>1, <2>1, <3>5
    <3> QED
      BY <3>1, <3>2, <3>3, <3>4, <3>5
  <2>4. h = [i \in 0..3 |-> IF i = 0 THEN S ELSE Inside(h[i - 1], p[i])]
    BY <2>2, <2>3
  <2> QED
    BY <1>1, <2>4 DEF SchemaPath
<1> DEFINE h == CHOOSE h : SchemaPath(S, p, h)
<1>3. SchemaPath(S, p, h)
  BY <1>2
<1>4. SchemaAt(S, p) = h[Len(p)]
  BY DEF SchemaAt, SchemaPath
<1> HIDE DEF h
<1>5. \A i \in 0..3 : h[i] = IF i = 0 THEN S ELSE Inside(h[i - 1], p[i])
  BY <1>1, <1>3 DEF SchemaPath
<1>6. h[0] = S /\ h[1] = Inside(h[0], p[1]) /\ h[2] = Inside(h[1], p[2]) /\ h[3] = Inside(h[2], p[3])
  BY <1>5
<1> QED
  BY <1>1, <1>4, <1>6 DEF p

LEMMA EarlierVariablesAre ==
    \A k : SchemaAt(EarlierLaunchRequest, <<"launchContexts", k, "en_vars">>).type = "string"
<1> SUFFICES ASSUME NEW k
             PROVE  SchemaAt(EarlierLaunchRequest, <<"launchContexts", k, "en_vars">>).type = "string"
  OBVIOUS
<1>1. PICK S, C : S = EarlierLaunchRequest /\ C = EarlierContext
  OBVIOUS
<1>2. S = ArrayMessage("launchContexts", C)
  BY <1>1 DEF ArrayMessage, EarlierLaunchRequest, EarlierContext
<1>3. S.type = "record" /\ FieldSchema(S, "launchContexts") = AvroArray(C)
  BY <1>2, ArrayMessageFields
<1>4. C.type = "record" /\ FieldSchema(C, "en_vars") = AvroString
  BY <1>1, EarlierContextFields
<1>5. Inside(S, "launchContexts") = AvroArray(C)
  BY <1>3 DEF Inside
<1>6. Inside(AvroArray(C), k) = C
  BY TypesOf DEF Inside
<1>7. Inside(C, "en_vars") = AvroString
  BY <1>4 DEF Inside
<1>8. SchemaAt(S, <<"launchContexts", k, "en_vars">>) = AvroString
  BY <1>5, <1>6, <1>7, SchemaThreeDeep
<1> QED
  BY <1>1, <1>8, TypesOf

\* Its locals refer to what their names say, but no variable of an environment
\* is there to refer to.
Astray ==
    /\ DOMAIN locals = Locals
    /\ locals["record"] = <<>>
    /\ locals["launchContexts_value"] \in {Garbage, <<"launchContexts">>}
    /\ \/ locals["launchContext_value"] = Garbage
       \/ \E k : locals["launchContext_value"] = <<"launchContexts", k>>
    /\ \/ locals["en_vars_array_value"] = Garbage
       \/ \E k : locals["en_vars_array_value"] = <<"launchContexts", k, "en_vars">>
    /\ locals["en_var_item_value"] = Garbage

\* It still has to set one, or it has tried.
BoundToFail ==
    \/ status = "undefined" /\ todo = <<>>
    \/ LaunchCalls(todo) /\ Loads(todo) /\ Astray

LEMMA TailIsLaunchCalls ==
    ASSUME NEW cs, LaunchCalls(cs), Loads(cs)
    PROVE  /\ IsLaunchCall(Head(cs)) /\ LaunchCalls(Tail(cs))
           /\ SetsVariable(Head(cs)) \/ Loads(Tail(cs))
<1>1. PICK C : cs \in Seq(C)
  BY DEF LaunchCalls, IsList
<1>2. PICK i \in DOMAIN cs : SetsVariable(cs[i])
  BY DEF Loads
<1>3. /\ cs # <<>> /\ DOMAIN cs = 1..Len(cs) /\ Len(cs) \in Nat /\ Head(cs) = cs[1] /\ 1 \in DOMAIN cs
      /\ Tail(cs) \in Seq(C) /\ DOMAIN Tail(cs) = 1..(Len(cs) - 1)
      /\ \A j \in 1..(Len(cs) - 1) : Tail(cs)[j] = cs[j + 1]
  BY <1>1
<1>4. IsList(Tail(cs))
  BY <1>3 DEF IsList
<1>5. PICK t : t = Tail(cs)
  OBVIOUS
<1>6. ASSUME NEW j \in DOMAIN t PROVE IsLaunchCall(t[j])
  <2>1. j + 1 \in DOMAIN cs /\ t[j] = cs[j + 1]
    BY <1>3, <1>5
  <2> QED
    BY <2>1 DEF LaunchCalls
<1>7. ASSUME i # 1 PROVE Loads(t)
  <2>1. i - 1 \in DOMAIN t /\ t[i - 1] = cs[i]
    BY <1>3, <1>5, <1>7
  <2> QED
    BY <1>2, <2>1 DEF Loads
<1> QED
  BY <1>2, <1>3, <1>4, <1>5, <1>6, <1>7 DEF LaunchCalls

\* The step of such a builder.
LEMMA FailingSteps ==
    ASSUME BoundToFail, schema = EarlierLaunchRequest, Steps
    PROVE  BoundToFail'
<1>1. todo # <<>>
  BY DEF Steps, CallUnset, CallFails, GetChild, AppendItem, GetSize, Set, Get, SetToZero,
         Allocate, Loop, ReturnStatus, Called, Answers, Busy
<1>2. LaunchCalls(todo) /\ Loads(todo) /\ Astray
  BY <1>1 DEF BoundToFail
<1>3. /\ IsLaunchCall(Here) /\ LaunchCalls(Tail(todo))
      /\ SetsVariable(Here) \/ Loads(Tail(todo))
  BY <1>2, TailIsLaunchCalls DEF Here
<1>4. CASE CallUnset
  BY <1>4 DEF CallUnset, BoundToFail
<1>5. CASE Place = Garbage /\ ~CallUnset
  <2>1. Here.op # "zero"
    BY <1>3 DEF IsLaunchCall
  <2> QED
    BY <1>5, <2>1 DEF Steps, CallFails, GetChild, AppendItem, GetSize, Set, Get, SetToZero,
         Allocate, Loop, ReturnStatus, Called, Answers
<1>6. CASE Place # Garbage
  <2>1. ~SetsVariable(Here)
    BY <1>2, <1>6 DEF Astray, SetsVariable, Place
  <2>2. LaunchCalls(Tail(todo)) /\ Loads(Tail(todo))
    BY <1>3, <2>1
  <2>3. Here.op \in {"get_by_name", "append", "set_string", "set_int"}
    BY <1>3 DEF IsLaunchCall
  <2>4. CASE CallFails \/ Set
    <3>1. locals' = locals /\ todo' = Tail(todo)
      BY <2>4 DEF CallFails, Set, Continue
    <3> QED
      BY <1>2, <2>2, <3>1 DEF BoundToFail, Astray
  <2>5. CASE GetChild
    <3>1. Here.op = "get_by_name"
      BY <2>3, <2>5 DEF GetChild, Answers, Called
    <3>2. locals' = [locals EXCEPT ![Here.to] = Append(Place, Here.name)] /\ todo' = Tail(todo)
      BY <2>5, <3>1 DEF GetChild, Continue
    <3>3. /\ Here.to \notin {"record", "launchContext_value", "en_var_item_value"}
          /\ Here.to = "launchContexts_value" => Here.on = "record" /\ Here.name = "launchContexts"
          /\ Here.to = "en_vars_array_value" => Here.on = "launchContext_value" /\ Here.name = "en_vars"
      BY <1>3, <3>1 DEF IsLaunchCall
    <3>4. {"record", "launchContexts_value", "launchContext_value", "en_vars_array_value",
           "en_var_item_value"} \subseteq Locals
      BY DEF Locals
    <3>5. DOMAIN locals' = Locals /\ \A x \in Locals : x # Here.to => locals'[x] = locals[x]
      BY <1>2, <3>2 DEF Astray
    <3>6. Here.to \in Locals => locals'[Here.to] = Append(Place, Here.name)
      BY <1>2, <3>2 DEF Astray
    <3>7. /\ locals'["record"] = <<>> /\ locals'["en_var_item_value"] = Garbage
          /\ locals'["launchContext_value"] = locals["launchContext_value"]
      BY <1>2, <3>3, <3>4, <3>5 DEF Astray
    <3>8. locals'["launchContexts_value"] \in {Garbage, <<"launchContexts">>}
      <4>1. CASE Here.to = "launchContexts_value"
        <5>1. Place = <<>> /\ Here.name = "launchContexts"
          BY <1>2, <3>3, <4>1 DEF Astray, Place
        <5>2. \A x : Append(<<>>, x) = <<x>>
          OBVIOUS
        <5> QED
          BY <3>4, <3>6, <4>1, <5>1, <5>2
      <4>2. CASE Here.to # "launchContexts_value"
        BY <1>2, <3>4, <3>5, <4>2 DEF Astray
      <4> QED
        BY <4>1, <4>2
    <3>9. \/ locals'["en_vars_array_value"] = Garbage
          \/ \E k : locals'["en_vars_array_value"] = <<"launchContexts", k, "en_vars">>
      <4>1. CASE Here.to = "en_vars_array_value"
        <5>1. Place = locals["launchContext_value"] /\ Here.name = "en_vars"
          BY <3>3, <4>1 DEF Place
        <5>2. PICK k : Place = <<"launchContexts", k>>
          BY <1>2, <1>6, <5>1 DEF Astray
        <5>3. \A x, y, z : Append(<<x, y>>, z) = <<x, y, z>>
          BY TripleIs
        <5> QED
          BY <3>4, <3>6, <4>1, <5>1, <5>2, <5>3
      <4>2. CASE Here.to # "en_vars_array_value"
        BY <1>2, <3>4, <3>5, <4>2 DEF Astray
      <4> QED
        BY <4>1, <4>2
    <3>10. Astray'
      BY <1>2, <3>5, <3>7, <3>8, <3>9 DEF Astray
    <3> QED
      BY <2>2, <3>2, <3>10 DEF BoundToFail
  <2>6. CASE AppendItem
    <3>1. Here.op = "append" /\ Succeeds
      BY <2>6 DEF AppendItem, Answers, Called
    <3>2. CASE Here.on = "en_vars_array_value"
      <4>1. PICK k : Place = <<"launchContexts", k, "en_vars">>
        BY <1>2, <1>6, <3>2 DEF Astray, Place
      <4>2. Type = "string"
        BY <4>1, EarlierVariablesAre DEF Type
      <4>3. "append" \notin Methods("string")
        BY DEF Methods, Getters, Setters, CompoundGetters, CompoundSetters
      <4> QED
        BY <3>1, <4>2, <4>3 DEF Succeeds
    <3>3. CASE Here.on = "launchContexts_value" /\ Here.to = "launchContext_value"
      <4>1. Place = <<"launchContexts">>
        BY <1>2, <1>6, <3>3 DEF Astray, Place
      <4>2. PICK k : k = Len(Value) + 1
        OBVIOUS
      <4>3. locals' = [locals EXCEPT !["launchContext_value"] = Append(Place, k)] /\ todo' = Tail(todo)
        BY <2>6, <3>3, <4>2 DEF AppendItem, Continue
      <4>4. \A x, y : Append(<<x>>, y) = <<x, y>>
        BY PairIs
      <4>5. {"record", "launchContexts_value", "launchContext_value", "en_vars_array_value",
             "en_var_item_value"} \subseteq Locals
        BY DEF Locals
      <4>6. /\ DOMAIN locals' = Locals /\ locals'["launchContext_value"] = <<"launchContexts", k>>
            /\ locals'["record"] = locals["record"]
            /\ locals'["launchContexts_value"] = locals["launchContexts_value"]
            /\ locals'["en_vars_array_value"] = locals["en_vars_array_value"]
            /\ locals'["en_var_item_value"] = locals["en_var_item_value"]
        BY <1>2, <4>1, <4>3, <4>4, <4>5 DEF Astray
      <4>7. Astray'
        BY <1>2, <4>6 DEF Astray
      <4> QED
        BY <2>2, <4>3, <4>7 DEF BoundToFail
    <3> QED
      BY <1>3, <3>1, <3>2, <3>3 DEF IsLaunchCall
  <2>7. CASE GetSize \/ Get \/ SetToZero \/ Allocate \/ Loop \/ ReturnStatus
    BY <2>3, <2>7, OpKinds DEF GetSize, Get, SetToZero, Allocate, Loop, ReturnStatus, Called, Answers
  <2>8. CASE CallUnset
    BY <1>4, <2>8
  <2> QED
    BY <2>4, <2>5, <2>6, <2>7, <2>8 DEF Steps
<1> QED
  BY <1>4, <1>5, <1>6

-----------------------------------------------------------------------------
(* A builder, then a parser.                                                 *)

\* The schemas a message may be written and read with.
SchemasOf == {Schema[form]} \cup Earlier(form)

\* A builder is on its way to the record meant for its schema, or to undefined
\* behaviour.
BuildRuns ==
    phase = "build" =>
        IF Overfull(schema) THEN BoundToFail
        ELSE \E l, o : Run(schema, todo, Now, State(l, Recorded(schema), o, "ok"))

\* The message is what a builder with schema S wrote.
WrittenWith(S) ==
    ~Overfull(S) /\ Write(S, Recorded(S)) = [ok |-> TRUE, bytes |-> msg]

Handed ==
    /\ phase = "built" => WrittenWith(schema)
    /\ phase \in {"parse", "done"} => \E S \in SchemasOf : WrittenWith(S)

\* A parser is on its way to what its caller is to get of the record it read.
ParseRuns ==
    LET R == Read(schema, msg)
    IN  /\ phase \in {"parse", "done"} => R.ok
        /\ phase = "parse" =>
             \E x \in Endings(schema) : \E l :
               Run(schema, todo, Now, State(l, R.value, Outcome(schema, R.value), x))
        /\ phase = "done" => out = Outcome(schema, R.value) /\ status \in Endings(schema)

\* Between its calls the process is as it was.
CallsDone == phase \notin {"build", "parse", "done"} => status = "ok"

CallInv ==
    Typed /\ schema \in SchemasOf /\ BuildRuns /\ Handed /\ ParseRuns /\ CallsDone

LEMMA FormStays ==
    ASSUME form' = form, arg' = arg
    PROVE  /\ Typed' = Typed /\ SchemasOf' = SchemasOf /\ Meant' = Meant
           /\ \A S : /\ Overfull(S)' = Overfull(S) /\ Recorded(S)' = Recorded(S)
                     /\ Endings(S)' = Endings(S)
                     /\ \A R : Outcome(S, R)' = Outcome(S, R)
<1>1. Typed' = Typed
  BY DEF Typed, Given
<1>2. SchemasOf' = SchemasOf
  BY DEF SchemasOf
<1>3. Meant' = Meant
  BY DEF Meant
<1>4. Launched' = Launched
  BY DEF Launched
<1>5. ASSUME NEW S PROVE Overfull(S)' = Overfull(S)
  BY DEF Overfull
<1>6. ASSUME NEW S PROVE Recorded(S)' = Recorded(S)
  BY <1>3, <1>4 DEF Recorded
<1>7. ASSUME NEW S PROVE Endings(S)' = Endings(S)
  BY DEF Endings
<1>8. ASSUME NEW S, NEW R PROVE Outcome(S, R)' = Outcome(S, R)
  BY DEF Outcome
<1> QED
  BY <1>1, <1>2, <1>3, <1>5, <1>6, <1>7, <1>8

\* The locals of a function that is called.
LEMMA FreshLocals ==
    ASSUME NEW l, l = [v \in Locals |-> IF v = "record" THEN <<>> ELSE Garbage]
    PROVE  l \in Fresh
<1>1. <<>> \in Places /\ "record" \in Locals /\ <<>> \in Marks
  BY DEF Places, Locals, Marks
<1> QED
  BY <1>1 DEF Fresh, Frames

\* Where each action leads.
LEMMA InitCalls == Init => CallInv
<1> SUFFICES ASSUME Init PROVE CallInv
  OBVIOUS
<1>1. \A f \in ArrayForms : Scalars(f) = {<<>>}
  BY DEF ArrayForms, Scalars
<1>2. <<>> \in Seq(Items(form))
  OBVIOUS
<1>3. form \in Forms /\ arg \in Scalars(form) /\ phase = "fill" /\ schema = Schema[form] /\ status = "ok"
  BY DEF Init, NothingFilled
<1>4. arg \in Given(form)
  BY <1>1, <1>2, <1>3 DEF Given
<1> QED
  BY <1>3, <1>4 DEF CallInv, Typed, SchemasOf, BuildRuns, Handed, ParseRuns, CallsDone

LEMMA FillCalls == CallInv /\ Fill => CallInv'
<1> SUFFICES ASSUME CallInv, Fill PROVE CallInv'
  OBVIOUS
<1>1. /\ AddItem /\ phase = "fill" /\ phase' = "fill" /\ schema' = schema /\ status' = status
  BY DEF Fill
<1>2. form \in ArrayForms
  BY <1>1 DEF AddItem, Items, ArrayForms
<1>3. PICK item \in Items(form) : arg' = Append(arg, item)
  BY <1>1 DEF AddItem
<1>4. form' = form
  BY <1>1 DEF AddItem
<1>5. arg \in Seq(Items(form))
  BY <1>2 DEF CallInv, Typed, Given
<1>6. Append(arg, item) \in Seq(Items(form))
  BY <1>5
<1>7. Typed'
  BY <1>2, <1>3, <1>4, <1>6 DEF CallInv, Typed, Given
<1>8. SchemasOf' = SchemasOf
  BY <1>4 DEF SchemasOf
<1> QED
  BY <1>1, <1>7, <1>8 DEF CallInv, BuildRuns, Handed, ParseRuns, CallsDone

LEMMA StartBuildCalls == CallInv /\ StartBuild => CallInv'
<1> SUFFICES ASSUME CallInv, StartBuild PROVE CallInv'
  OBVIOUS
<1>1. PICK S \in SchemasOf : Enter("build", S, New(S), BuilderCalls)
  BY DEF StartBuild, SchemasOf
<1>2. /\ form' = form /\ arg' = arg /\ out' = out /\ phase' = "build" /\ schema' = S
      /\ record' = New(S) /\ todo' = BuilderCalls /\ status' = "ok"
      /\ locals' = [v \in Locals |-> IF v = "record" THEN <<>> ELSE Garbage]
  BY <1>1 DEF StartBuild, Enter
<1>3. Now' = State(locals', New(S), out, "ok")
  BY <1>2 DEF Now
<1>4. locals' \in Fresh
  BY <1>2, FreshLocals
<1>5. ASSUME ~Overfull(S)
      PROVE  \E l, o : Run(S, todo', Now', State(l, Recorded(S), o, "ok"))
  <2>1. Turns(S, Fresh, BuilderCalls, New(S), Recorded(S))
    BY <1>5, RecordedTurns DEF CallInv, SchemasOf
  <2> QED
    BY <1>2, <1>3, <1>4, <2>1 DEF Turns
<1>6. ASSUME Overfull(S)
      PROVE  BoundToFail'
  <2>1. form = "LAUNCH" /\ \E i \in DOMAIN arg : arg[i].en_vars # <<>>
    BY <1>6 DEF Overfull
  <2>2. LaunchCalls(LaunchRequestCalls) /\ Loads(LaunchRequestCalls)
    BY <2>1, LaunchRequestIsLaunchCalls DEF CallInv
  <2>3. todo' = LaunchRequestCalls
    BY <1>2, <2>1 DEF BuilderCalls
  <2>4. {"record", "launchContexts_value", "launchContext_value", "en_vars_array_value",
         "en_var_item_value"} \subseteq Locals
    BY DEF Locals
  <2>5. Astray'
    BY <1>2, <2>4 DEF Astray
  <2> QED
    BY <2>2, <2>3, <2>5 DEF BoundToFail
<1>7. BuildRuns'
  BY <1>2, <1>5, <1>6, FormStays DEF BuildRuns
<1> QED
  BY <1>1, <1>2, <1>7, FormStays DEF CallInv, Handed, ParseRuns, CallsDone

LEMMA StepCalls == CallInv /\ Steps => CallInv'
<1> SUFFICES ASSUME CallInv, Steps PROVE CallInv'
  OBVIOUS
<1>1. /\ form' = form /\ arg' = arg /\ phase' = phase /\ schema' = schema /\ msg' = msg
      /\ phase \in {"build", "parse"}
  BY DEF Steps, CallUnset, CallFails, GetChild, AppendItem, GetSize, Set, Get, SetToZero,
         Allocate, Loop, ReturnStatus, Called, Answers, Busy
<1>2. ASSUME phase = "build", ~Overfull(schema)
      PROVE  \E l, o : Run(schema, todo', Now', State(l, Recorded(schema), o, "ok"))
  <2>1. PICK l, o : Run(schema, todo, Now, State(l, Recorded(schema), o, "ok"))
    BY <1>2 DEF CallInv, BuildRuns
  <2> QED
    BY <2>1, CallFollows
<1>3. ASSUME phase = "build", Overfull(schema)
      PROVE  BoundToFail'
  BY <1>3, FailingSteps DEF CallInv, BuildRuns, Overfull
<1>4. BuildRuns'
  BY <1>1, <1>2, <1>3, FormStays DEF BuildRuns
<1>5. PICK R : R = Read(schema, msg)
  OBVIOUS
<1>6. ASSUME phase = "parse"
      PROVE  \E x \in Endings(schema) : \E l :
               Run(schema, todo', Now', State(l, R.value, Outcome(schema, R.value), x))
  <2>1. PICK x, l :
          x \in Endings(schema) /\ Run(schema, todo, Now, State(l, R.value, Outcome(schema, R.value), x))
    BY <1>5, <1>6 DEF CallInv, ParseRuns
  <2> QED
    BY <2>1, CallFollows
<1>7. Read(schema, msg)' = R
  BY <1>1, <1>5
<1>8. ParseRuns'
  <2>1. phase = "parse" => R.ok
    BY <1>5 DEF CallInv, ParseRuns
  <2>2. ASSUME phase = "parse"
        PROVE  (\E x \in Endings(schema) : \E l :
                  Run(schema, todo, Now, State(l, Read(schema, msg).value,
                                               Outcome(schema, Read(schema, msg).value), x)))'
    <3>1. PICK x, l :
            x \in Endings(schema) /\ Run(schema, todo', Now', State(l, R.value, Outcome(schema, R.value), x))
      BY <1>6, <2>2
    <3>2. Endings(schema)' = Endings(schema)
      BY <1>1, FormStays
    <3>3. Outcome(schema, Read(schema, msg).value)' = Outcome(schema, R.value)
      BY <1>1, <1>7, FormStays
    <3> QED
      BY <1>1, <1>7, <3>1, <3>2, <3>3
  <2> QED
    BY <1>1, <1>7, <2>1, <2>2 DEF ParseRuns
<1>9. Handed'
  BY <1>1, FormStays DEF CallInv, Handed, WrittenWith
<1> QED
  BY <1>1, <1>4, <1>8, <1>9, FormStays DEF CallInv, CallsDone

LEMMA EndBuildCalls == CallInv /\ EndBuild => CallInv'
<1> SUFFICES ASSUME CallInv, EndBuild PROVE CallInv'
  OBVIOUS
<1>1. /\ form' = form /\ arg' = arg /\ schema' = schema /\ todo = <<>> /\ phase = "build"
      /\ status # "undefined" /\ status' = status
      /\ phase' = IF Write(schema, record).ok THEN "built" ELSE "exited"
      /\ Write(schema, record).ok => msg' = Write(schema, record).bytes
  BY DEF EndBuild
<1>2. ~Overfull(schema)
  <2>1. ~BoundToFail
    <3>1. ~Loads(<<>>)
      BY DEF Loads
    <3> QED
      BY <1>1, <3>1 DEF BoundToFail
  <2> QED
    BY <1>1, <2>1 DEF CallInv, BuildRuns
<1>3. PICK l, o : Run(schema, todo, Now, State(l, Recorded(schema), o, "ok"))
  BY <1>1, <1>2 DEF CallInv, BuildRuns
<1>4. Now = State(l, Recorded(schema), o, "ok")
  BY <1>1, <1>3, RunEnd
<1>5. record = Recorded(schema) /\ status = "ok"
  BY <1>4 DEF Now, State
<1>6. Write(schema, record).ok =>
        Write(schema, record) = [ok |-> TRUE, bytes |-> Write(schema, record).bytes]
  BY DEF Write
<1>7. phase' = "built" => WrittenWith(schema)'
  <2> SUFFICES ASSUME phase' = "built" PROVE WrittenWith(schema)'
    OBVIOUS
  <2>1. Write(schema, record) = [ok |-> TRUE, bytes |-> msg']
    BY <1>1, <1>6
  <2>2. Overfull(schema)' = Overfull(schema) /\ Recorded(schema)' = Recorded(schema)
    BY <1>1, FormStays
  <2> QED
    BY <1>1, <1>2, <1>5, <2>1, <2>2 DEF WrittenWith
<1>8. phase' \in {"built", "exited"}
  BY <1>1
<1> QED
  BY <1>1, <1>5, <1>7, <1>8, FormStays DEF CallInv, BuildRuns, Handed, ParseRuns, CallsDone

\* The message handed over is bytes.
LEMMA WrittenIsBytes ==
    ASSUME Typed, NEW S \in SchemasOf, WrittenWith(S)
    PROVE  msg \in Bytes
<1>1. ~Overfull(S) /\ Write(S, Recorded(S)) = [ok |-> TRUE, bytes |-> msg]
  BY DEF WrittenWith
<1>2. Write(S, Recorded(S)).ok /\ Write(S, Recorded(S)).bytes = msg
  BY <1>1
<1> QED
  BY <1>1, <1>2, RecordedIsBytes DEF SchemasOf

LEMMA StartParseCalls == CallInv /\ StartParse => CallInv'
<1> SUFFICES ASSUME CallInv, StartParse PROVE CallInv'
  OBVIOUS
<1>1. PICK S \in SchemasOf : Read(S, msg).ok /\ Enter("parse", S, Read(S, msg).value, ParserCalls)
  BY DEF StartParse, SchemasOf
<1>2. PICK R : R = Read(S, msg).value
  OBVIOUS
<1>3. /\ form' = form /\ arg' = arg /\ msg' = msg /\ out' = Unset /\ phase = "built"
      /\ phase' = "parse" /\ schema' = S /\ record' = R /\ todo' = ParserCalls /\ status' = "ok"
      /\ locals' = [v \in Locals |-> IF v = "record" THEN <<>> ELSE Garbage]
  BY <1>1, <1>2 DEF StartParse, Enter
<1>4. Now' = State(locals', R, Unset, "ok")
  BY <1>3 DEF Now
<1>5. locals' \in Fresh
  BY <1>3, FreshLocals
<1>6. WrittenWith(schema) /\ msg \in Bytes
  BY <1>3, WrittenIsBytes DEF CallInv, Handed
<1>7. Gets(S, Endings(S), R, Fresh, ParserCalls, Unset, Outcome(S, R))
  BY <1>1, <1>2, <1>6, ParserGets DEF CallInv, Typed, SchemasOf
<1>8. "ok" \in Endings(S)
  BY DEF Endings
<1>9. PICK x, l : x \in Endings(S) /\ Run(S, todo', Now', State(l, R, Outcome(S, R), x))
  BY <1>3, <1>4, <1>5, <1>7, <1>8 DEF Gets
<1>10. ParseRuns'
  <2>1. /\ Endings(schema)' = Endings(S) /\ Read(schema, msg)' = Read(S, msg)
        /\ Outcome(schema, Read(schema, msg).value)' = Outcome(S, R)
    BY <1>2, <1>3, FormStays
  <2> QED
    BY <1>1, <1>2, <1>3, <1>9, <2>1 DEF ParseRuns
<1>11. Handed'
  <2>1. PICK T : T = schema
    OBVIOUS
  <2>2. T \in SchemasOf' /\ WrittenWith(T)'
    BY <1>3, <1>6, <2>1, FormStays DEF CallInv, WrittenWith
  <2> QED
    BY <1>3, <2>2 DEF Handed
<1> QED
  BY <1>1, <1>3, <1>10, <1>11, FormStays DEF CallInv, BuildRuns, CallsDone

LEMMA ParseExitsCalls == CallInv /\ ParseExits => CallInv'
<1> SUFFICES ASSUME CallInv, ParseExits PROVE CallInv'
  OBVIOUS
<1>1. /\ form' = form /\ arg' = arg /\ schema' = schema /\ status' = status
      /\ phase = "built" /\ phase' = "exited"
  BY DEF ParseExits
<1> QED
  BY <1>1, FormStays DEF CallInv, BuildRuns, Handed, ParseRuns, CallsDone

LEMMA EndParseCalls == CallInv /\ EndParse => CallInv'
<1> SUFFICES ASSUME CallInv, EndParse PROVE CallInv'
  OBVIOUS
<1>1. /\ form' = form /\ arg' = arg /\ schema' = schema /\ status' = status /\ out' = out
      /\ msg' = msg /\ phase = "parse" /\ todo = <<>> /\ phase' = "done"
  BY DEF EndParse
<1>2. PICK R : R = Read(schema, msg).value
  OBVIOUS
<1>3. PICK x, l : x \in Endings(schema) /\ Run(schema, todo, Now, State(l, R, Outcome(schema, R), x))
  BY <1>1, <1>2 DEF CallInv, ParseRuns
<1>4. Now = State(l, R, Outcome(schema, R), x)
  BY <1>1, <1>3, RunEnd
<1>5. out = Outcome(schema, R) /\ status = x
  BY <1>4 DEF Now, State
<1>6. Read(schema, msg).ok
  BY <1>1 DEF CallInv, ParseRuns
<1>7. ParseRuns'
  <2>1. /\ Endings(schema)' = Endings(schema) /\ Read(schema, msg)' = Read(schema, msg)
        /\ Outcome(schema, Read(schema, msg).value)' = Outcome(schema, R)
    BY <1>1, <1>2, FormStays
  <2> QED
    BY <1>1, <1>3, <1>5, <1>6, <2>1 DEF ParseRuns
<1>8. Handed'
  <2>1. PICK T \in SchemasOf : WrittenWith(T)
    BY <1>1 DEF CallInv, Handed
  <2>2. T \in SchemasOf' /\ WrittenWith(T)'
    BY <1>1, <2>1, FormStays DEF WrittenWith
  <2> QED
    BY <1>1, <2>2 DEF Handed
<1> QED
  BY <1>1, <1>7, <1>8, FormStays DEF CallInv, BuildRuns, CallsDone

\* From its first call to its last a builder is on its way to the record meant,
\* and a parser to what its caller is to get.
THEOREM CallsRun == Spec => []CallInv
<1>1. CallInv /\ [Next]_vars => CallInv'
  <2>1. ASSUME CallInv, UNCHANGED vars PROVE CallInv'
    <3>1. /\ form' = form /\ arg' = arg /\ phase' = phase /\ schema' = schema /\ todo' = todo
          /\ out' = out /\ msg' = msg /\ status' = status /\ locals' = locals /\ record' = record
      BY <2>1 DEF vars
    <3>2. Typed' /\ (schema \in SchemasOf)' /\ CallsDone'
      BY <2>1, <3>1, FormStays DEF CallInv, CallsDone
    <3>3. Handed'
      BY <2>1, <3>1, FormStays DEF CallInv, Handed, WrittenWith
    <3>4. Now' = Now /\ Astray' = Astray
      BY <3>1 DEF Now, Astray
    <3>5. BuildRuns'
      <4>1. BoundToFail' = BoundToFail
        BY <3>1, <3>4 DEF BoundToFail
      <4> QED
        BY <2>1, <3>1, <3>4, <4>1, FormStays DEF CallInv, BuildRuns
    <3>6. ParseRuns'
      BY <2>1, <3>1, <3>4, FormStays DEF CallInv, ParseRuns
    <3> QED
      BY <3>2, <3>3, <3>5, <3>6 DEF CallInv
  <2> QED
    BY <2>1, FillCalls, StartBuildCalls, EndBuildCalls, StartParseCalls, ParseExitsCalls,
       EndParseCalls, StepCalls DEF Next, Steps
<1> QED
  BY <1>1, InitCalls, PTL DEF Spec

\* What a builder leaves in its record, call by call, is the value that Codec
\* says it writes, for arrays, environments and texts of every length.
THEOREM BuilderBuildsMessage == Spec => []BuildsMessage
<1>1. CallInv => BuildsMessage
  <2> SUFFICES ASSUME CallInv, phase = "built", schema = Schema[form]
               PROVE  [ok |-> TRUE, bytes |-> msg] = Built
    BY DEF BuildsMessage
  <2>1. Write(schema, Recorded(schema)) = [ok |-> TRUE, bytes |-> msg]
    BY DEF CallInv, Handed, WrittenWith
  <2>2. Recorded(schema) = Meant
    BY DEF Recorded
  <2> QED
    BY <2>1, <2>2, MeantIsBuilt DEF CallInv, Typed
<1> QED
  BY <1>1, CallsRun, PTL

\* No call of a builder or of a parser fails that has the schema of its message,
\* and none is made on a local that was not set, whatever the message is.
THEOREM NoCallFails == Spec => []CallsSucceed
<1>1. CallInv => CallsSucceed
  <2> SUFFICES ASSUME CallInv, schema = Schema[form] PROVE status = "ok"
    BY DEF CallsSucceed
  <2>1. CASE phase = "build"
    <3>1. ~Overfull(schema)
      BY LaunchSchemasDiffer DEF Overfull, Schema
    <3>2. PICK l, o : Run(schema, todo, Now, State(l, Recorded(schema), o, "ok"))
      BY <2>1, <3>1 DEF CallInv, BuildRuns
    <3>3. Now.status \in {"ok", State(l, Recorded(schema), o, "ok").status}
      BY <3>2, RunStatus
    <3> QED
      BY <3>3 DEF Now, State
  <2>2. CASE phase = "parse"
    <3>1. PICK r, p : r = Read(schema, msg).value /\ p = Outcome(schema, r)
      OBVIOUS
    <3>2. PICK x, l : x \in Endings(schema) /\ Run(schema, todo, Now, State(l, r, p, x))
      BY <2>2, <3>1 DEF CallInv, ParseRuns
    <3>3. Now.status \in {"ok", State(l, r, p, x).status}
      BY <3>2, RunStatus
    <3> QED
      BY <3>2, <3>3 DEF Now, State, Endings
  <2>3. CASE phase = "done"
    BY <2>3 DEF CallInv, ParseRuns, Endings
  <2> QED
    BY <2>1, <2>2, <2>3 DEF CallInv, CallsDone
<1> QED
  BY <1>1, CallsRun, PTL

\* What a parser has stored when it returns is what Codec says of the bytes it
\* was given, for messages of every length and for those that were written with
\* an earlier schema.
THEOREM ParserParsesMessage == Spec => []ParsesMessage
<1>1. CallInv => ParsesMessage
  <2> SUFFICES ASSUME CallInv, phase = "done", schema = Schema[form]
               PROVE  [ok |-> TRUE, result |-> out] = Parsed(msg)
    BY DEF ParsesMessage
  <2>1. PICK S \in SchemasOf : WrittenWith(S)
    BY DEF CallInv, Handed
  <2>2. msg \in Bytes
    BY <2>1, WrittenIsBytes DEF CallInv
  <2>3. Read(schema, msg).ok /\ out = Outcome(schema, Read(schema, msg).value)
    BY DEF CallInv, ParseRuns
  <2> QED
    BY <2>2, <2>3, OutcomeIsParsed DEF CallInv, Typed
<1> QED
  BY <1>1, CallsRun, PTL

\* Undefined behaviour is met by one function only: the builder of a launch
\* request with an environment whose schema is the earlier one.
THEOREM OnlyEnvironmentsAreUndefined == Spec => []UndefinedIsEnvironment
<1>1. CallInv => UndefinedIsEnvironment
  <2> SUFFICES ASSUME CallInv, status = "undefined"
               PROVE  phase = "build" /\ Overfull(schema)
    BY DEF UndefinedIsEnvironment, Overfull
  <2>1. phase \in {"build", "parse", "done"}
    BY DEF CallInv, CallsDone
  <2>2. ASSUME phase = "parse" PROVE FALSE
    <3>1. PICK r, p : r = Read(schema, msg).value /\ p = Outcome(schema, r)
      OBVIOUS
    <3>2. PICK x, l : x \in Endings(schema) /\ Run(schema, todo, Now, State(l, r, p, x))
      BY <2>2, <3>1 DEF CallInv, ParseRuns
    <3>3. Now.status \in {"ok", State(l, r, p, x).status}
      BY <3>2, RunStatus
    <3> QED
      BY <3>2, <3>3 DEF Now, State, Endings
  <2>3. phase # "done"
    BY DEF CallInv, ParseRuns, Endings
  <2>4. phase = "build"
    BY <2>1, <2>2, <2>3
  <2>5. ASSUME ~Overfull(schema) PROVE FALSE
    <3>1. PICK l, o : Run(schema, todo, Now, State(l, Recorded(schema), o, "ok"))
      BY <2>4, <2>5 DEF CallInv, BuildRuns
    <3>2. Now.status \in {"ok", State(l, Recorded(schema), o, "ok").status}
      BY <3>1, RunStatus
    <3> QED
      BY <3>2 DEF Now, State
  <2> QED
    BY <2>4, <2>5
<1> QED
  BY <1>1, CallsRun, PTL

\* What a message of one null field is worth: whatever was sent, the parser
\* says success with the earlier schema and failure with the one in use.
THEOREM StatusIsOfSchema == Spec => []StatusTellsSchema
<1>1. CallInv => StatusTellsSchema
  <2> SUFFICES ASSUME CallInv, phase = "done", Earlier(form) = {NoFields}
               PROVE  out = 0 <=> schema = NoFields
    BY DEF StatusTellsSchema
  <2>1. form \in StatusForms
    BY StatusFormsAre
  <2>2. out = Outcome(schema, Read(schema, msg).value)
    BY DEF CallInv, ParseRuns
  <2>3. out = IF schema = NoFields THEN 0 ELSE -1
    BY <2>1, <2>2 DEF Outcome, StatusForms
  <2> QED
    BY <2>3
<1> QED
  BY <1>1, CallsRun, PTL

-----------------------------------------------------------------------------
(* What a parser hands out is all there.                                     *)

\* Where the schema has one version only, what is read is what was meant.
LEMMA ReadIsMeant ==
    ASSUME CallInv, phase = "done", Earlier(form) = {}
    PROVE  schema = Schema[form] /\ Read(schema, msg).value = Meant
<1>1. PICK S \in SchemasOf : WrittenWith(S)
  BY DEF CallInv, Handed
<1>2. schema = Schema[form] /\ S = Schema[form]
  BY DEF CallInv, SchemasOf
<1>3. Write(S, Meant) = [ok |-> TRUE, bytes |-> msg]
  BY <1>1, <1>2 DEF WrittenWith, Recorded
<1>4. Write(S, Meant).ok /\ Write(S, Meant).bytes = msg
  BY <1>3
<1>5. IsValue(S, Meant)
  BY <1>2, MeantIsValue DEF CallInv
<1>6. Read(S, msg) = Got(Meant, <<>>)
  BY <1>4, <1>5, WrittenIsRead
<1> QED
  BY <1>2, <1>6 DEF Got

\* The array a parser fills, from the elements of the record it read.
LEMMA HandedStructsAre ==
    ASSUME NEW T, NEW ws, DOMAIN ws = 1..Len(ws), Len(ws) \in Nat,
           NEW o, o = [i \in DOMAIN ws |-> o[i]], \A i \in DOMAIN ws : o[i] \in T
    PROVE  o \in Seq(T)
<1>1. DOMAIN o = 1..Len(ws) /\ \A i \in 1..Len(ws) : o[i] \in T
  OBVIOUS
<1>2. PICK n \in Nat : n = Len(ws)
  OBVIOUS
<1>3. o = [i \in 1..n |-> o[i]] /\ \A i \in 1..n : o[i] \in T
  BY <1>1, <1>2
<1>4. o \in [1..n -> T]
  BY <1>3
<1> QED
  BY <1>2, <1>4, SeqDef

LEMMA OutcomeIsStruct ==
    ASSUME CallInv, phase = "done"
    PROVE  IF form \in ArrayForms THEN out \in Seq(Struct(form)) ELSE out \in Struct(form)
<1>1. PICK R : R = Read(schema, msg).value
  OBVIOUS
<1>2. out = Outcome(schema, R) /\ Read(schema, msg).ok /\ schema \in SchemasOf
  BY <1>1 DEF CallInv, ParseRuns
<1>3. msg \in Bytes
  BY WrittenIsBytes DEF CallInv, Handed
<1>4. \A V : HasValues(schema, V) => R \in V
  BY <1>1, <1>2, <1>3, ReadHas
<1>5. CASE form = "ALLOCATE"
  <2>1. schema = AllocateRequest
    BY <1>2, <1>5 DEF SchemasOf, Schema, Earlier
  <2>2. R \in [resource_count: Int]
    BY <1>4, <2>1, AllocateRequestHas
  <2> QED
    BY <1>2, <1>5, <2>2 DEF Outcome, Struct, ArrayForms
<1>6. CASE form = "FINISH"
  <2>1. schema = FinishRequest
    BY <1>2, <1>6 DEF SchemasOf, Schema, Earlier
  <2>2. R \in [succeed: BOOLEAN, diagnostics: Bytes]
    BY <1>4, <2>1, FinishRequestHas
  <2> QED
    BY <1>2, <1>6, <2>2 DEF Outcome, Struct, ArrayForms
<1>7. CASE form = "person"
  <2>1. schema = Person
    BY <1>2, <1>7 DEF SchemasOf, Schema, Earlier
  <2>2. R \in [height: Int, weight: Int, name: Bytes]
    BY <1>4, <2>1, PersonHas
  <2>3. R \in [name: Bytes, height: Int, weight: Int]
    BY <2>2
  <2> QED
    BY <1>2, <1>7, <2>3 DEF Outcome, Struct, ArrayForms
<1>8. CASE form = "wrapper"
  <2>1. R = Meant
    BY <1>1, <1>8, ReadIsMeant DEF Earlier
  <2>2. R = [request |-> arg.inner, msg_type |-> Ordinal(msg_type_enum_t, arg.msg_type)]
    BY <1>8, <2>1 DEF Meant
  <2>3. arg \in [inner: Texts, msg_type: Requests]
    BY <1>8 DEF CallInv, Typed, Given, Scalars, ArrayForms
  <2>4. arg.inner \in Bytes /\ arg.msg_type \in Requests /\ arg.msg_type \in MsgTypeNames
    BY <2>3, ArgumentsAre DEF Requests, MsgTypeNames
  <2>5. PICK x : x = arg.msg_type
    OBVIOUS
  <2>6. NameOf(msg_type_enum_t, Ordinal(msg_type_enum_t, x)) = x
    BY <2>4, <2>5, EnumeratorsAre
  <2>7. out = [inner |-> arg.inner, msg_type |-> x]
    BY <1>2, <1>8, <2>2, <2>5, <2>6 DEF Outcome
  <2> QED
    BY <1>8, <2>4, <2>5, <2>7 DEF Struct, ArrayForms
<1>9. CASE form = "AllocateResponse"
  <2>1. schema = AllocateResponse
    BY <1>2, <1>9 DEF SchemasOf, Schema, Earlier
  <2>2. R \in [node_resources: Seq(Nodes)]
    BY <1>4, <2>1, AllocateResponseHas
  <2>3. PICK ws \in Seq(Nodes) : ws = R.node_resources
    BY <2>2
  <2>4. out = [i \in DOMAIN ws |-> [host_name |-> ws[i].host_name, slot_num |-> ws[i].slot]]
    BY <1>2, <1>9, <2>3 DEF Outcome
  <2>5. PICK T : T = [host_name: Bytes, slot_num: Int]
    OBVIOUS
  <2>6. ASSUME NEW i \in DOMAIN ws PROVE out[i] \in T
    <3>1. PICK w \in Nodes : w = ws[i]
      BY <2>3
    <3>2. out[i] = [host_name |-> w.host_name, slot_num |-> w.slot]
      BY <2>4, <3>1
    <3> QED
      BY <2>5, <3>1, <3>2 DEF Nodes
  <2>7. out = [i \in DOMAIN ws |-> out[i]] /\ DOMAIN ws = 1..Len(ws) /\ Len(ws) \in Nat
    BY <2>3, <2>4
  <2>8. out \in Seq(T)
    BY <2>6, <2>7, HandedStructsAre
  <2> QED
    BY <1>9, <2>5, <2>8 DEF Struct, ArrayForms
<1>10. CASE form = "LaunchResponse"
  <2>1. schema = LaunchResponse
    BY <1>2, <1>10 DEF SchemasOf, Schema, Earlier
  <2>2. R \in [results: Seq(Results)]
    BY <1>4, <2>1, LaunchResponseHas
  <2>3. PICK ws \in Seq(Results) : ws = R.results
    BY <2>2
  <2>4. out = [i \in DOMAIN ws |-> [is_successful |-> ws[i].is_successful, proc_name |-> ws[i].name]]
    BY <1>2, <1>10, <2>3 DEF Outcome
  <2>5. PICK T : T = [is_successful: BOOLEAN, proc_name: ProcessNames]
    OBVIOUS
  <2>6. ASSUME NEW i \in DOMAIN ws PROVE out[i] \in T
    <3>1. PICK w \in Results : w = ws[i]
      BY <2>3
    <3>2. out[i] = [is_successful |-> w.is_successful, proc_name |-> w.name]
      BY <2>4, <3>1
    <3> QED
      BY <2>5, <3>1, <3>2 DEF Results
  <2>7. out = [i \in DOMAIN ws |-> out[i]] /\ DOMAIN ws = 1..Len(ws) /\ Len(ws) \in Nat
    BY <2>3, <2>4
  <2>8. out \in Seq(T)
    BY <2>6, <2>7, HandedStructsAre
  <2> QED
    BY <1>10, <2>5, <2>8 DEF Struct, ArrayForms, ProcessNames
<1>11. CASE form = "HeartBeatResponse"
  <2>1. R = Meant
    BY <1>1, <1>11, ReadIsMeant DEF Earlier
  <2>2. PICK ws : ws = R.completed_processes
    OBVIOUS
  <2>3. ws = [i \in DOMAIN arg |->
              [name |-> arg[i].proc_name,
               state |-> Ordinal(process_state_enum_t, arg[i].proc_state),
               exit_value |-> arg[i].exit_value]]
    BY <1>11, <2>1, <2>2 DEF Meant
  <2>4. arg \in Seq(Items("HeartBeatResponse"))
    BY <1>11 DEF CallInv, Typed, Given, ArrayForms
  <2>5. ASSUME NEW i \in DOMAIN arg
        PROVE  /\ arg[i].proc_name \in ProcessNames /\ arg[i].exit_value \in Int
               /\ arg[i].proc_state \in ProcessStateNames
    <3>1. arg[i] \in Items("HeartBeatResponse")
      BY <2>4
    <3>2. arg[i] \in [proc_name: Names, proc_state: {"RUNNING", "COMPLETED"}, exit_value: Ints]
      BY <3>1 DEF Items
    <3> QED
      BY <3>2, ArgumentsAre DEF ProcessStateNames
  <2>6. out = [i \in DOMAIN ws |->
               [proc_name |-> ws[i].name, proc_state |-> NameOf(process_state_enum_t, ws[i].state),
                exit_value |-> ws[i].exit_value]]
    BY <1>2, <1>11, <2>2 DEF Outcome
  <2>7. DOMAIN ws = DOMAIN arg /\ Len(arg) \in Nat /\ DOMAIN arg = 1..Len(arg) /\ Len(ws) = Len(arg)
    BY <2>3, <2>4
  <2>8. ASSUME NEW i \in DOMAIN ws
        PROVE  out[i] \in [proc_name: ProcessNames, proc_state: ProcessStateNames, exit_value: Int]
    <3>1. PICK x : x = arg[i].proc_state
      OBVIOUS
    <3>2. x \in ProcessStateNames /\ NameOf(process_state_enum_t, Ordinal(process_state_enum_t, x)) = x
      BY <2>5, <2>7, <3>1, EnumeratorsAre
    <3>3. /\ ws[i].name = arg[i].proc_name /\ ws[i].exit_value = arg[i].exit_value
          /\ ws[i].state = Ordinal(process_state_enum_t, x)
      BY <2>3, <2>7, <3>1
    <3>4. out[i] = [proc_name |-> arg[i].proc_name, proc_state |-> x, exit_value |-> arg[i].exit_value]
      BY <2>6, <3>2, <3>3
    <3> QED
      BY <2>5, <2>7, <3>2, <3>4
  <2>9. out \in Seq([proc_name: ProcessNames, proc_state: ProcessStateNames, exit_value: Int])
    BY <2>6, <2>7, <2>8, HandedStructsAre
  <2> QED
    BY <1>11, <2>9 DEF Struct, ArrayForms, ProcessNames, ProcessStateNames
<1>12. CASE form = "LAUNCH"
  <2>1. PICK ws : ws = R.launchContexts
    OBVIOUS
  <2>2. PICK C : C = [en_vars: Seq(Bytes), args: Bytes, host_name: Bytes, proc_name: ProcessNames]
    OBVIOUS
  <2>3. out = [i \in DOMAIN ws |->
              [en_vars |-> IF schema = LaunchRequest THEN ws[i].en_vars ELSE <<>>,
               args |-> ws[i].args, host_name |-> ws[i].host_name,
               proc_name |-> ws[i].name]]
    BY <1>2, <1>12, <2>1 DEF Outcome
  <2>4. PICK D : /\ ws \in Seq(D)
                 /\ schema = LaunchRequest => D = ContextRecords
                 /\ schema # LaunchRequest => D = EarlierContextRecords
    <3>1. CASE schema = LaunchRequest
      <4>1. R \in [launchContexts: Seq(ContextRecords)]
        BY <1>4, <3>1, LaunchRequestHas
      <4> QED
        BY <2>1, <3>1, <4>1
    <3>2. CASE schema # LaunchRequest
      <4>1. schema = EarlierLaunchRequest
        BY <1>2, <1>12, <3>2 DEF SchemasOf, Schema, Earlier
      <4>2. R \in [launchContexts: Seq(EarlierContextRecords)]
        BY <1>4, <4>1, EarlierRequestHas
      <4> QED
        BY <2>1, <3>2, <4>2
    <3> QED
      BY <3>1, <3>2
  <2>5. ASSUME NEW i \in DOMAIN ws PROVE out[i] \in C
    <3>1. PICK w \in D : w = ws[i]
      BY <2>4
    <3>2. PICK e : e = IF schema = LaunchRequest THEN w.en_vars ELSE <<>>
      OBVIOUS
    <3>3. out[i] = [en_vars |-> e, args |-> w.args, host_name |-> w.host_name, proc_name |-> w.name]
      BY <2>3, <3>1, <3>2
    <3>4. w.args \in Bytes /\ w.host_name \in Bytes /\ w.name \in ProcessNames
      BY <2>4, <3>1 DEF ContextRecords, EarlierContextRecords
    <3>5. e \in Seq(Bytes)
      <4>1. <<>> \in Seq(Bytes)
        OBVIOUS
      <4>2. schema = LaunchRequest => w.en_vars \in Seq(Bytes)
        BY <2>4, <3>1 DEF ContextRecords
      <4> QED
        BY <3>2, <4>1, <4>2
    <3> QED
      BY <2>2, <3>3, <3>4, <3>5
  <2>6. out = [i \in DOMAIN ws |-> out[i]] /\ DOMAIN ws = 1..Len(ws) /\ Len(ws) \in Nat
    BY <2>3, <2>4
  <2>7. out \in Seq(C)
    BY <2>5, <2>6, HandedStructsAre
  <2> QED
    BY <1>12, <2>2, <2>7 DEF Struct, ArrayForms, ProcessNames
<1>13. CASE form \in StatusForms
  <2>1. out = IF schema = NoFields THEN 0 ELSE -1
    BY <1>2, <1>13 DEF Outcome, StatusForms
  <2>2. out \in Int
    BY <2>1
  <2> QED
    BY <1>13, <2>2 DEF Struct, ArrayForms, StatusForms
<1> QED
  BY <1>5, <1>6, <1>7, <1>8, <1>9, <1>10, <1>11, <1>12, <1>13
     DEF CallInv, Typed, Forms, Requests, Responses, StatusForms

\* A struct with no garbage in it, nor in its vectors and names.
AllKnown(s) ==
    \A f \in DOMAIN s :
      /\ s[f] # Garbage
      /\ f \in {"en_vars", "proc_name"} => \A g \in DOMAIN s[f] : s[f][g] # Garbage

LEMMA ValuesAreKnown ==
    /\ \A x \in Bytes : x # Garbage
    /\ \A x \in Int : x # Garbage
    /\ \A x \in BOOLEAN : x # Garbage
    /\ \A x \in Requests : x # Garbage
    /\ \A x \in {"RUNNING", "COMPLETED"} : x # Garbage
    /\ \A x \in Seq(Bytes) : x # Garbage /\ \A g \in DOMAIN x : x[g] # Garbage
    /\ \A x \in [jobid: Int, vpid: Int] : x # Garbage /\ \A g \in DOMAIN x : x[g] # Garbage
<1>1. ASSUME NEW x \in Bytes PROVE x \in Seq(Keys)
  <2>1. PICK B : B = Byte
    OBVIOUS
  <2>2. \A y \in B : y \in Keys
    BY <2>1 DEF Keys, Byte
  <2>3. x \in Seq(B)
    BY <2>1 DEF Bytes
  <2>4. /\ Len(x) \in Nat /\ DOMAIN x = 1..Len(x) /\ x = [i \in DOMAIN x |-> x[i]]
        /\ \A i \in DOMAIN x : x[i] \in Keys
    BY <2>2, <2>3
  <2>5. x \in [1..Len(x) -> Keys]
    BY <2>4
  <2> QED
    BY <2>4, <2>5, SeqDef
<1>2. \A x \in Bytes : x # Garbage
  BY <1>1, GarbageAssumption
<1>3. ASSUME NEW x \in Seq(Bytes) PROVE x # Garbage /\ \A g \in DOMAIN x : x[g] # Garbage
  <2>1. x # Garbage
    BY UnsetAssumption
  <2>2. \A g \in DOMAIN x : x[g] \in Bytes
    OBVIOUS
  <2> QED
    BY <1>2, <2>1, <2>2
<1>4. ASSUME NEW x \in [jobid: Int, vpid: Int]
      PROVE  x # Garbage /\ \A g \in DOMAIN x : x[g] # Garbage
  <2>1. x # Garbage
    BY UnsetAssumption
  <2>2. \A g \in DOMAIN x : x[g] \in Int
    OBVIOUS
  <2> QED
    BY <2>1, <2>2, GarbageAssumption
<1>5. \A x \in Int : x # Garbage
  BY GarbageAssumption
<1>6. (\A x \in BOOLEAN : x # Garbage) /\ (\A x \in Requests : x # Garbage)
      /\ \A x \in {"RUNNING", "COMPLETED"} : x # Garbage
  BY UnsetAssumption
<1> QED
  BY <1>2, <1>3, <1>4, <1>5, <1>6

LEMMA StructsAreKnown ==
    ASSUME form \in ArrayForms \cup {"FINISH", "wrapper", "person"}, NEW s \in Struct(form)
    PROVE  AllKnown(s)
<1> DEFINE name == [jobid: Int, vpid: Int]
<1>1. CASE form = "LAUNCH"
  <2>1. s \in [en_vars: Seq(Bytes), args: Bytes, host_name: Bytes, proc_name: name]
    BY <1>1 DEF Struct
  <2>2. /\ DOMAIN s = {"en_vars", "args", "host_name", "proc_name"}
        /\ s["en_vars"] \in Seq(Bytes) /\ s["args"] \in Bytes /\ s["host_name"] \in Bytes
        /\ s["proc_name"] \in name
    BY <2>1
  <2> HIDE DEF name
  <2> QED
    BY <2>2, ValuesAreKnown DEF AllKnown, name
<1>2. CASE form = "AllocateResponse"
  <2>1. s \in [host_name: Bytes, slot_num: Int]
    BY <1>2 DEF Struct
  <2>2. DOMAIN s = {"host_name", "slot_num"} /\ s["host_name"] \in Bytes /\ s["slot_num"] \in Int
    BY <2>1
  <2> QED
    BY <2>2, ValuesAreKnown DEF AllKnown
<1>3. CASE form = "LaunchResponse"
  <2>1. s \in [is_successful: BOOLEAN, proc_name: name]
    BY <1>3 DEF Struct
  <2>2. /\ DOMAIN s = {"is_successful", "proc_name"}
        /\ s["is_successful"] \in BOOLEAN /\ s["proc_name"] \in name
    BY <2>1
  <2> QED
    BY <2>2, ValuesAreKnown DEF AllKnown
<1>4. CASE form = "HeartBeatResponse"
  <2>1. s \in [proc_name: name, proc_state: {"RUNNING", "COMPLETED"}, exit_value: Int]
    BY <1>4 DEF Struct
  <2>2. /\ DOMAIN s = {"proc_name", "proc_state", "exit_value"}
        /\ s["proc_name"] \in name /\ s["proc_state"] \in {"RUNNING", "COMPLETED"}
        /\ s["exit_value"] \in Int
    BY <2>1
  <2> QED
    BY <2>2, ValuesAreKnown DEF AllKnown
<1>5. CASE form = "FINISH"
  <2>1. s \in [succeed: BOOLEAN, diagnostics: Bytes]
    BY <1>5 DEF Struct
  <2>2. /\ DOMAIN s = {"succeed", "diagnostics"}
        /\ s["succeed"] \in BOOLEAN /\ s["diagnostics"] \in Bytes
    BY <2>1
  <2> QED
    BY <2>2, ValuesAreKnown DEF AllKnown
<1>6. CASE form = "wrapper"
  <2>1. s \in [inner: Bytes, msg_type: Requests]
    BY <1>6 DEF Struct
  <2>2. DOMAIN s = {"inner", "msg_type"} /\ s["inner"] \in Bytes /\ s["msg_type"] \in Requests
    BY <2>1
  <2> QED
    BY <2>2, ValuesAreKnown DEF AllKnown
<1>7. CASE form = "person"
  <2>1. s \in [name: Bytes, height: Int, weight: Int]
    BY <1>7 DEF Struct
  <2>2. /\ DOMAIN s = {"name", "height", "weight"}
        /\ s["name"] \in Bytes /\ s["height"] \in Int /\ s["weight"] \in Int
    BY <2>1
  <2> QED
    BY <2>2, ValuesAreKnown DEF AllKnown
<1> QED
  BY <1>1, <1>2, <1>3, <1>4, <1>5, <1>6, <1>7 DEF ArrayForms

\* No parser hands out a variable, an element or a member that it did not store,
\* whichever schema its message was written with and it reads it with.
THEOREM ParsersStoreAll == Spec => []NothingUnset
<1>1. CallInv => NothingUnset
  <2> SUFFICES ASSUME CallInv, phase = "done"
               PROVE  /\ out # Garbage
                      /\ Items(form) # {} => \A i \in DOMAIN out : AllKnown(out[i])
                      /\ form \in {"FINISH", "wrapper", "person"} => AllKnown(out)
    BY DEF NothingUnset, AllKnown
  <2>1. form \in Forms
    BY DEF CallInv, Typed
  <2>2. CASE form \in ArrayForms
    <3>1. out \in Seq(Struct(form))
      BY <2>2, OutcomeIsStruct
    <3>2. out # Garbage
      BY <2>1, <3>1, UnsetAssumption
    <3>3. \A i \in DOMAIN out : out[i] \in Struct(form)
      BY <3>1
    <3>4. form \notin {"FINISH", "wrapper", "person"}
      BY <2>2 DEF ArrayForms
    <3> QED
      BY <2>2, <3>2, <3>3, <3>4, StructsAreKnown
  <2>3. CASE form \notin ArrayForms
    <3>1. out \in Struct(form)
      BY <2>3, OutcomeIsStruct
    <3>2. out # Garbage
      BY <2>1, <3>1, UnsetAssumption
    <3>3. Items(form) = {}
      BY <2>3 DEF Items, ArrayForms
    <3> QED
      BY <3>1, <3>2, <3>3, StructsAreKnown
  <2> QED
    BY <2>2, <2>3
<1> QED
  BY <1>1, CallsRun, PTL
=============================================================================
