-------------------------- MODULE ColumnListProofs --------------------------
(***************************************************************************)
(* The positions of the columns implement ColumnList, for any finite set of *)
(* names: what a request does to positions and to ncols is, for the user,   *)
(* one operation on a list that keeps the order of all other columns.       *)
(***************************************************************************)
EXTENDS WorkflowTableProofs, SequenceTheorems

\* The columns R in the order of the positions f.
ListOf(R, f, N) == [i \in 1..N |-> CHOOSE n \in R : f[n] = i]

\* s has the columns R, each one at its position.
Lists(s, R, f, N) ==
    /\ s \in Seq(Names) /\ Len(s) = N
    /\ \A i \in 1..N : s[i] \in R /\ f[s[i]] = i
    /\ \A n \in R : s[f[n]] = n

\* What the list has at each place, if f numbers R.
LEMMA Listing ==
    ASSUME NEW R \in SUBSET Names, NEW f, NEW N \in Nat, NumberedBy(R, f, N)
    PROVE  Lists(ListOf(R, f, N), R, f, N)
<1> DEFINE s == ListOf(R, f, N)
<1>1. ASSUME NEW i \in 1..N PROVE s[i] \in R /\ f[s[i]] = i
  <2>1. \E n \in R : f[n] = i
    BY DEF NumberedBy
  <2> DEFINE c == CHOOSE n \in R : f[n] = i
  <2>2. c \in R /\ f[c] = i
    BY <2>1
  <2>3. s[i] = c
    BY DEF ListOf
  <2> HIDE DEF c, s
  <2>4. QED
    BY <2>2, <2>3
<1>2. s \in [1..N -> Names]
  <2>1. s = [i \in 1..N |-> s[i]]
    BY DEF ListOf
  <2>2. QED
    BY <1>1, <2>1
<1> HIDE DEF s
<1>3. s \in Seq(Names) /\ Len(s) = N
  BY <1>2
<1>4. ASSUME NEW n \in R PROVE s[f[n]] = n
  <2>1. f[n] \in 1..N
    BY DEF NumberedBy
  <2>2. s[f[n]] \in R /\ f[s[f[n]]] = f[n]
    BY <1>1, <2>1
  <2>3. QED
    BY <2>2 DEF NumberedBy
<1>5. QED
  BY <1>1, <1>3, <1>4 DEF Lists, s

\* InsertAt puts one element in and moves those behind it by one.
LEMMA InsertAtProperties ==
    ASSUME NEW S, NEW s \in Seq(S), NEW e \in S, NEW i \in 1..Len(s) + 1
    PROVE  /\ List!InsertAt(s, i, e) \in Seq(S)
           /\ Len(List!InsertAt(s, i, e)) = Len(s) + 1
           /\ \A j \in 1..Len(s) + 1 :
                  List!InsertAt(s, i, e)[j] =
                      IF j < i THEN s[j] ELSE IF j = i THEN e ELSE s[j - 1]
<1> DEFINE a == SubSeq(s, 1, i - 1)
           b == SubSeq(s, i, Len(s))
<1>1. Len(s) \in Nat /\ i \in Int /\ \A j \in 1..Len(s) : s[j] \in S
  BY LenProperties, ElementOfSeq
<1>2. /\ a \in Seq(S) /\ Len(a) = i - 1
      /\ \A j \in 1..i - 1 : a[j] = s[j]
  BY <1>1
<1>3. /\ b \in Seq(S) /\ Len(b) = Len(s) - i + 1
      /\ \A j \in 1..Len(s) - i + 1 : b[j] = s[i + j - 1]
  BY <1>1
<1>4. <<e>> \in Seq(S) /\ Len(<<e>>) = 1 /\ <<e>>[1] = e
  OBVIOUS
<1> HIDE DEF a, b
<1>5. /\ a \o <<e>> \in Seq(S) /\ Len(a \o <<e>>) = i
      /\ \A j \in 1..i : (a \o <<e>>)[j] = IF j < i THEN s[j] ELSE e
  BY <1>1, <1>2, <1>4
<1> DEFINE c == a \o <<e>>
<1>6. /\ c \o b \in Seq(S) /\ Len(c \o b) = Len(s) + 1
      /\ \A j \in 1..Len(s) + 1 : (c \o b)[j] =
             IF j < i THEN s[j] ELSE IF j = i THEN e ELSE s[j - 1]
  <2> HIDE DEF c
  <2>1. /\ c \o b \in Seq(S) /\ Len(c \o b) = Len(s) + 1
        /\ \A j \in 1..Len(s) + 1 :
               (c \o b)[j] = IF j <= i THEN c[j] ELSE b[j - i]
    BY <1>1, <1>3, <1>5 DEF c
  <2>2. ASSUME NEW j \in 1..Len(s) + 1, j > i PROVE b[j - i] = s[j - 1]
    BY <1>1, <1>3, <2>2
  <2>3. ASSUME NEW j \in 1..Len(s) + 1, j <= i
        PROVE  c[j] = IF j < i THEN s[j] ELSE e
    BY <1>1, <1>5, <2>3 DEF c
  <2>4. QED
    BY <1>1, <2>1, <2>2, <2>3
<1>7. List!InsertAt(s, i, e) = c \o b
  BY DEF List!InsertAt, a, b
<1>8. QED
  BY <1>6, <1>7

\* RemoveAt takes one element out and closes the gap.
LEMMA RemoveAtProperties ==
    ASSUME NEW S, NEW s \in Seq(S), NEW i \in 1..Len(s)
    PROVE  /\ List!RemoveAt(s, i) \in Seq(S)
           /\ Len(List!RemoveAt(s, i)) = Len(s) - 1
           /\ \A j \in 1..Len(s) - 1 :
                  List!RemoveAt(s, i)[j] = IF j < i THEN s[j] ELSE s[j + 1]
<1> DEFINE a == SubSeq(s, 1, i - 1)
           b == SubSeq(s, i + 1, Len(s))
<1>1. Len(s) \in Nat /\ i \in Int /\ \A j \in 1..Len(s) : s[j] \in S
  BY LenProperties, ElementOfSeq
<1>2. /\ a \in Seq(S) /\ Len(a) = i - 1
      /\ \A j \in 1..i - 1 : a[j] = s[j]
  BY <1>1
<1>3. /\ b \in Seq(S) /\ Len(b) = Len(s) - i
      /\ \A j \in 1..Len(s) - i : b[j] = s[i + j]
  BY <1>1
<1> HIDE DEF a, b
<1>4. /\ a \o b \in Seq(S) /\ Len(a \o b) = Len(s) - 1
      /\ \A j \in 1..Len(s) - 1 : (a \o b)[j] =
             IF j <= i - 1 THEN a[j] ELSE b[j - (i - 1)]
  <2>1. /\ a \o b \in Seq(S) /\ Len(a \o b) = Len(a) + Len(b)
        /\ \A j \in 1..Len(a) + Len(b) : (a \o b)[j] =
               IF j <= Len(a) THEN a[j] ELSE b[j - Len(a)]
    BY <1>2, <1>3, ConcatProperties
  <2>2. Len(a) = i - 1 /\ Len(a) + Len(b) = Len(s) - 1
    BY <1>1, <1>2, <1>3
  <2>3. QED
    BY <2>1, <2>2
<1>5. ASSUME NEW j \in 1..Len(s) - 1, j >= i PROVE b[j - (i - 1)] = s[j + 1]
  BY <1>1, <1>3, <1>5
<1>6. List!RemoveAt(s, i) = a \o b
  BY DEF List!RemoveAt, a, b
<1>7. ASSUME NEW j \in 1..Len(s) - 1
      PROVE  (a \o b)[j] = IF j < i THEN s[j] ELSE s[j + 1]
  BY <1>1, <1>2, <1>4, <1>5
<1>8. QED
  BY <1>4, <1>6, <1>7
-----------------------------------------------------------------------------
\* Making room at q and putting n there is InsertAt.
LEMMA ListInsert ==
    ASSUME NEW R \in SUBSET Names, NEW f, NEW N \in Nat, NumberedBy(R, f, N),
           NEW n \in Names \ R, NEW q \in 1..N + 1,
           NEW g, NumberedBy(R \cup {n}, g, N + 1), g[n] = q,
           \A b \in R : g[b] = IF q <= f[b] THEN f[b] + 1 ELSE f[b]
    PROVE  ListOf(R \cup {n}, g, N + 1) = List!InsertAt(ListOf(R, f, N), q, n)
<1> DEFINE s == ListOf(R, f, N)
           t == ListOf(R \cup {n}, g, N + 1)
           u == List!InsertAt(s, q, n)
<1>0. N + 1 \in Nat /\ R \cup {n} \in SUBSET Names
  OBVIOUS
<1>a. Lists(s, R, f, N)
  BY Listing
<1>1. /\ s \in Seq(Names) /\ Len(s) = N
      /\ \A i \in 1..N : s[i] \in R /\ f[s[i]] = i
  BY <1>a DEF Lists
<1>b. Lists(t, R \cup {n}, g, N + 1)
  BY <1>0, Listing
<1>2. /\ t \in Seq(Names) /\ Len(t) = N + 1
      /\ \A b \in R \cup {n} : t[g[b]] = b
  BY <1>b DEF Lists
<1> HIDE DEF s, t
<1>3. /\ u \in Seq(Names) /\ Len(u) = N + 1
      /\ \A j \in 1..N + 1 :
             u[j] = IF j < q THEN s[j] ELSE IF j = q THEN n ELSE s[j - 1]
  BY <1>1, InsertAtProperties
<1> HIDE DEF u
<1>4. ASSUME NEW j \in 1..N + 1 PROVE t[j] = u[j]
  <2>1. CASE j < q
    <3>1. s[j] \in R /\ f[s[j]] = j
      BY <1>1, <2>1
    <3>2. g[s[j]] = j
      BY <2>1, <3>1
    <3>3. QED
      BY <1>2, <1>3, <2>1, <3>1, <3>2
  <2>2. CASE j = q
    BY <1>2, <1>3, <2>2
  <2>3. CASE j > q
    <3>1. s[j - 1] \in R /\ f[s[j - 1]] = j - 1
      BY <1>1, <2>3
    <3>2. g[s[j - 1]] = j
      BY <2>3, <3>1
    <3>3. u[j] = s[j - 1]
      BY <1>3, <2>3
    <3>4. QED
      BY <1>2, <3>1, <3>2, <3>3
  <2>4. QED
    BY <2>1, <2>2, <2>3
<1>5. t = u
  BY <1>2, <1>3, <1>4, SeqEqual
<1>6. QED
  BY <1>5 DEF s, t, u

\* Taking n out and closing the gap is RemoveAt.
LEMMA ListRemove ==
    ASSUME NEW R \in SUBSET Names, NEW f, NEW N \in Nat, NumberedBy(R, f, N),
           NEW n \in R, N > 0, NEW g, NumberedBy(R \ {n}, g, N - 1),
           \A b \in R \ {n} : g[b] = IF f[n] < f[b] THEN f[b] - 1 ELSE f[b]
    PROVE  ListOf(R \ {n}, g, N - 1) = List!RemoveAt(ListOf(R, f, N), f[n])
<1> DEFINE s == ListOf(R, f, N)
           t == ListOf(R \ {n}, g, N - 1)
           u == List!RemoveAt(s, f[n])
<1>0. f[n] \in 1..N /\ N - 1 \in Nat /\ R \ {n} \in SUBSET Names
  BY DEF NumberedBy
<1>a. Lists(s, R, f, N)
  BY Listing
<1>1. /\ s \in Seq(Names) /\ Len(s) = N
      /\ \A i \in 1..N : s[i] \in R /\ f[s[i]] = i
  BY <1>a DEF Lists
<1>b. Lists(t, R \ {n}, g, N - 1)
  BY <1>0, Listing
<1>2. /\ t \in Seq(Names) /\ Len(t) = N - 1
      /\ \A b \in R \ {n} : t[g[b]] = b
  BY <1>b DEF Lists
<1> HIDE DEF s, t
<1>3. /\ u \in Seq(Names) /\ Len(u) = N - 1
      /\ \A j \in 1..N - 1 : u[j] = IF j < f[n] THEN s[j] ELSE s[j + 1]
  BY <1>0, <1>1, RemoveAtProperties
<1> HIDE DEF u
<1>4. ASSUME NEW j \in 1..N - 1 PROVE t[j] = u[j]
  <2>1. CASE j < f[n]
    <3>1. s[j] \in R \ {n} /\ f[s[j]] = j
      BY <1>0, <1>1, <2>1
    <3>2. g[s[j]] = j
      BY <1>0, <2>1, <3>1
    <3>3. QED
      BY <1>2, <1>3, <2>1, <3>1, <3>2
  <2>2. CASE j >= f[n]
    <3>1. s[j + 1] \in R \ {n} /\ f[s[j + 1]] = j + 1
      BY <1>0, <1>1, <2>2
    <3>2. g[s[j + 1]] = j
      BY <1>0, <2>2, <3>1
    <3>3. QED
      BY <1>0, <1>2, <1>3, <2>2, <3>1, <3>2
  <2>3. QED
    BY <1>0, <2>1, <2>2
<1>5. t = u
  BY <1>2, <1>3, <1>4, SeqEqual
<1>6. QED
  BY <1>5 DEF s, t, u

\* f numbers R, and g numbers R when n has moved to q under the name m.
Moved(R, f, N, n, m, q, g) ==
    /\ R \in SUBSET Names /\ N \in Nat /\ NumberedBy(R, f, N)
    /\ n \in R /\ m \in Names /\ q \in 1..N
    /\ NumberedBy((R \ {n}) \cup {m}, g, N) /\ g[m] = q
    /\ \A b \in R \ {n} :
           g[b] = IF f[n] < f[b] /\ f[b] <= q THEN f[b] - 1
                  ELSE IF q <= f[b] /\ f[b] < f[n] THEN f[b] + 1
                  ELSE f[b]

\* Moving n to q under the name m is RemoveAt and then InsertAt.
LEMMA ListMove ==
    ASSUME NEW R, NEW f, NEW N, NEW n, NEW m, NEW q, NEW g,
           Moved(R, f, N, n, m, q, g)
    PROVE  ListOf((R \ {n}) \cup {m}, g, N)
               = List!InsertAt(List!RemoveAt(ListOf(R, f, N), f[n]), q, m)
<1> /\ R \in SUBSET Names /\ N \in Nat /\ NumberedBy(R, f, N)
    /\ n \in R /\ m \in Names /\ q \in 1..N
    /\ NumberedBy((R \ {n}) \cup {m}, g, N) /\ g[m] = q
  BY DEF Moved
<1> DEFINE s == ListOf(R, f, N)
           r == List!RemoveAt(s, f[n])
           t == ListOf((R \ {n}) \cup {m}, g, N)
           u == List!InsertAt(r, q, m)
<1>0. f[n] \in 1..N /\ N - 1 \in Nat /\ (R \ {n}) \cup {m} \in SUBSET Names
  BY DEF NumberedBy
<1>a. Lists(s, R, f, N)
  BY Listing
<1>1. /\ s \in Seq(Names) /\ Len(s) = N
      /\ \A i \in 1..N : s[i] \in R /\ f[s[i]] = i
  BY <1>a DEF Lists
<1>b. Lists(t, (R \ {n}) \cup {m}, g, N)
  BY <1>0, Listing
<1>2. /\ t \in Seq(Names) /\ Len(t) = N /\ t[q] = m
      /\ \A b \in R \ {n} : t[g[b]] = b
  BY <1>b DEF Lists
<1> HIDE DEF s, t
<1>3. /\ r \in Seq(Names) /\ Len(r) = N - 1
      /\ \A j \in 1..N - 1 : r[j] = IF j < f[n] THEN s[j] ELSE s[j + 1]
  BY <1>0, <1>1, RemoveAtProperties
<1> HIDE DEF r
<1>c. q \in 1..Len(r) + 1 /\ Len(r) + 1 = N
  BY <1>0, <1>3
<1>4. /\ u \in Seq(Names) /\ Len(u) = N
      /\ \A j \in 1..N :
             u[j] = IF j < q THEN r[j] ELSE IF j = q THEN m ELSE r[j - 1]
  <2>1. /\ u \in Seq(Names) /\ Len(u) = Len(r) + 1
        /\ \A j \in 1..Len(r) + 1 :
               u[j] = IF j < q THEN r[j] ELSE IF j = q THEN m ELSE r[j - 1]
    BY <1>3, <1>c, InsertAtProperties
  <2>2. QED
    BY <1>c, <2>1
<1> HIDE DEF u
<1>5. ASSUME NEW i \in 1..N, i # f[n] PROVE s[i] \in R \ {n} /\ f[s[i]] = i
  BY <1>1, <1>5
<1>6. ASSUME NEW j \in 1..N PROVE t[j] = u[j]
  <2>1. CASE j < q /\ j < f[n]
    <3>1. u[j] = s[j]
      BY <1>0, <1>3, <1>4, <2>1
    <3>2. s[j] \in R \ {n} /\ g[s[j]] = j
      BY <1>0, <1>5, <2>1 DEF Moved
    <3>3. QED
      BY <1>2, <3>1, <3>2
  <2>2. CASE j < q /\ j >= f[n]
    <3>1. u[j] = s[j + 1]
      BY <1>0, <1>3, <1>4, <2>2
    <3>2. s[j + 1] \in R \ {n} /\ f[s[j + 1]] = j + 1
      BY <1>0, <1>5, <2>2
    <3>3. g[s[j + 1]] = j
      BY <1>0, <2>2, <3>2 DEF Moved
    <3>4. QED
      BY <1>2, <3>1, <3>2, <3>3
  <2>3. CASE j = q
    BY <1>2, <1>4, <2>3
  <2>4. CASE j > q /\ j <= f[n]
    <3>1. u[j] = s[j - 1]
      <4>1. u[j] = r[j - 1]
        BY <1>4, <2>4
      <4>2. r[j - 1] = s[j - 1]
        BY <1>0, <1>3, <2>4
      <4>3. QED
        BY <4>1, <4>2
    <3>2. s[j - 1] \in R \ {n} /\ f[s[j - 1]] = j - 1
      BY <1>0, <1>5, <2>4
    <3>3. g[s[j - 1]] = j
      BY <1>0, <2>4, <3>2 DEF Moved
    <3>4. QED
      BY <1>2, <3>1, <3>2, <3>3
  <2>5. CASE j > q /\ j > f[n]
    <3>1. u[j] = s[j]
      <4>1. u[j] = r[j - 1]
        BY <1>4, <2>5
      <4>2. r[j - 1] = s[j - 1 + 1]
        BY <1>0, <1>3, <2>5
      <4>3. QED
        BY <4>1, <4>2
    <3>2. s[j] \in R \ {n} /\ g[s[j]] = j
      BY <1>0, <1>5, <2>5 DEF Moved
    <3>3. QED
      BY <1>2, <3>1, <3>2
  <2>6. QED
    BY <1>0, <2>1, <2>2, <2>3, <2>4, <2>5
<1>7. t = u
  BY <1>2, <1>4, <1>6, SeqEqual
<1>8. QED
  BY <1>7 DEF r, s, t, u

\* f numbers R, and g numbers R with the columns new behind it.
Appended(R, f, N, new, g) ==
    /\ R \in SUBSET Names /\ N \in Nat /\ NumberedBy(R, f, N)
    /\ new \in SUBSET (Names \ R) /\ Cardinality(new) \in Nat
    /\ NumberedBy(R \cup new, g, N + Cardinality(new))
    /\ \A b \in R : g[b] = f[b]

\* The list t is s with some of the names in F behind it.
Continues(t, s, F) == \E e \in List!SetToAllKPermutations(F) : t = s \o e

\* Columns that are appended in some order.
LEMMA ListAppend ==
    ASSUME NEW R, NEW f, NEW N, NEW new, NEW g, Appended(R, f, N, new, g)
    PROVE  Continues(ListOf(R \cup new, g, N + Cardinality(new)),
                     ListOf(R, f, N), Names \ R)
<1> /\ R \in SUBSET Names /\ N \in Nat /\ NumberedBy(R, f, N)
    /\ new \in SUBSET (Names \ R) /\ Cardinality(new) \in Nat
    /\ NumberedBy(R \cup new, g, N + Cardinality(new))
    /\ \A b \in R : g[b] = f[b]
  BY DEF Appended
<1> DEFINE k == Cardinality(new)
           s == ListOf(R, f, N)
           t == ListOf(R \cup new, g, N + k)
           e == [i \in 1..k |-> t[N + i]]
<1>0. N + k \in Nat /\ R \cup new \in SUBSET Names
  OBVIOUS
<1>a. Lists(s, R, f, N)
  BY Listing
<1>1. /\ s \in Seq(Names) /\ Len(s) = N
      /\ \A i \in 1..N : s[i] \in R /\ f[s[i]] = i
  BY <1>a DEF Lists
<1>b. Lists(t, R \cup new, g, N + k)
  BY <1>0, Listing
<1>2. /\ t \in Seq(Names) /\ Len(t) = N + k
      /\ \A i \in 1..N + k : t[i] \in R \cup new /\ g[t[i]] = i
      /\ \A b \in R : t[g[b]] = b
  BY <1>b DEF Lists
<1> HIDE DEF s, t, k
<1>c. k \in Nat
  BY DEF k
<1>3. ASSUME NEW b \in R PROVE g[b] \in 1..N
  BY DEF NumberedBy
<1>4. ASSUME NEW i \in 1..k PROVE e[i] \in new /\ g[e[i]] = N + i
  <2>1. N + i \in 1..N + k /\ e[i] = t[N + i]
    BY <1>c
  <2>2. e[i] \in R \cup new /\ g[e[i]] = N + i
    BY <1>2, <2>1
  <2>3. QED
    BY <1>3, <2>2
<1>5. e \in [1..k -> new]
  BY <1>4
<1> HIDE DEF e
<1>6. e \in List!SetToSeqs(new)
  <2>1. ASSUME NEW i \in 1..k, NEW j \in 1..k, e[i] = e[j] PROVE i = j
    BY <1>c, <1>4, <2>1
  <2>2. List!Cardinality(new) = k
    BY Zenon DEF List!Cardinality, Cardinality, k
  <2>3. QED
    BY <1>5, <2>1, <2>2 DEF List!SetToSeqs
<1>7. e \in List!SetToAllKPermutations(Names \ R)
  BY <1>6 DEF List!SetToAllKPermutations
<1>8. e \in Seq(Names) /\ Len(e) = k
  BY <1>5, <1>c
<1>9. /\ s \o e \in Seq(Names) /\ Len(s \o e) = N + k
      /\ \A j \in 1..N + k : (s \o e)[j] = IF j <= N THEN s[j] ELSE e[j - N]
  BY <1>1, <1>8, <1>c
<1>10. ASSUME NEW j \in 1..N + k PROVE t[j] = (s \o e)[j]
  <2>1. CASE j <= N
    <3>1. s[j] \in R /\ g[s[j]] = j
      BY <1>1, <2>1
    <3>2. QED
      BY <1>2, <1>9, <2>1, <3>1
  <2>2. CASE j > N
    <3>1. j - N \in 1..k /\ N + (j - N) = j
      BY <1>c, <2>2
    <3>2. e[j - N] = t[j]
      BY <3>1 DEF e
    <3>3. QED
      BY <1>9, <2>2, <3>2
  <2>3. j <= N \/ j > N
    OBVIOUS
  <2>4. QED
    BY Zenon, <2>1, <2>2, <2>3
<1>11. t = s \o e
  BY <1>2, <1>9, <1>10, SeqEqual
<1>12. QED
  BY <1>7, <1>11 DEF Continues, s, t, k
-----------------------------------------------------------------------------
\* No column escapes the count, so the positions are a list.
ListInv == AllCounted /\ ColumnsInv

\* With the invariant, the list has the rows at their positions, and what is
\* free for the abstract list has no row.
LEMMA TheListIs ==
    ASSUME TypeOK, ListInv
    PROVE  /\ Columns = ListOf(rows, pos, ncols)
           /\ Len(Columns) = ncols
           /\ \A n \in rows : pos[n] \in 1..ncols /\ Columns[pos[n]] = n
           /\ Names \ List!Range(Columns) = Names \ rows
<1>1. ncols \in Nat /\ NumberedBy(rows, pos, ncols) /\ rows \in SUBSET Names
  BY DEF ListInv, ColumnsInv, Numbered, TypeOK
<1>2. Columns = ListOf(rows, pos, ncols)
  BY DEF ListInv, ColumnsInv, Counted, Columns, ColumnAt, ListOf
<1>3. Lists(Columns, rows, pos, ncols)
  BY <1>1, <1>2, Listing
<1>4. \A n \in rows : pos[n] \in 1..ncols /\ Columns[pos[n]] = n
  BY <1>1, <1>3 DEF Lists, NumberedBy
<1>5. List!Range(Columns) = rows
  <2>1. DOMAIN Columns = 1..ncols
    BY <1>2 DEF ListOf
  <2>2. QED
    BY <1>3, <1>4, <2>1 DEF List!Range, Lists
<1>6. QED
  BY <1>2, <1>3, <1>4, <1>5 DEF Lists

\* The same of the list after a step.
LEMMA TheNextList ==
    ASSUME ListInv' PROVE Columns' = ListOf(rows', pos', ncols')
BY DEF ListInv, ColumnsInv, Counted, Columns, ColumnAt, ListOf

\* A request that leaves rows and positions alone leaves the list alone.
LEMMA ListStays ==
    ASSUME UNCHANGED <<habits, rows, pos>> PROVE UNCHANGED Columns
BY DEF Columns, ColumnAt, AllCounted

\* A new column that makes room for itself at q is put into the list.
LEMMA PutRefines ==
    ASSUME TypeOK, ListInv, ListInv',
           NEW n \in Names \ rows, NEW q \in 1..ncols + 1,
           rows' = rows \cup {n}, ncols' = ncols + 1,
           pos'[n] = q,
           \A b \in rows :
               pos'[b] = IF q <= pos[b] THEN pos[b] + 1 ELSE pos[b]
    PROVE  List!Put
<1>1. ncols \in Nat /\ NumberedBy(rows, pos, ncols) /\ rows \in SUBSET Names
  BY DEF ListInv, ColumnsInv, Numbered, TypeOK
<1>2. NumberedBy(rows \cup {n}, pos', ncols + 1)
  BY DEF ListInv, ColumnsInv, Numbered
<1>3. Columns = ListOf(rows, pos, ncols) /\ Len(Columns) = ncols
  BY TheListIs
<1>4. Columns' = ListOf(rows \cup {n}, pos', ncols + 1)
  BY TheNextList
<1>5. Columns' = List!InsertAt(Columns, q, n)
  BY <1>1, <1>2, <1>3, <1>4, ListInsert
<1>6. n \in List!Free
  BY TheListIs DEF List!Free, Columns
<1>7. QED
  BY <1>3, <1>5, <1>6 DEF List!Put, Columns

\* A column that goes is taken out of the list.
LEMMA TakeRefines ==
    ASSUME TypeOK, ListInv, ListInv', NEW n \in rows,
           rows' = rows \ {n}, ncols' = ncols - 1,
           \A b \in rows \ {n} :
               pos'[b] = IF pos[n] < pos[b] THEN pos[b] - 1 ELSE pos[b]
    PROVE  List!Take
<1>1. ncols \in Nat /\ NumberedBy(rows, pos, ncols) /\ rows \in SUBSET Names
  BY DEF ListInv, ColumnsInv, Numbered, TypeOK
<1>2. NumberedBy(rows \ {n}, pos', ncols - 1)
  BY DEF ListInv, ColumnsInv, Numbered
<1>3. Columns = ListOf(rows, pos, ncols) /\ Len(Columns) = ncols
  BY TheListIs
<1>4. Columns' = ListOf(rows \ {n}, pos', ncols - 1)
  BY TheNextList
<1>5. pos[n] \in 1..ncols /\ ncols > 0
  BY <1>1 DEF NumberedBy
<1>6. Columns' = List!RemoveAt(Columns, pos[n])
  BY <1>1, <1>2, <1>3, <1>4, <1>5, ListRemove
<1>7. QED
  BY <1>3, <1>5, <1>6 DEF List!Take, Columns

\* A column that is moved, renamed or both.
LEMMA ReplaceRefines ==
    ASSUME TypeOK, ListInv, ListInv',
           NEW n \in rows, NEW m \in Names, m \notin rows \ {n},
           NEW q \in 1..ncols,
           rows' = (rows \ {n}) \cup {m}, ncols' = ncols,
           Moved(rows, pos, ncols, n, m, q, pos')
    PROVE  List!Replace
<1>1. ncols \in Nat /\ NumberedBy(rows, pos, ncols) /\ rows \in SUBSET Names
  BY DEF ListInv, ColumnsInv, Numbered, TypeOK
<1>3. Columns = ListOf(rows, pos, ncols) /\ Len(Columns) = ncols
  BY TheListIs
<1>4. Columns' = ListOf((rows \ {n}) \cup {m}, pos', ncols)
  BY TheNextList
<1>5. pos[n] \in 1..ncols
  BY <1>1 DEF NumberedBy
<1>6. Columns' = List!InsertAt(List!RemoveAt(Columns, pos[n]), q, m)
  <2>1. ListOf((rows \ {n}) \cup {m}, pos', ncols)
            = List!InsertAt(List!RemoveAt(ListOf(rows, pos, ncols), pos[n]),
                            q, m)
    BY ListMove
  <2>2. QED
    BY <1>3, <1>4, <2>1
<1>7. m \in List!Free \cup {Columns[pos[n]]}
  <2>1. Columns[pos[n]] = n
    BY TheListIs
  <2>2. List!Free = Names \ rows
    BY TheListIs DEF List!Free, Columns
  <2>3. QED
    BY <2>1, <2>2
<1>8. QED
  BY <1>3, <1>5, <1>6, <1>7 DEF List!Replace, Columns

\* The new columns of an upload or a merge are appended.
LEMMA AppendRefines ==
    ASSUME TypeOK, ListInv, ListInv', NEW new \in SUBSET (Names \ rows),
           rows' = rows \cup new, ncols' = ncols + Cardinality(new),
           \A b \in rows : pos'[b] = pos[b]
    PROVE  List!AppendAll
<1>1. ncols \in Nat /\ NumberedBy(rows, pos, ncols) /\ rows \in SUBSET Names
  BY DEF ListInv, ColumnsInv, Numbered, TypeOK
<1>2. Cardinality(new) \in Nat
  BY FinitelyMany
<1>3. Appended(rows, pos, ncols, new, pos')
  <2>1. NumberedBy(rows \cup new, pos', ncols + Cardinality(new))
    BY DEF ListInv, ColumnsInv, Numbered
  <2>2. QED
    BY <1>1, <1>2, <2>1 DEF Appended
<1>4. Columns = ListOf(rows, pos, ncols)
  BY TheListIs
<1>5. Columns' = ListOf(rows \cup new, pos', ncols + Cardinality(new))
  BY TheNextList
<1>6. Continues(Columns', Columns, Names \ rows)
  <2>1. Continues(ListOf(rows \cup new, pos', ncols + Cardinality(new)),
                  ListOf(rows, pos, ncols), Names \ rows)
    BY <1>3, ListAppend
  <2>2. QED
    BY <1>4, <1>5, <2>1
<1>7. List!Free = Names \ rows
  BY TheListIs DEF List!Free, Columns
<1>8. QED
  BY <1>6, <1>7 DEF List!AppendAll, Continues, Columns

\* Emptying the workflow empties the list.
LEMMA ClearRefines ==
    ASSUME Nothing PROVE List!Clear
<1>1. Cardinality({}) = 0
  BY FS_EmptySet
<1>2. Columns' = <<>>
  BY <1>1 DEF Nothing, Columns
<1>3. QED
  BY <1>2 DEF List!Clear, Columns
-----------------------------------------------------------------------------
\* A new workflow has the empty list.
LEMMA InitIsEmpty == Init => List!Init
<1>1. Cardinality({}) = 0
  BY FS_EmptySet
<1>2. Init => Columns = <<>>
  BY <1>1 DEF Init, Columns
<1>3. QED
  BY <1>2 DEF List!Init, Columns

\* Every request is one operation on the list, or changes nothing in it.
LEMMA ListStep ==
    ASSUME TypeOK, ListInv, ListInv', [Next]_vars
    PROVE  [List!Next]_Columns
<1> USE DEF List!Next
<1>0. /\ ncols \in Nat /\ NumberedBy(rows, pos, ncols) /\ rows \in SUBSET Names
      /\ ncols = Cardinality(rows) /\ pos \in [Names -> Int]
  BY DEF ListInv, ColumnsInv, Numbered, Counted, TypeOK
<1>1. CASE UNCHANGED vars
  BY <1>1, ListStays DEF vars, columnVars
<1>2. ASSUME NEW n \in Names, NEW q \in Positions, ColumnAdd(n, q)
      PROVE  List!Next
  <2>1. /\ n \in Names \ rows /\ q \in 1..ncols + 1
        /\ rows' = rows \cup {n} /\ ncols' = ncols + 1
        /\ pos' = [Reposition(ncols + 1, q) EXCEPT ![n] = q]
    BY <1>0, <1>2 DEF ColumnAdd, InsertAllowed, InsertRow
  <2>2. pos'[n] = q
    BY <2>1 DEF Reposition
  <2>3. ASSUME NEW b \in rows
        PROVE  pos'[b] = IF q <= pos[b] THEN pos[b] + 1 ELSE pos[b]
    <3>1. pos[b] \in 1..ncols /\ b # n /\ b \in Names
      BY <1>0, <2>1 DEF NumberedBy
    <3>2. pos'[b] = Reposition(ncols + 1, q)[b]
      BY <2>1, <3>1 DEF Reposition
    <3>3. QED
      BY <1>0, <2>1, <3>1, <3>2 DEF Reposition
  <2>4. List!Put
    BY <2>1, <2>2, <2>3, PutRefines
  <2>5. QED
    BY <2>4
<1>3. ASSUME NEW n \in Names, NEW q \in Positions,
             FormulaColumnAdd(n, q) \/ RandomColumnAdd(n, q)
      PROVE  List!Next
  BY <1>3 DEF FormulaColumnAdd, RandomColumnAdd, AllCounted, ListInv
<1>4. ASSUME NEW n \in Names, NEW m \in Names, ColumnClone(n, m)
      PROVE  List!Next
  <2>1. /\ m \in Names \ rows /\ rows' = rows \cup {m} /\ ncols' = ncols + 1
        /\ pos' = [pos EXCEPT ![m] = ncols + 1]
    BY <1>4 DEF ColumnClone, CloneCount
  <2>2. pos'[m] = ncols + 1 /\ ncols + 1 \in 1..ncols + 1
    BY <1>0, <2>1
  <2>3. ASSUME NEW b \in rows
        PROVE  pos'[b] = IF ncols + 1 <= pos[b] THEN pos[b] + 1 ELSE pos[b]
    <3>1. pos[b] \in 1..ncols /\ b # m /\ b \in Names
      BY <1>0, <2>1 DEF NumberedBy
    <3>2. QED
      BY <1>0, <2>1, <3>1
  <2>4. List!Put
    BY <2>1, <2>2, <2>3, PutRefines
  <2>5. QED
    BY <2>4
<1>5. ASSUME NEW n \in rows, NEW m \in Names, m \notin rows \ {n},
             NEW q \in 1..ncols,
             rows' = (rows \ {n}) \cup {m}, ncols' = ncols, pos'[m] = q,
             \A b \in rows \ {n} : pos'[b] = Reposition(pos[n], q)[b]
      PROVE  List!Next
  <2>1. ASSUME NEW b \in rows \ {n}
        PROVE  pos'[b] = IF pos[n] < pos[b] /\ pos[b] <= q THEN pos[b] - 1
                         ELSE IF q <= pos[b] /\ pos[b] < pos[n] THEN pos[b] + 1
                         ELSE pos[b]
    BY <1>0, <1>5 DEF Reposition
  <2>2. NumberedBy((rows \ {n}) \cup {m}, pos', ncols)
    BY <1>5 DEF ListInv, ColumnsInv, Numbered
  <2>3. Moved(rows, pos, ncols, n, m, q, pos')
    BY <1>0, <1>5, <2>1, <2>2 DEF Moved
  <2>4. List!Replace
    BY <1>5, <2>3, ReplaceRefines
  <2>5. QED
    BY <2>4
<1>6. ASSUME NEW n \in Names, NEW m \in Names, NEW q \in Positions,
             NEW k \in BOOLEAN, ColumnEdit(n, m, q, k)
      PROVE  List!Next
  <2>1. /\ n \in rows /\ m \notin rows \ {n} /\ q \in 1..ncols
        /\ rows' = (rows \ {n}) \cup {m} /\ ncols' = ncols
        /\ pos' = [Reposition(pos[n], q) EXCEPT ![n] = 0, ![m] = q]
    BY <1>0, <1>6 DEF ColumnEdit, Renamed
  <2>2. /\ \A b \in rows \ {n} : pos'[b] = Reposition(pos[n], q)[b]
        /\ pos'[m] = q
    BY <1>0, <2>1 DEF Reposition
  <2>3. QED
    BY <1>5, <2>1, <2>2
<1>7. ASSUME NEW n \in Names, Move(n) PROVE List!Next
  <2>1. n \in rows /\ rows' = rows /\ ncols' = ncols
    BY <1>7 DEF Move
  <2>2. PICK q \in {pos[m] : m \in rows} \cup {1, ncols} :
            Target(n, q) /\ pos' = [Reposition(pos[n], q) EXCEPT ![n] = q]
    BY <1>7 DEF Move
  <2>3. q \in 1..ncols
    BY <1>0, <2>1, <2>2 DEF Target, NumberedBy
  <2>4. /\ \A b \in rows \ {n} : pos'[b] = Reposition(pos[n], q)[b]
        /\ pos'[n] = q
    BY <1>0, <2>1, <2>2 DEF Reposition
  <2>5. rows' = (rows \ {n}) \cup {n} /\ n \notin rows \ {n}
    BY <2>1
  <2>6. QED
    BY <1>5, <2>1, <2>3, <2>4, <2>5
<1>8. ASSUME NEW n \in Names, ColumnDelete(n) PROVE List!Next
  <2>1. CASE TakesWorkflow(n)
    BY <1>8, <2>1, ClearRefines DEF ColumnDelete, Vanish
  <2>2. CASE ~ TakesWorkflow(n)
    <3>1. /\ n \in rows /\ rows' = rows \ {n} /\ ncols' = ncols - 1
          /\ pos' = [Reposition(pos[n], ncols + 1) EXCEPT ![n] = 0]
      BY <1>8, <2>2 DEF ColumnDelete
    <3>2. ASSUME NEW b \in rows \ {n}
          PROVE  pos'[b] = IF pos[n] < pos[b] THEN pos[b] - 1 ELSE pos[b]
      <4>1. pos[b] \in 1..ncols /\ pos[n] \in 1..ncols /\ b \in Names
        BY <1>0, <3>1 DEF NumberedBy
      <4>2. pos'[b] = Reposition(pos[n], ncols + 1)[b]
        BY <3>1, <4>1 DEF Reposition
      <4>3. QED
        BY <1>0, <4>1, <4>2 DEF Reposition
    <3>3. List!Take
      BY <3>1, <3>2, TakeRefines
    <3>4. QED
      BY <3>3
  <2>3. QED
    BY <2>1, <2>2
<1>9. ASSUME NEW S \in SUBSET Names, NEW K \in SUBSET Names,
             Upload(S, K) \/ Override(S, K) \/ Merge(S, K)
      PROVE  List!Next
  <2> DEFINE new == S \ rows
  <2>1. rows' = rows \cup new /\ ncols' = ncols + Cardinality(new)
    BY <1>9 DEF Upload, Override, Merge, Store
  <2>2. PICK f \in Bijection(new, ncols + 1 .. ncols + Cardinality(new)) :
            pos' = [n \in Names |-> IF n \in new THEN f[n] ELSE pos[n]]
    BY <1>9 DEF Upload, Override, Merge, Store
  <2>3. \A b \in rows : pos'[b] = pos[b]
    BY <1>0, <2>2
  <2>4. new \in SUBSET (Names \ rows)
    OBVIOUS
  <2> HIDE DEF new
  <2>5. List!AppendAll
    BY <2>1, <2>3, <2>4, AppendRefines
  <2>6. QED
    BY <2>5
<1>10. ASSUME UNCHANGED <<rows, pos>> PROVE UNCHANGED Columns
  BY <1>10, ListStays, HabitsStay
<1>11. ASSUME NEW S \in SUBSET Names, NEW K \in SUBSET Names,
              MergeWithoutKey(S, K)
       PROVE  UNCHANGED Columns
  BY <1>10, <1>11 DEF MergeWithoutKey
<1>12. ASSUME NEW n \in Names, AssignLuserColumn(n) PROVE UNCHANGED Columns
  BY <1>10, <1>12 DEF AssignLuserColumn, columnVars
<1>13. CASE Detail
  <2>1. PICK n \in rows : pos[n] = 0
    BY <1>13 DEF Detail
  <2>2. QED
    BY <1>0, <2>1 DEF NumberedBy
<1>14. CASE Flush
  BY <1>14, ClearRefines DEF Flush, Vanish
<1>15. ASSUME NEW c \in Conditions,
              ConditionDelete(c) \/ \E V \in SUBSET Names : ConditionSave(c, V)
       PROVE  UNCHANGED Columns
  BY <1>10, <1>15 DEF ConditionSave, ConditionDelete, columnVars
<1>16. ASSUME NEW v \in Views,
              ViewDelete(v) \/ \E C, F \in SUBSET Names : ViewSave(v, C, F)
       PROVE  UNCHANGED Columns
  BY <1>10, <1>16 DEF ViewSave, ViewDelete, columnVars
<1> HIDE DEF List!Next
<1>17. QED
  BY <1>1, <1>2, <1>3, <1>4, <1>6, <1>7, <1>8, <1>9, <1>11, <1>12, <1>13,
     <1>14, <1>15, <1>16 DEF Next

\* If no column escapes the count, the positions of the columns
\* (Workflow.reposition_columns and its callers) behave like a list, also when
\* the database refuses to add a column.
THEOREM PositionsAreAList == Spec => IsColumnList
<1>1. /\ TypeOK /\ (AllCounted => ColumnsInv)
      /\ TypeOK' /\ (AllCounted' => ColumnsInv')
      /\ [Next]_vars
      => [List!Next]_Columns
  <2> SUFFICES ASSUME TypeOK, AllCounted => ColumnsInv,
                      TypeOK', AllCounted' => ColumnsInv', [Next]_vars
               PROVE  [List!Next]_Columns
    OBVIOUS
  <2>1. AllCounted' = AllCounted
    BY HabitsStay DEF AllCounted
  <2>2. CASE AllCounted
    BY <2>1, <2>2, ListStep DEF ListInv
  <2>3. CASE ~ AllCounted
    BY <2>1, <2>3 DEF Columns
  <2>4. QED
    BY <2>2, <2>3
<1>2. Init => List!Init
  BY InitIsEmpty
<1>3. QED
  BY <1>1, <1>2, ColumnsSafety, PTL DEF Spec, IsColumnList, List!Spec
=============================================================================
