------------------------- MODULE BrowserPagesProofs -------------------------
(***************************************************************************)
(* Proofs about BrowserPages for any conditions, formulas, boxes, columns   *)
(* and number of requests: the pages are well-formed, and for users who     *)
(* wait for answers they show what the server has.                          *)
(***************************************************************************)
EXTENDS BrowserPages, FiniteSetTheorems, SequenceTheorems, TLAPS

N == Cardinality(Columns)

\* The columns in some order.
Arrangements ==
    {q \in [1..N -> Columns] :
        /\ \A i, j \in 1..N : q[i] = q[j] => i = j
        /\ \A c \in Columns : \E i \in 1..N : q[i] = c}

LEMMA NType == N \in Nat
BY BrowserAssumption, FS_CardinalityType DEF N

LEMMA ArrangementSeq ==
    ASSUME NEW q \in Arrangements
    PROVE  q \in Seq(Columns) /\ Len(q) = N /\ DOMAIN q = 1..N
BY NType DEF Arrangements

LEMMA ArrangementBijection ==
    ASSUME NEW q \in Arrangements
    PROVE  q \in Bijection(1..N, Columns)
BY DEF Arrangements, Bijection, Injection, Surjection, IsInjective
-----------------------------------------------------------------------------
(* Dragging.                                                                 *)

\* RemoveAt takes one element out and closes the gap.
LEMMA RemovedAt ==
    ASSUME NEW S, NEW q \in Seq(S), NEW i \in 1..Len(q)
    PROVE  /\ RemoveAt(q, i) \in Seq(S)
           /\ Len(RemoveAt(q, i)) = Len(q) - 1
           /\ \A k \in 1..Len(q) - 1 :
                  RemoveAt(q, i)[k] = IF k < i THEN q[k] ELSE q[k + 1]
<1> DEFINE a == SubSeq(q, 1, i - 1)
           b == SubSeq(q, i + 1, Len(q))
<1>1. Len(q) \in Nat /\ i \in Int /\ \A k \in 1..Len(q) : q[k] \in S
  BY LenProperties, ElementOfSeq
<1>2. a \in Seq(S) /\ Len(a) = i - 1 /\ \A k \in 1..i - 1 : a[k] = q[k]
  BY <1>1
<1>3. /\ b \in Seq(S) /\ Len(b) = Len(q) - i
      /\ \A k \in 1..Len(q) - i : b[k] = q[i + k]
  BY <1>1
<1> HIDE DEF a, b
<1>4. /\ a \o b \in Seq(S) /\ Len(a \o b) = Len(a) + Len(b)
      /\ \A k \in 1..Len(a) + Len(b) :
             (a \o b)[k] = IF k <= Len(a) THEN a[k] ELSE b[k - Len(a)]
  BY <1>2, <1>3, ConcatProperties
<1>5. Len(a) = i - 1 /\ Len(a) + Len(b) = Len(q) - 1
  BY <1>1, <1>2, <1>3
<1>6. ASSUME NEW k \in 1..Len(q) - 1, k >= i PROVE b[k - (i - 1)] = q[k + 1]
  BY <1>1, <1>3, <1>6
<1>7. ASSUME NEW k \in 1..Len(q) - 1
      PROVE  (a \o b)[k] = IF k < i THEN q[k] ELSE q[k + 1]
  BY <1>1, <1>2, <1>4, <1>5, <1>6
<1>8. RemoveAt(q, i) = a \o b
  BY DEF RemoveAt, a, b
<1>9. QED
  BY <1>4, <1>5, <1>7, <1>8

\* InsertAt puts one element in and moves those behind it by one.
LEMMA InsertedAt ==
    ASSUME NEW S, NEW q \in Seq(S), NEW e \in S, NEW i \in 1..Len(q) + 1
    PROVE  /\ InsertAt(q, i, e) \in Seq(S)
           /\ Len(InsertAt(q, i, e)) = Len(q) + 1
           /\ \A k \in 1..Len(q) + 1 :
                  InsertAt(q, i, e)[k] =
                      IF k < i THEN q[k] ELSE IF k = i THEN e ELSE q[k - 1]
<1> DEFINE a == SubSeq(q, 1, i - 1)
           b == SubSeq(q, i, Len(q))
           c == a \o <<e>>
<1>1. Len(q) \in Nat /\ i \in Int /\ \A k \in 1..Len(q) : q[k] \in S
  BY LenProperties, ElementOfSeq
<1>2. a \in Seq(S) /\ Len(a) = i - 1 /\ \A k \in 1..i - 1 : a[k] = q[k]
  BY <1>1
<1>3. /\ b \in Seq(S) /\ Len(b) = Len(q) - i + 1
      /\ \A k \in 1..Len(q) - i + 1 : b[k] = q[i + k - 1]
  BY <1>1
<1>4. <<e>> \in Seq(S) /\ Len(<<e>>) = 1 /\ <<e>>[1] = e
  OBVIOUS
<1> HIDE DEF a, b
<1>5. /\ c \in Seq(S) /\ Len(c) = i
      /\ \A k \in 1..i : c[k] = IF k < i THEN q[k] ELSE e
  BY <1>1, <1>2, <1>4
<1> HIDE DEF c
<1>6. /\ c \o b \in Seq(S) /\ Len(c \o b) = Len(q) + 1
      /\ \A k \in 1..Len(q) + 1 :
             (c \o b)[k] = IF k <= i THEN c[k] ELSE b[k - i]
  BY <1>1, <1>3, <1>5
<1>7. ASSUME NEW k \in 1..Len(q) + 1, k > i PROVE b[k - i] = q[k - 1]
  BY <1>1, <1>3, <1>7
<1>8. ASSUME NEW k \in 1..Len(q) + 1
      PROVE  (c \o b)[k] = IF k < i THEN q[k] ELSE IF k = i THEN e ELSE q[k - 1]
  <2>1. k <= i => c[k] = IF k < i THEN q[k] ELSE e
    BY <1>1, <1>5
  <2>2. (c \o b)[k] = IF k <= i THEN c[k] ELSE b[k - i]
    BY <1>6
  <2>3. QED
    BY <1>1, <1>7, <2>1, <2>2
<1>9. InsertAt(q, i, e) = c \o b
  BY DEF InsertAt, a, b, c
<1>10. QED
  BY <1>6, <1>8, <1>9

\* After a drag: the row is at its new place, those between have moved by one.
LEMMA DraggedAt ==
    ASSUME NEW q \in Arrangements, NEW i \in 1..N, NEW j \in 1..N
    PROVE  /\ Dragged(q, i, j) \in [1..N -> Columns]
           /\ \A k \in 1..N : Dragged(q, i, j)[k] =
                  IF k = j THEN q[i]
                  ELSE IF i <= k /\ k < j THEN q[k + 1]
                  ELSE IF j < k /\ k <= i THEN q[k - 1] ELSE q[k]
<1> DEFINE r == RemoveAt(q, i)
           u == InsertAt(r, j, q[i])
<1>1. /\ N \in Nat /\ q \in Seq(Columns) /\ Len(q) = N
      /\ q[i] \in Columns
  BY NType, ArrangementSeq DEF Arrangements
<1>2. /\ r \in Seq(Columns) /\ Len(r) = N - 1
      /\ \A k \in 1..N - 1 : r[k] = IF k < i THEN q[k] ELSE q[k + 1]
  BY <1>1, RemovedAt
<1> HIDE DEF r
<1>3. Len(r) + 1 = N
  BY <1>1, <1>2
<1>4. /\ u \in Seq(Columns) /\ Len(u) = N
      /\ \A k \in 1..N : u[k] =
             IF k < j THEN r[k] ELSE IF k = j THEN q[i] ELSE r[k - 1]
  <2>1. j \in 1..Len(r) + 1
    BY <1>3
  <2>2. /\ u \in Seq(Columns) /\ Len(u) = Len(r) + 1
        /\ \A k \in 1..Len(r) + 1 : u[k] =
               IF k < j THEN r[k] ELSE IF k = j THEN q[i] ELSE r[k - 1]
    BY <1>1, <1>2, <2>1, InsertedAt
  <2>3. QED
    BY <1>3, <2>2
<1> HIDE DEF u
<1>5. u \in [1..N -> Columns]
  BY <1>4
<1>6. ASSUME NEW k \in 1..N
      PROVE  u[k] = IF k = j THEN q[i]
                    ELSE IF i <= k /\ k < j THEN q[k + 1]
                    ELSE IF j < k /\ k <= i THEN q[k - 1] ELSE q[k]
  <2>1. k < j => r[k] = IF k < i THEN q[k] ELSE q[k + 1]
    BY <1>1, <1>2
  <2>2. k > j => r[k - 1] = IF k - 1 < i THEN q[k - 1] ELSE q[k]
    <3>1. k > j => k - 1 \in 1..N - 1 /\ (k - 1) + 1 = k
      BY <1>1
    <3>2. QED
      BY <1>2, <3>1
  <2>3. QED
    BY <1>1, <1>4, <2>1, <2>2
<1>7. Dragged(q, i, j) = u
  BY DEF Dragged, r, u
<1>8. QED
  BY <1>5, <1>6, <1>7

LEMMA DraggedType ==
    ASSUME NEW q \in Arrangements, NEW i \in 1..N, NEW j \in 1..N
    PROVE  Dragged(q, i, j) \in Arrangements
<1> DEFINE u == Dragged(q, i, j)
<1>1. /\ N \in Nat /\ u \in [1..N -> Columns]
      /\ \A k \in 1..N : u[k] = IF k = j THEN q[i]
                                ELSE IF i <= k /\ k < j THEN q[k + 1]
                                ELSE IF j < k /\ k <= i THEN q[k - 1] ELSE q[k]
  BY NType, DraggedAt
<1> HIDE DEF u
<1>2. /\ \A k, l \in 1..N : q[k] = q[l] => k = l
      /\ \A c \in Columns : \E k \in 1..N : q[k] = c
  BY DEF Arrangements
\* Where the column at place k of u was.
<1> DEFINE was(k) == IF k = j THEN i
                     ELSE IF i <= k /\ k < j THEN k + 1
                     ELSE IF j < k /\ k <= i THEN k - 1 ELSE k
<1>3. \A k \in 1..N : was(k) \in 1..N /\ u[k] = q[was(k)]
  BY <1>1
<1>4. \A k, l \in 1..N : was(k) = was(l) => k = l
  BY <1>1
<1>5. \A k \in 1..N : \E l \in 1..N : was(l) = k
  <2> TAKE k \in 1..N
  <2>1. CASE k = i
    BY <2>1
  <2>2. CASE i < k /\ k <= j
    <3>1. k - 1 \in 1..N /\ was(k - 1) = k
      BY <1>1, <2>2
    <3>2. QED
      BY <3>1
  <2>3. CASE j <= k /\ k < i
    <3>1. k + 1 \in 1..N /\ was(k + 1) = k
      BY <1>1, <2>3
    <3>2. QED
      BY <3>1
  <2>4. CASE (k < i /\ k < j) \/ (k > i /\ k > j)
    <3>1. was(k) = k
      BY <1>1, <2>4
    <3>2. QED
      BY <3>1
  <2>5. QED
    BY <1>1, <2>1, <2>2, <2>3, <2>4
<1> HIDE DEF was
<1>6. \A k, l \in 1..N : u[k] = u[l] => k = l
  BY <1>2, <1>3, <1>4
<1>7. \A c \in Columns : \E k \in 1..N : u[k] = c
  BY <1>2, <1>3, <1>5
<1>8. u \in Arrangements
  BY <1>1, <1>6, <1>7 DEF Arrangements
<1>9. QED
  BY <1>8 DEF u

\* The place of a column.
LEMMA PlaceOf ==
    ASSUME NEW q \in Arrangements, NEW k \in 1..N, NEW c, q[k] = c
    PROVE  (CHOOSE l \in DOMAIN q : q[l] = c) = k
BY DEF Arrangements

\* The places that a drag changes are those from one end of it to the other.
LEMMA ChangedPlaces ==
    ASSUME NEW q \in Arrangements, NEW i \in 1..N, NEW j \in 1..N, i # j
    PROVE  {k \in DOMAIN q : q[k] # Dragged(q, i, j)[k]}
               = IF i < j THEN i..j ELSE j..i
<1> DEFINE u == Dragged(q, i, j)
<1>1. /\ N \in Nat /\ DOMAIN q = 1..N
      /\ \A k \in 1..N : u[k] = IF k = j THEN q[i]
                                ELSE IF i <= k /\ k < j THEN q[k + 1]
                                ELSE IF j < k /\ k <= i THEN q[k - 1] ELSE q[k]
      /\ \A k, l \in 1..N : q[k] = q[l] => k = l
  <2>1. /\ N \in Nat /\ DOMAIN q = 1..N
        /\ \A k, l \in 1..N : q[k] = q[l] => k = l
    BY NType DEF Arrangements
  <2>2. QED
    BY <2>1, DraggedAt
<1> HIDE DEF u
<1>2. ASSUME NEW k \in 1..N
      PROVE  q[k] # u[k] <=> \/ i <= k /\ k <= j
                             \/ j <= k /\ k <= i
  <2>1. CASE k = j
    BY <1>1, <2>1
  <2>2. CASE i <= k /\ k < j
    <3>1. k + 1 \in 1..N /\ u[k] = q[k + 1]
      BY <1>1, <2>2
    <3>2. QED
      BY <1>1, <2>2, <3>1
  <2>3. CASE j < k /\ k <= i
    <3>1. k - 1 \in 1..N /\ u[k] = q[k - 1]
      BY <1>1, <2>3
    <3>2. QED
      BY <1>1, <2>3, <3>1
  <2>4. QED
    BY <1>1, <2>1, <2>2, <2>3
<1>3. \A k \in 1..N : q[k] # u[k] <=> k \in IF i < j THEN i..j ELSE j..i
  BY <1>1, <1>2
<1>4. (IF i < j THEN i..j ELSE j..i) \subseteq 1..N
  BY <1>1
<1>5. {k \in 1..N : q[k] # u[k]} = IF i < j THEN i..j ELSE j..i
  BY <1>3, <1>4
<1>6. QED
  BY <1>1, <1>5 DEF u

LEMMA Ends ==
    ASSUME NEW a \in Int, NEW b \in Int, a <= b
    PROVE  Min(a..b) = a /\ Max(a..b) = b
<1>1. a \in a..b /\ b \in a..b
  OBVIOUS
<1>2. ASSUME NEW x \in a..b, \A y \in a..b : x =< y PROVE x = a
  BY <1>1, <1>2
<1>3. ASSUME NEW x \in a..b, \A y \in a..b : x >= y PROVE x = b
  BY <1>1, <1>3
<1>4. (\A y \in a..b : a =< y) /\ (\A y \in a..b : b >= y)
  OBVIOUS
<1>5. QED
  BY <1>1, <1>2, <1>3, <1>4 DEF Min, Max

\* The two names that are sent for a drag are columns, and moving the first to
\* where the second is makes the whole drag.
LEMMA DragNames ==
    ASSUME NEW q \in Arrangements, NEW i \in 1..N, NEW j \in 1..N, i # j,
           NEW d, d = RowReordered(Details(q, Dragged(q, i, j)))
    PROVE  /\ d.oldData \in Columns /\ d.newData \in Columns
           /\ \E k, l \in 1..N : /\ d.oldData = q[k] /\ d.newData = q[l]
                                 /\ Dragged(q, k, l) = Dragged(q, i, j)
<1> DEFINE u == Dragged(q, i, j)
           det == Details(q, u)
           a == IF i < j THEN i ELSE j
           b == IF i < j THEN j ELSE i
<1>1. /\ N \in Nat /\ DOMAIN q = 1..N
      /\ q \in [1..N -> Columns]
      /\ \A k \in 1..N : u[k] = IF k = j THEN q[i]
                                ELSE IF i <= k /\ k < j THEN q[k + 1]
                                ELSE IF j < k /\ k <= i THEN q[k - 1]
                                ELSE q[k]
  <2>1. /\ N \in Nat /\ DOMAIN q = 1..N
        /\ q \in [1..N -> Columns]
    BY NType DEF Arrangements
  <2>2. QED
    BY <2>1, DraggedAt
<1>2. a \in 1..N /\ b \in 1..N /\ a < b
  BY <1>1
<1>3. DOMAIN det = a..b
  <2>1. DOMAIN det = {k \in DOMAIN q : q[k] # u[k]}
    BY DEF Details
  <2>2. (IF i < j THEN i..j ELSE j..i) = a..b
    OBVIOUS
  <2>3. QED
    BY <2>1, <2>2, ChangedPlaces
<1>4. Min(DOMAIN det) = a /\ Max(DOMAIN det) = b
  BY <1>2, <1>3, Ends
<1>5. ASSUME NEW k \in {a, b}, NEW l \in 1..N, q[l] = u[k]
      PROVE  /\ det[k].oldData = u[k] /\ det[k].newData = q[k]
             /\ det[k].oldPosition = l /\ det[k].newPosition = k
  <2>1. k \in DOMAIN det
    BY <1>2, <1>3
  <2>2. det[k] = [oldData |-> u[k], newData |-> q[k], newPosition |-> k,
                  oldPosition |-> CHOOSE m \in DOMAIN q : q[m] = u[k]]
    BY <2>1 DEF Details
  <2>3. (CHOOSE m \in DOMAIN q : q[m] = u[k]) = l
    BY <1>5, PlaceOf
  <2>4. QED
    BY <2>2, <2>3
<1>6. d = IF det[a].oldPosition - det[a].newPosition = 1 THEN det[b] ELSE det[a]
  BY <1>4 DEF RowReordered, First
<1>0. SUFFICES \E k, l \in 1..N : /\ d.oldData = q[k] /\ d.newData = q[l]
                                  /\ Dragged(q, k, l) = u
  BY <1>1
<1> HIDE DEF det, u
<1>7. CASE i < j
  <2>1. a = i /\ b = j /\ i + 1 \in 1..N
    BY <1>1, <1>7
  <2>2. u[i] = q[i + 1] /\ u[j] = q[i]
    BY <1>1, <1>7
  <2>3. det[i].oldPosition = i + 1 /\ det[i].newPosition = i
    BY <1>5, <2>1, <2>2
  <2>4. d = det[j]
    BY <1>6, <2>1, <2>3
  <2>5. d.oldData = q[i] /\ d.newData = q[j]
    BY <1>5, <2>1, <2>2, <2>4
  <2>6. QED
    BY <2>5 DEF u
<1>8. CASE j < i
  <2>1. a = j /\ b = i
    BY <1>1, <1>8
  <2>2. u[j] = q[i] /\ u[i] = q[i - 1] /\ i - 1 \in 1..N
    BY <1>1, <1>8
  <2>3. det[j].oldPosition = i /\ det[j].newPosition = j
    BY <1>5, <2>1, <2>2
  <2>4. CASE i - j = 1
    <3>1. d = det[i] /\ i - 1 = j
      BY <1>6, <2>1, <2>3, <2>4
    <3>2. d.oldData = q[j] /\ d.newData = q[i]
      BY <1>5, <2>1, <2>2, <3>1
    <3>3. Dragged(q, j, i) = u
      <4>1. /\ Dragged(q, j, i) \in [1..N -> Columns]
            /\ u \in [1..N -> Columns]
        BY <1>1, DraggedAt DEF u
      <4>2. \A k \in 1..N : Dragged(q, j, i)[k] =
                IF k = i THEN q[j]
                ELSE IF j <= k /\ k < i THEN q[k + 1]
                ELSE IF i < k /\ k <= j THEN q[k - 1] ELSE q[k]
        BY <1>1, DraggedAt
      <4>3. ASSUME NEW k \in 1..N PROVE Dragged(q, j, i)[k] = u[k]
        <5>1. j + 1 = i
          BY <1>1, <3>1
        <5>2. CASE k = i
          <6>1. Dragged(q, j, i)[k] = q[j] /\ u[k] = q[i - 1]
            BY <1>1, <1>8, <4>2, <5>2
          <6>2. QED
            BY <3>1, <6>1
        <5>3. CASE k = j
          <6>1. Dragged(q, j, i)[k] = q[j + 1] /\ u[k] = q[i]
            BY <1>1, <1>8, <4>2, <5>3
          <6>2. QED
            BY <5>1, <6>1
        <5>4. CASE k # i /\ k # j
          BY <1>1, <4>2, <5>1, <5>4
        <5>5. QED
          BY <5>2, <5>3, <5>4
      <4>4. /\ Dragged(q, j, i) = [k \in 1..N |-> Dragged(q, j, i)[k]]
            /\ u = [k \in 1..N |-> u[k]]
        BY <4>1
      <4>5. QED
        BY <4>3, <4>4
    <3>4. QED
      BY <3>2, <3>3
  <2>5. CASE i - j # 1
    <3>1. d = det[j]
      BY <1>6, <2>1, <2>3, <2>5
    <3>2. d.oldData = q[i] /\ d.newData = q[j]
      BY <1>5, <2>1, <2>2, <3>1
    <3>3. QED
      BY <3>2 DEF u
  <2>6. QED
    BY <2>4, <2>5
<1>9. QED
  BY <1>1, <1>7, <1>8

LEMMA DragIsMove ==
    ASSUME order \in Arrangements, NEW i \in 1..N, NEW j \in 1..N, i # j,
           NEW d, d = RowReordered(Details(order, Dragged(order, i, j)))
    PROVE  Moved(d.oldData, d.newData) = Dragged(order, i, j)
<1>1. PICK k \in 1..N, l \in 1..N :
          /\ d.oldData = order[k] /\ d.newData = order[l]
          /\ Dragged(order, k, l) = Dragged(order, i, j)
  BY DragNames
<1>2. Moved(order[k], order[l]) = Dragged(order, k, l)
  BY PlaceOf DEF Moved
<1>3. QED
  BY <1>1, <1>2

\* A column that is moved to the place of another.
LEMMA MovedType ==
    ASSUME order \in Arrangements, NEW a \in Columns, NEW b \in Columns
    PROVE  Moved(a, b) \in Arrangements
<1>1. \A c \in Columns : \E k \in 1..N : order[k] = c
  BY DEF Arrangements
<1>2. PICK k \in 1..N : order[k] = a
  BY <1>1
<1>3. PICK l \in 1..N : order[l] = b
  BY <1>1
<1>4. /\ (CHOOSE m \in DOMAIN order : order[m] = a) = k
      /\ (CHOOSE m \in DOMAIN order : order[m] = b) = l
  BY <1>2, <1>3, PlaceOf
<1>5. Moved(a, b) = Dragged(order, k, l)
  BY <1>4 DEF Moved
<1>6. QED
  BY <1>5, DraggedType
-----------------------------------------------------------------------------
(* Types.                                                                    *)

\* The requests for a form or with one: only a clone is sent without a form.
IsForm(r) ==
    /\ r \in [ask : FormAsks, sent : Sent]
    /\ r.ask.op # "create" => r.ask.of \in Conditions
    /\ r.ask.what = "load" => r.ask.op # "clone"
    /\ r.sent.reply = "form" => r.ask.op # "clone"
    /\ r.sent.reply # "done"

IsOther(r) ==
    /\ r \in [ask : ToggleAsks \cup MoveAsks
                      \cup [what : {"list"}, order : Arrangements], sent : Sent]
    /\ r.sent.reply # "form"

IsRequest(r) == IsForm(r) \/ IsOther(r)

NetTyped ==
    /\ net = [s \in Slots |-> net[s]]
    /\ \A s \in Slots : net[s] # None => IsRequest(net[s])

PageTyped ==
    /\ hasty \in BOOLEAN
    /\ kind \in {"conditions", "boxes", "columns"}
    /\ formula \in [Conditions -> Formulas \cup {None}]
    /\ enabled \in SUBSET Boxes /\ ticked \in SUBSET Boxes
    /\ order \in Arrangements /\ list \in Arrangements
    /\ shown \in BOOLEAN
    /\ content \in Contents \cup {None}
    /\ content # None /\ content.op # "create" => content.of \in Conditions
    /\ rules \in Formulas \cup {None}
    /\ elem \in Boxes \cup {None}

\* The box of a request that waits for its answer has been clicked.
ElemKnown ==
    \A s \in Slots : Mine(s) /\ net[s].ask.what = "toggle" => elem \in Boxes

TInv == PageTyped /\ NetTyped /\ ElemKnown

LEMMA TypesImply == TInv => TypeOK
<1> SUFFICES ASSUME TInv PROVE TypeOK
  OBVIOUS
<1> USE DEF TInv
<1>1. /\ order \in Bijection(DOMAIN order, Columns)
      /\ list \in Bijection(DOMAIN order, Columns)
      /\ Arrangements \subseteq Bijection(DOMAIN order, Columns)
  BY ArrangementBijection, ArrangementSeq DEF PageTyped
<1>2. ASSUME NEW s \in Slots, net[s] # None PROVE net[s] \in Requests
  BY <1>1, <1>2 DEF NetTyped, IsRequest, IsForm, IsOther, Requests
<1>3. QED
  BY <1>1, <1>2 DEF PageTyped, TypeOK

\* A request is put into a slot, or goes.
LEMMA SlotSet ==
    ASSUME NetTyped, NEW s \in Slots, NEW x, x = None \/ IsRequest(x),
           net' = [net EXCEPT ![s] = x]
    PROVE  /\ NetTyped' /\ net'[s] = x
           /\ \A r \in Slots \ {s} : net'[r] = net[r]
<1>1. /\ net' = [r \in Slots |-> IF r = s THEN x ELSE net[r]]
      /\ \A r \in Slots : net'[r] = IF r = s THEN x ELSE net[r]
  BY DEF NetTyped
<1>2. net' = [r \in Slots |-> net'[r]]
  BY <1>1
<1>3. \A r \in Slots : net'[r] # None => IsRequest(net'[r])
  BY <1>1 DEF NetTyped
<1>4. NetTyped'
  BY <1>2, <1>3 DEF NetTyped, IsRequest, IsForm, IsOther
<1>5. QED
  BY <1>1, <1>4

\* The request r with an answer.
With(r, reply, ask) ==
    [ask |-> ask, sent |-> [mine |-> r.sent.mine, reply |-> reply]]

LEMMA AnswerSet ==
    ASSUME NetTyped, NEW s \in Slots, net[s] # None, NEW reply, NEW ask,
           Answer(s, reply, ask), IsRequest(With(net[s], reply, ask))
    PROVE  /\ NetTyped' /\ net'[s] = With(net[s], reply, ask)
           /\ \A r \in Slots \ {s} : net'[r] = net[r]
<1>1. net[s].sent \in Sent
  BY DEF NetTyped, IsRequest, IsForm, IsOther
<1>2. [net[s].sent EXCEPT !.reply = reply]
          = [mine |-> net[s].sent.mine, reply |-> reply]
  BY <1>1 DEF Sent
<1>3. net' = [net EXCEPT ![s] = With(net[s], reply, ask)]
  BY <1>2 DEF Answer, With
<1>4. QED
  BY <1>3, SlotSet

LEMMA SendTyped ==
    ASSUME TInv, NEW s \in Slots, NEW ask,
           \/ /\ ask \in FormAsks
              /\ ask.op # "create" => ask.of \in Conditions
              /\ ask.what = "load" => ask.op # "clone"
           \/ ask \in ToggleAsks \cup MoveAsks,
           Send(s, ask),
           elem' = IF ask.what = "toggle" THEN ask.box ELSE elem
    PROVE  NetTyped' /\ ElemKnown'
<1> DEFINE x == [ask |-> ask, sent |-> [mine |-> TRUE, reply |-> "none"]]
<1>1. x.sent \in Sent /\ x.sent.reply = "none"
  BY DEF Sent
<1>2. IsRequest(x)
  BY <1>1 DEF IsRequest, IsForm, IsOther
<1>3. /\ NetTyped' /\ net'[s] = x
      /\ \A r \in Slots \ {s} : net'[r] = net[r]
  BY <1>2, SlotSet DEF TInv, Send
<1>4. elem' \in Boxes \/ (elem' = elem /\ ask.what # "toggle")
  BY DEF FormAsks, ToggleAsks, MoveAsks
<1>5. ElemKnown'
  BY <1>3, <1>4 DEF ElemKnown, TInv, Mine
<1>6. QED
  BY <1>3, <1>5

LEMMA AnswerTyped ==
    ASSUME TInv, NEW s \in Slots, net[s] # None, NEW reply, NEW ask,
           Answer(s, reply, ask), IsRequest(With(net[s], reply, ask)),
           ask.what = net[s].ask.what, elem' = elem
    PROVE  NetTyped' /\ ElemKnown'
<1>1. /\ NetTyped' /\ net'[s] = With(net[s], reply, ask)
      /\ \A r \in Slots \ {s} : net'[r] = net[r]
  BY AnswerSet DEF TInv
<1>2. ElemKnown'
  BY <1>1 DEF ElemKnown, TInv, Mine, With
<1>3. QED
  BY <1>1, <1>2

LEMMA FreeTyped ==
    ASSUME TInv, NEW s \in Slots, Free(s), elem' = elem
    PROVE  NetTyped' /\ ElemKnown'
<1>1. /\ NetTyped' /\ net'[s] = None
      /\ \A r \in Slots \ {s} : net'[r] = net[r]
  BY SlotSet DEF TInv, Free
<1>2. QED
  BY <1>1 DEF ElemKnown, TInv, Mine

LEMMA ClickTyped == ASSUME TInv, NEW s \in Slots, Click(s) PROVE TInv'
<1> USE DEF TInv, server, modal
<1>1. ASSUME NEW op \in Operations, NEW c \in Conditions \cup {None},
             LoadForm(s, op, c)
      PROVE  TInv'
  <2> DEFINE ask == [what |-> "load", op |-> op, of |-> c, rules |-> None]
  <2>1. ask \in FormAsks /\ (ask.op # "create" => ask.of \in Conditions)
        /\ ask.op # "clone" /\ ask.what # "toggle"
    BY <1>1 DEF LoadForm, FormAsks, Operations
  <2>2. Send(s, ask) /\ elem' = elem
    BY <1>1 DEF LoadForm
  <2> HIDE DEF ask
  <2>3. NetTyped' /\ ElemKnown'
    BY <2>1, <2>2, SendTyped
  <2>4. content # None => content \in Contents
    BY DEF PageTyped
  <2>5. PageTyped'
    BY <1>1, <2>4 DEF LoadForm, PageTyped, Contents
  <2>6. QED
    BY <2>3, <2>5
<1>2. ASSUME SaveForm(s) PROVE TInv'
  <2> DEFINE ask == [what |-> "save", op |-> content.op, of |-> content.of,
                     rules |-> content.rules]
  <2>1. content \in Contents /\ content # None
    BY <1>2 DEF SaveForm, PageTyped
  <2>2. ask \in FormAsks /\ (ask.op # "create" => ask.of \in Conditions)
        /\ ask.what # "load" /\ ask.what # "toggle"
    BY <2>1 DEF PageTyped, Contents, FormAsks
  <2>3. Send(s, ask) /\ elem' = elem
    BY <1>2 DEF SaveForm
  <2> HIDE DEF ask
  <2>4. NetTyped' /\ ElemKnown'
    BY <2>2, <2>3, SendTyped
  <2>5. PageTyped'
    BY <1>2 DEF SaveForm, PageTyped
  <2>6. QED
    BY <2>4, <2>5
<1>3. ASSUME NEW c \in Conditions, ConditionClone(s, c) PROVE TInv'
  <2> DEFINE ask == [what |-> "save", op |-> "clone", of |-> c, rules |-> None]
  <2>1. ask \in FormAsks /\ (ask.op # "create" => ask.of \in Conditions)
        /\ ask.what # "load" /\ ask.what # "toggle"
    BY DEF FormAsks
  <2>2. Send(s, ask) /\ elem' = elem
    BY <1>3 DEF ConditionClone
  <2> HIDE DEF ask
  <2>3. NetTyped' /\ ElemKnown'
    BY <2>1, <2>2, SendTyped
  <2>4. QED
    BY <1>3, <2>3 DEF ConditionClone, PageTyped
<1>4. ASSUME NEW b \in Boxes, ToggleCheckBox(s, b) PROVE TInv'
  <2> DEFINE ask == [what |-> "toggle", box |-> b, on |-> FALSE]
  <2>1. ask \in ToggleAsks /\ ask.what = "toggle" /\ ask.box = b
    BY DEF ToggleAsks
  <2>2. Send(s, ask) /\ elem' = b
    BY <1>4 DEF ToggleCheckBox
  <2> HIDE DEF ask
  <2>3. NetTyped' /\ ElemKnown'
    BY <2>1, <2>2, SendTyped
  <2>4. QED
    BY <1>4, <2>3 DEF ToggleCheckBox, PageTyped
<1>5. ASSUME NEW i \in DOMAIN list, NEW j \in DOMAIN list, DragRow(s, i, j)
      PROVE  TInv'
  <2> DEFINE d == RowReordered(Details(list, list'))
             ask == [what |-> "move", from |-> d.oldData, to |-> d.newData]
  <2>1. i \in 1..N /\ j \in 1..N /\ i # j /\ list' = Dragged(list, i, j)
    BY <1>5, ArrangementSeq DEF DragRow, PageTyped
  <2>2. list' \in Arrangements
    BY <2>1, DraggedType DEF PageTyped
  <2>3. d.oldData \in Columns /\ d.newData \in Columns
    BY <2>1, DragNames DEF PageTyped
  <2>4. ask \in MoveAsks /\ ask.what # "toggle"
    BY <2>3 DEF MoveAsks
  <2>5. Send(s, ask) /\ elem' = elem
    BY <1>5 DEF DragRow
  <2> HIDE DEF ask, d
  <2>6. NetTyped' /\ ElemKnown'
    BY <2>4, <2>5, SendTyped
  <2>7. QED
    BY <1>5, <2>2, <2>6 DEF DragRow, PageTyped
<1>6. QED
  BY <1>1, <1>2, <1>3, <1>4, <1>5 DEF Click

\* The kind of a request by what it asks.
LEMMA Kinds ==
    ASSUME NEW r, IsRequest(r)
    PROVE  /\ r.ask.what \in {"load", "save"} =>
                  IsForm(r) /\ r.ask \in FormAsks
           /\ r.ask.what = "toggle" => IsOther(r) /\ r.ask \in ToggleAsks
           /\ r.ask.what = "move" => IsOther(r) /\ r.ask \in MoveAsks
           /\ r.ask.what = "list" =>
                  IsOther(r) /\ r.ask \in [what : {"list"}, order : Arrangements]
           /\ r.ask.what \in {"load", "save", "toggle", "move", "list"}
           /\ r.sent \in Sent
BY DEF IsRequest, IsForm, IsOther, FormAsks, ToggleAsks, MoveAsks

LEMMA ServeTyped == ASSUME TInv, NEW s \in Slots, Serve(s) PROVE TInv'
<1> USE DEF TInv, server, modal
<1>0. net[s] # None /\ IsRequest(net[s])
  BY DEF Serve, ServeForm, ServeSave, ServeToggle, ServeMove, ServeList,
         Unanswered, NetTyped
<1>1. CASE ServeForm(s)
  <2> DEFINE a == net[s].ask
             b == [a EXCEPT !.rules = IF a.op = "edit" THEN formula[a.of]
                                      ELSE None]
  <2>1. a.what = "load" /\ IsForm(net[s]) /\ a \in FormAsks
    BY <1>0, <1>1, Kinds DEF ServeForm, Unanswered
  <2>2. a.op = "edit" => formula[a.of] \in Formulas \cup {None}
    BY <2>1 DEF IsForm, PageTyped
  <2>3. b \in FormAsks /\ b.what = a.what /\ b.op = a.op /\ b.of = a.of
    BY <2>1, <2>2 DEF FormAsks
  <2> HIDE DEF b
  <2>4. /\ IsRequest(With(net[s], "reload", a))
        /\ IsRequest(With(net[s], "form", b))
    BY <2>1, <2>3 DEF IsRequest, IsForm, With, Sent
  <2>5. (Answer(s, "reload", a) \/ Answer(s, "form", b)) /\ elem' = elem
    BY <1>1 DEF ServeForm, b
  <2>6. NetTyped' /\ ElemKnown'
    BY <1>0, <2>3, <2>4, <2>5, AnswerTyped
  <2>7. QED
    BY <1>1, <2>6 DEF ServeForm, PageTyped
<1>2. CASE ServeSave(s)
  <2> DEFINE a == net[s].ask
  <2>1. a.what = "save" /\ IsForm(net[s]) /\ a \in FormAsks
    BY <1>0, <1>2, Kinds DEF ServeSave, Unanswered
  <2>2. CASE /\ a.op \in {"create", "edit"}
             /\ Answer(s, "form", a) /\ UNCHANGED formula
    <3>1. IsRequest(With(net[s], "form", a))
      BY <2>1, <2>2 DEF IsRequest, IsForm, With, Sent
    <3>2. NetTyped' /\ ElemKnown'
      BY <1>0, <1>2, <2>2, <3>1, AnswerTyped DEF ServeSave
    <3>3. QED
      BY <1>2, <2>2, <3>2 DEF ServeSave, PageTyped
  <2>3. CASE Answer(s, "reload", a)
    <3>1. IsRequest(With(net[s], "reload", a))
      BY <2>1 DEF IsRequest, IsForm, With, Sent
    <3>2. NetTyped' /\ ElemKnown'
      BY <1>0, <1>2, <2>3, <3>1, AnswerTyped DEF ServeSave
    <3>3. a.rules \in Formulas \cup {None}
      BY <2>1 DEF FormAsks
    <3>4. a.op = "clone" => formula[a.of] \in Formulas \cup {None}
      BY <2>1 DEF IsForm, PageTyped
    <3>5. formula' \in [Conditions -> Formulas \cup {None}]
      BY <1>2, <3>3, <3>4 DEF ServeSave, PageTyped
    <3>6. QED
      BY <1>2, <3>2, <3>5 DEF ServeSave, PageTyped
  <2>4. QED
    BY <1>2, <2>2, <2>3 DEF ServeSave
<1>3. CASE ServeToggle(s)
  <2> DEFINE a == net[s].ask
             b == [a EXCEPT !.on = a.box \in enabled']
  <2>1. a.what = "toggle" /\ a \in ToggleAsks
    BY <1>0, <1>3, Kinds DEF ServeToggle, Unanswered
  <2>2. b \in ToggleAsks /\ b.what = a.what
    <3> DEFINE on == a.box \in enabled'
    <3>1. on \in BOOLEAN
      OBVIOUS
    <3> HIDE DEF on
    <3>2. [a EXCEPT !.on = on] \in ToggleAsks
          /\ [a EXCEPT !.on = on].what = a.what
      BY <2>1, <3>1 DEF ToggleAsks
    <3>3. QED
      BY <3>2 DEF on
  <2>3. Answer(s, "done", b) /\ elem' = elem
    BY <1>3 DEF ServeToggle
  <2> HIDE DEF b
  <2>4. IsRequest(With(net[s], "done", b))
    BY <1>0, <2>2, Kinds DEF IsRequest, IsOther, With, Sent
  <2>5. NetTyped' /\ ElemKnown'
    BY <1>0, <2>2, <2>3, <2>4, AnswerTyped
  <2>6. enabled' \in SUBSET Boxes
    BY <1>3, <2>1 DEF ServeToggle, PageTyped, ToggleAsks
  <2>7. QED
    BY <1>3, <2>5, <2>6 DEF ServeToggle, PageTyped
<1>4. CASE ServeMove(s)
  <2>1. net[s].ask.what = "move" /\ net[s].ask \in MoveAsks
    BY <1>0, <1>4, Kinds DEF ServeMove, Unanswered
  <2>2. IsRequest(With(net[s], "done", net[s].ask))
    BY <1>0, <2>1, Kinds DEF IsRequest, IsOther, With, Sent
  <2>3. NetTyped' /\ ElemKnown'
    BY <1>0, <1>4, <2>2, AnswerTyped DEF ServeMove
  <2>4. order' \in Arrangements
    BY <1>4, <2>1, MovedType DEF ServeMove, PageTyped, MoveAsks
  <2>5. QED
    BY <1>4, <2>3, <2>4 DEF ServeMove, PageTyped
<1>5. CASE ServeList(s)
  <2> DEFINE ListAsks == [what : {"list"}, order : Arrangements]
             b == [net[s].ask EXCEPT !.order = order]
  <2>1. net[s].ask.what = "list" /\ net[s].ask \in ListAsks
    BY <1>0, <1>5, Kinds DEF ServeList, Unanswered
  <2>2. b \in ListAsks /\ b.what = "list"
    BY <2>1 DEF PageTyped
  <2>3. Answer(s, "done", b) /\ elem' = elem
    BY <1>5 DEF ServeList
  <2> HIDE DEF b
  <2>4. IsRequest(With(net[s], "done", b))
    BY <1>0, <2>2, Kinds DEF IsRequest, IsOther, With, Sent
  <2>5. NetTyped' /\ ElemKnown'
    BY <1>0, <2>1, <2>2, <2>3, <2>4, AnswerTyped
  <2>6. QED
    BY <1>5, <2>5 DEF ServeList, PageTyped
<1>6. QED
  BY <1>1, <1>2, <1>3, <1>4, <1>5 DEF Serve

LEMMA FailTyped == ASSUME TInv, NEW s \in Slots, Fail(s) PROVE TInv'
<1>1. net[s] # None /\ IsRequest(net[s])
  BY DEF Fail, Mine, NetTyped, TInv
<1>2. IsRequest(With(net[s], "reload", net[s].ask))
  BY <1>1 DEF IsRequest, IsForm, IsOther, With, Sent
<1>3. NetTyped' /\ ElemKnown'
  BY <1>1, <1>2, AnswerTyped DEF Fail
<1>4. QED
  BY <1>3 DEF Fail, TInv, PageTyped, server, modal

LEMMA Unclaimed ==
    ASSUME NEW x \in Sent, NEW m
    PROVE  [x EXCEPT !.mine = m] = [mine |-> m, reply |-> x.reply]
BY DEF Sent

LEMMA ArriveTyped == ASSUME TInv, NEW s \in Slots, Arrive(s) PROVE TInv'
<1> USE DEF TInv, server, modal
<1>0. net[s] # None /\ IsRequest(net[s])
  BY DEF Arrive, NetTyped
<1>1. CASE Free(s) /\ UNCHANGED <<modal, ticked, list, elem>>
  <2>1. NetTyped' /\ ElemKnown'
    BY <1>1, FreeTyped
  <2>2. QED
    BY <1>1, <2>1 DEF Arrive, PageTyped
<1>2. CASE Reload(s)
  <2> DEFINE left(r) == [net[r] EXCEPT !.sent.mine = FALSE]
  <2>1. ASSUME NEW r \in Slots, net[r] # None
        PROVE  IsRequest(left(r)) /\ ~ left(r).sent.mine
    <3>1. IsRequest(net[r])
      BY <2>1 DEF NetTyped
    <3>2. left(r) = [ask |-> net[r].ask,
                     sent |-> [mine |-> FALSE, reply |-> net[r].sent.reply]]
      <4>1. PICK A : net[r] \in [ask : A, sent : Sent]
        BY <3>1 DEF IsRequest, IsForm, IsOther
      <4> DEFINE z == [net[r].sent EXCEPT !.mine = FALSE]
      <4>2. z = [mine |-> FALSE, reply |-> net[r].sent.reply]
        <5>1. net[r].sent \in Sent
          BY <4>1
        <5>2. QED
          BY <5>1, Unclaimed
      <4>3. left(r) = [net[r] EXCEPT !.sent = z]
        OBVIOUS
      <4> HIDE DEF z
      <4>4. [net[r] EXCEPT !.sent = z] = [ask |-> net[r].ask, sent |-> z]
        BY <4>1
      <4>5. QED
        BY <4>2, <4>3, <4>4
    <3> HIDE DEF left
    <3>3. QED
      BY <3>1, <3>2 DEF IsRequest, IsForm, IsOther, Sent
  <2>2. net' = [r \in Slots |-> IF r = s \/ net[r] = None THEN None ELSE left(r)]
    BY <1>2 DEF Reload
  <2> HIDE DEF left
  <2>3. \A r \in Slots : net'[r] # None => IsRequest(net'[r]) /\ ~ net'[r].sent.mine
    BY <2>1, <2>2
  <2>4. net' = [r \in Slots |-> net'[r]]
    BY <2>2
  <2>5. NetTyped' /\ ElemKnown'
    BY <2>3, <2>4 DEF NetTyped, ElemKnown, Mine, IsRequest, IsForm, IsOther
  <2>6. None \in Contents \cup {None}
    OBVIOUS
  <2>7. QED
    BY <1>2, <2>5 DEF Arrive, Reload, PageTyped
<1>3. CASE net[s].sent.reply = "form" /\ ShowForm(s)
  <2> DEFINE a == net[s].ask
  <2>1. IsForm(net[s]) /\ a \in FormAsks /\ a.op \in Operations
    BY <1>0, <1>3 DEF IsRequest, IsForm, IsOther, FormAsks
  <2>2. a.op # "create" => a.of \in Conditions
    BY <2>1 DEF IsForm
  <2>3. a.rules \in Formulas \cup {None} /\ a.of \in Conditions \cup {None}
    BY <2>1 DEF FormAsks
  <2>4. content' \in Contents /\ content'.op = a.op /\ content'.of = a.of
    BY <1>3, <2>1, <2>3 DEF ShowForm, Contents, PageTyped
  <2>5. rules' \in Formulas \cup {None}
    BY <1>3, <2>3 DEF ShowForm, PageTyped
  <2>6. NetTyped' /\ ElemKnown'
    BY <1>3, FreeTyped DEF ShowForm
  <2>7. QED
    BY <1>3, <2>2, <2>4, <2>5, <2>6 DEF Arrive, ShowForm, PageTyped
<1>4. CASE /\ net[s].sent.mine /\ net[s].ask.what = "toggle"
           /\ ShowToggle(s)
  <2>1. elem \in Boxes
    BY <1>0, <1>4 DEF ElemKnown, Mine
  <2>2. ticked' \in SUBSET Boxes
    BY <1>4, <2>1 DEF ShowToggle, Tick, PageTyped
  <2>3. NetTyped' /\ ElemKnown'
    BY <1>4, FreeTyped DEF ShowToggle
  <2>4. QED
    BY <1>4, <2>2, <2>3 DEF Arrive, ShowToggle, PageTyped
<1>5. CASE ReadList(s)
  <2> DEFINE x == [ask |-> [what |-> "list", order |-> list],
                   sent |-> [mine |-> TRUE, reply |-> "none"]]
  <2>1. IsRequest(x) /\ x.ask.what = "list"
    BY DEF IsRequest, IsOther, Sent, PageTyped
  <2>2. net' = [net EXCEPT ![s] = x]
    BY <1>5 DEF ReadList
  <2> HIDE DEF x
  <2>3. /\ NetTyped' /\ net'[s] = x
        /\ \A r \in Slots \ {s} : net'[r] = net[r]
    BY <2>1, <2>2, SlotSet
  <2>4. ElemKnown'
    BY <1>5, <2>1, <2>3 DEF ElemKnown, Mine, ReadList
  <2>5. QED
    BY <1>5, <2>3, <2>4 DEF Arrive, ReadList, PageTyped
<1>6. CASE net[s].ask.what = "list" /\ ShowList(s)
  <2>1. net[s].ask.order \in Arrangements
    BY <1>0, <1>6, Kinds
  <2>2. NetTyped' /\ ElemKnown'
    BY <1>6, FreeTyped DEF ShowList
  <2>3. QED
    BY <1>6, <2>1, <2>2 DEF Arrive, ShowList, PageTyped
<1>7. QED
  BY <1>1, <1>2, <1>3, <1>4, <1>5, <1>6 DEF Arrive

LEMMA TypesStep == TInv /\ [Next]_vars => TInv'
<1> SUFFICES ASSUME TInv, [Next]_vars PROVE TInv'
  OBVIOUS
<1>1. CASE Hide
  BY <1>1 DEF Hide, RulesForgotten, TInv, PageTyped, NetTyped, ElemKnown, Mine,
              server
<1>2. ASSUME NEW f \in Formulas, Build(f) PROVE TInv'
  <2>1. content \in Contents /\ content'.op = content.op
        /\ content'.of = content.of /\ content' \in Contents
    BY <1>2 DEF Build, TInv, PageTyped, Contents
  <2>2. QED
    BY <1>2, <2>1 DEF Build, TInv, PageTyped, NetTyped, ElemKnown, Mine, server
<1>3. CASE UNCHANGED vars
  BY <1>3 DEF vars, server, modal, TInv, PageTyped, NetTyped, ElemKnown, Mine
<1>4. QED
  BY <1>1, <1>2, <1>3, ClickTyped, ServeTyped, FailTyped, ArriveTyped DEF Next

LEMMA FirstOrder == SetToSeq(Columns) \in Arrangements
<1> DEFINE f == SetToSeq(Columns)
<1>1. ExistsBijection(1..N, Columns) /\ N \in Nat
  BY BrowserAssumption, FS_CardinalityType DEF N
<1>2. PICK g \in Bijection(1..N, Columns) : TRUE
  BY <1>1 DEF ExistsBijection
<1>3. g \in [1..N -> Columns] /\ IsInjective(g)
  BY <1>2 DEF Bijection, Injection
<1>4. f = CHOOSE h \in [1..N -> Columns] : IsInjective(h)
  BY DEF SetToSeq, N
<1>5. f \in [1..N -> Columns] /\ IsInjective(f)
  BY <1>3, <1>4
<1> HIDE DEF f
<1>6. f \in Injection(1..N, Columns)
  BY <1>5 DEF Injection
<1>7. Cardinality(1..N) = Cardinality(Columns)
  <2>1. Cardinality(1..N) = N
    BY <1>1, FS_Interval
  <2>2. QED
    BY <2>1 DEF N
<1>8. f \in Surjection(1..N, Columns)
  BY <1>6, <1>7, BrowserAssumption, FS_Injection
<1>9. f \in Arrangements
  BY <1>5, <1>8 DEF Arrangements, Surjection, IsInjective
<1>10. QED
  BY <1>9 DEF f

LEMMA TypesInit == Init => TInv
BY FirstOrder DEF Init, TInv, PageTyped, NetTyped, ElemKnown, Mine

\* Pages, forms and requests are well-formed, whatever is clicked and in
\* whatever order answers arrive.
THEOREM PagesTyped == Spec => []TypeOK
<1>1. QED
  BY TypesInit, TypesStep, TypesImply, PTL DEF Spec
-----------------------------------------------------------------------------
(* All users: the modal.                                                     *)

\* A request of the page for a form, or with one.
Awaited(s) == Mine(s) /\ net[s].ask.what \in {"load", "save"}

\* A request with a form that is answered is still awaited: by its arrival.
LEMMA AnsweredForm ==
    ASSUME TInv, NEW s \in Slots, net[s] # None,
           NEW reply \in {"none", "form", "done", "reload"}, NEW ask,
           ask.what = net[s].ask.what,
           ask.what \in {"load", "save"} => ask \in FormAsks,
           Answer(s, reply, ask)
    PROVE  \A r \in Slots : Awaited(r) => Awaited(r)'
<1> SUFFICES ASSUME NEW r \in Slots, Awaited(r) PROVE Awaited(r)'
  OBVIOUS
<1>0. net[s].sent \in Sent
  BY DEF TInv, NetTyped, IsRequest, IsForm, IsOther
<1>1. [net[s].sent EXCEPT !.reply = reply]
          = [mine |-> net[s].sent.mine, reply |-> reply]
  BY <1>0 DEF Sent
<1>2. net' = [net EXCEPT ![s] = With(net[s], reply, ask)]
  BY <1>1 DEF Answer, With
<1>3. net' = [k \in Slots |->
                 IF k = s THEN With(net[s], reply, ask) ELSE net[k]]
  BY <1>2 DEF TInv, NetTyped
<1>4. CASE r # s
  BY <1>3, <1>4 DEF Awaited, Mine
<1>5. CASE r = s
  <2>1. net'[r] = With(net[s], reply, ask)
    BY <1>3, <1>5
  <2>2. ask \in FormAsks /\ net[s].sent.mine
    BY <1>5 DEF Awaited, Mine
  <2>3. With(net[s], reply, ask)
            \in [ask : FormAsks \cup ToggleAsks \cup MoveAsks, sent : Sent]
    BY <1>0, <2>2 DEF With, Sent
  <2>4. net'[r] # None
    BY <2>1, <2>3, BrowserAssumption
  <2>5. QED
    BY <1>5, <2>1, <2>2, <2>4 DEF Awaited, Mine, With
<1>6. QED
  BY <1>4, <1>5

\* What the server does, or its failing, leaves the modal and who is awaited.
LEMMA ServeAwaited ==
    ASSUME TInv, NEW s \in Slots, Serve(s) \/ Fail(s)
    PROVE  /\ UNCHANGED <<shown, content>>
           /\ \A r \in Slots : Awaited(r) => Awaited(r)'
<1>0. net[s] # None /\ IsRequest(net[s])
  BY DEF Serve, ServeForm, ServeSave, ServeToggle, ServeMove, ServeList, Fail,
         Unanswered, Mine, TInv, NetTyped
<1>1. UNCHANGED <<shown, content>>
  BY DEF Serve, ServeForm, ServeSave, ServeToggle, ServeMove, ServeList, Fail,
         modal
<1> SUFFICES \A r \in Slots : Awaited(r) => Awaited(r)'
  BY <1>1
<1>2. CASE ServeForm(s)
  <2> DEFINE a == net[s].ask
             e == IF a.op = "edit" THEN formula[a.of] ELSE None
  <2>1. a.what = "load" /\ IsForm(net[s]) /\ a \in FormAsks
    BY <1>0, <1>2, Kinds DEF ServeForm, Unanswered
  <2>2. e \in Formulas \cup {None}
    BY <2>1 DEF IsForm, TInv, PageTyped
  <2>3. Answer(s, "reload", a) \/ Answer(s, "form", [a EXCEPT !.rules = e])
    BY <1>2 DEF ServeForm
  <2> HIDE DEF e
  <2>4. [a EXCEPT !.rules = e] \in FormAsks /\ [a EXCEPT !.rules = e].what = a.what
    BY <2>1, <2>2 DEF FormAsks
  <2>5. QED
    BY <1>0, <2>1, <2>3, <2>4, AnsweredForm
<1>3. CASE ServeSave(s) \/ ServeMove(s) \/ Fail(s)
  <2>1. net[s].ask.what \in {"load", "save"} => net[s].ask \in FormAsks
    BY <1>0, Kinds
  <2>2. \/ Answer(s, "form", net[s].ask) \/ Answer(s, "reload", net[s].ask)
        \/ Answer(s, "done", net[s].ask)
    BY <1>3 DEF ServeSave, ServeMove, Fail
  <2>3. QED
    BY <1>0, <2>1, <2>2, AnsweredForm
<1>4. CASE ServeToggle(s) \/ ServeList(s)
  <2>1. net[s].ask.what \notin {"load", "save"}
    BY <1>4 DEF ServeToggle, ServeList, Unanswered
  <2>2. PICK x : net' = [net EXCEPT ![s] = x]
    BY <1>4 DEF ServeToggle, ServeList, Answer
  <2>3. \A r \in Slots \ {s} : net'[r] = net[r]
    BY <2>2 DEF TInv, NetTyped
  <2>4. QED
    BY <2>1, <2>3 DEF Awaited, Mine
<1>5. QED
  BY <1>2, <1>3, <1>4 DEF Serve

\* A request that is sent takes nobody's place, and is awaited if it is about a
\* form.
LEMMA SendAwaited ==
    ASSUME TInv, NEW s \in Slots, NEW ask, Send(s, ask)
    PROVE  /\ \A r \in Slots : Awaited(r) => Awaited(r)'
           /\ ask \in FormAsks => Awaited(s)'
<1> DEFINE x == [ask |-> ask, sent |-> [mine |-> TRUE, reply |-> "none"]]
<1>1. /\ net[s] = None
      /\ net' = [r \in Slots |-> IF r = s THEN x ELSE net[r]]
  BY DEF Send, TInv, NetTyped
<1>2. \A r \in Slots : Awaited(r) => Awaited(r)'
  BY <1>1 DEF Awaited, Mine
<1>3. ASSUME ask \in FormAsks PROVE Awaited(s)'
  <2>1. x \in [ask : FormAsks \cup ToggleAsks \cup MoveAsks, sent : Sent]
    BY <1>3 DEF Sent
  <2>2. net'[s] = x /\ x # None
    BY <1>1, <2>1, BrowserAssumption
  <2>3. ask.what \in {"load", "save"}
    BY <1>3 DEF FormAsks
  <2>4. QED
    BY <2>2, <2>3 DEF Awaited, Mine
<1>4. QED
  BY <1>2, <1>3

\* Whatever is clicked, an empty modal waits for an answer.
LEMMA ClickWaits ==
    ASSUME TInv, EmptyModalWaits, NEW s \in Slots, Click(s)
    PROVE  EmptyModalWaits'
<1> USE DEF EmptyModalWaits
<1>1. ASSUME NEW op \in Operations, NEW c \in Conditions \cup {None},
             LoadForm(s, op, c)
      PROVE  EmptyModalWaits'
  <2> DEFINE ask == [what |-> "load", op |-> op, of |-> c, rules |-> None]
  <2>1. Send(s, ask) /\ ask \in FormAsks
    BY <1>1 DEF LoadForm, FormAsks
  <2>2. Awaited(s)'
    BY <2>1, SendAwaited
  <2>3. QED
    BY <2>2 DEF Awaited
<1>2. CASE SaveForm(s)
  <2> DEFINE ask == [what |-> "save", op |-> content.op, of |-> content.of,
                     rules |-> content.rules]
  <2>1. content \in Contents
    BY <1>2 DEF SaveForm, TInv, PageTyped
  <2>2. Send(s, ask) /\ ask \in FormAsks
    BY <1>2, <2>1 DEF SaveForm, FormAsks, Contents
  <2>3. Awaited(s)'
    BY <2>2, SendAwaited
  <2>4. QED
    BY <2>3 DEF Awaited
<1>3. ASSUME NEW c \in Conditions, ConditionClone(s, c) PROVE EmptyModalWaits'
  <2>1. /\ \A r \in Slots : Awaited(r) => Awaited(r)'
        /\ UNCHANGED <<shown, content>>
    BY <1>3, SendAwaited DEF ConditionClone, modal
  <2>2. QED
    BY <2>1 DEF Awaited
<1>4. ASSUME NEW b \in Boxes, ToggleCheckBox(s, b) PROVE EmptyModalWaits'
  <2>1. /\ \A r \in Slots : Awaited(r) => Awaited(r)'
        /\ UNCHANGED <<shown, content>>
    BY <1>4, SendAwaited DEF ToggleCheckBox, modal
  <2>2. QED
    BY <2>1 DEF Awaited
<1>5. ASSUME NEW i, NEW j, DragRow(s, i, j) PROVE EmptyModalWaits'
  <2>1. /\ \A r \in Slots : Awaited(r) => Awaited(r)'
        /\ UNCHANGED <<shown, content>>
    BY <1>5, SendAwaited DEF DragRow, modal
  <2>2. QED
    BY <2>1 DEF Awaited
<1>6. QED
  BY <1>1, <1>2, <1>3, <1>4, <1>5 DEF Click

\* An answer for a form ends the waiting, and another one leaves it.
LEMMA ArriveWaits ==
    ASSUME TInv, TInv', EmptyModalWaits, NEW s \in Slots, Arrive(s)
    PROVE  EmptyModalWaits'
<1> USE DEF EmptyModalWaits
<1>0. net[s] # None /\ IsRequest(net[s])
  BY DEF Arrive, TInv, NetTyped
<1>1. ASSUME NEW x, net' = [net EXCEPT ![s] = x], ~ Awaited(s),
             UNCHANGED <<shown, content>>
      PROVE  EmptyModalWaits'
  <2>1. \A r \in Slots \ {s} : net'[r] = net[r]
    BY <1>1 DEF TInv, NetTyped
  <2>2. QED
    BY <1>1, <2>1 DEF Awaited, Mine
<1>2. CASE ~ net[s].sent.mine
  <2>1. Free(s) /\ UNCHANGED <<shown, content>>
    BY <1>2 DEF Arrive, modal
  <2>2. ~ Awaited(s)
    BY <1>2 DEF Awaited, Mine
  <2>3. QED
    BY <1>1, <2>1, <2>2 DEF Free
<1>3. CASE Reload(s)
  BY <1>3 DEF Reload
<1>4. CASE net[s].sent.reply = "form" /\ ShowForm(s)
  <2>1. net[s].ask \in FormAsks /\ net[s].ask.op # "clone"
    BY <1>0, <1>4 DEF IsRequest, IsForm, IsOther
  <2>2. content' \in Contents
    BY <1>4, <2>1 DEF ShowForm, Contents, FormAsks, TInv, PageTyped
  <2>3. QED
    BY <2>2, BrowserAssumption
<1>5. CASE net[s].ask.what \in {"toggle", "move", "list"} /\ net[s].sent.mine
           /\ (ShowToggle(s) \/ ReadList(s) \/ ShowList(s))
  <2>1. ~ Awaited(s)
    BY <1>5 DEF Awaited
  <2>2. PICK x : net' = [net EXCEPT ![s] = x]
    BY <1>5 DEF ShowToggle, ReadList, ShowList, Free
  <2>3. QED
    BY <1>1, <1>5, <2>1, <2>2 DEF ShowToggle, ReadList, ShowList, modal
<1>6. QED
  BY <1>2, <1>3, <1>4, <1>5 DEF Arrive

\* Nothing but an answer, or closing it, leaves an empty modal without one to
\* come.
LEMMA WaitsStep ==
    TInv /\ TInv' /\ EmptyModalWaits /\ [Next]_vars => EmptyModalWaits'
<1> SUFFICES ASSUME TInv, TInv', EmptyModalWaits, [Next]_vars
             PROVE  EmptyModalWaits'
  OBVIOUS
<1>1. CASE UNCHANGED vars
  BY <1>1 DEF vars, modal, EmptyModalWaits, Mine
<1>2. CASE Hide
  BY <1>2 DEF Hide, EmptyModalWaits
<1>3. ASSUME NEW f \in Formulas, Build(f) PROVE EmptyModalWaits'
  <2>1. content' \in Contents
    BY <1>3 DEF Build, TInv, PageTyped, Contents
  <2>2. QED
    BY <2>1, BrowserAssumption DEF EmptyModalWaits
<1>4. ASSUME NEW s \in Slots, Serve(s) \/ Fail(s) PROVE EmptyModalWaits'
  BY <1>4, ServeAwaited DEF EmptyModalWaits, Awaited
<1>5. QED
  BY <1>1, <1>2, <1>3, <1>4, ClickWaits, ArriveWaits DEF Next

\* For all users, hasty ones too, and any number of requests: behind an empty
\* modal there is a request whose answer ends it.
THEOREM EmptyModalsWait == Spec => []EmptyModalWaits
<1>1. Init => TInv /\ EmptyModalWaits
  BY TypesInit DEF Init, EmptyModalWaits
<1>2. TInv /\ EmptyModalWaits /\ [Next]_vars => TInv' /\ EmptyModalWaits'
  BY TypesStep, WaitsStep
<1>3. QED
  BY <1>1, <1>2, PTL DEF Spec
-----------------------------------------------------------------------------
(* Users who wait.                                                           *)

Idle == \A s \in Slots : net[s] = None

\* One request at a time, from this page.
Alone == /\ \A s, r \in Slots : net[s] # None /\ net[r] # None => s = r
         /\ \A s \in Slots : net[s] # None => net[s].sent.mine

\* The rules of a form as the server has them.
Wanted(f) == IF f.op = "edit" THEN formula[f.of] ELSE None

LoadTrue(r) ==
    r.ask.what = "load" =>
        /\ shown /\ content = None /\ rules = None
        /\ r.sent.reply = "form" => r.ask.rules = Wanted(r.ask)

SaveTrue(r) == r.ask.what = "save" /\ r.ask.op # "clone" => shown

\* A form in the modal waits for the user; without a form there are no rules.
ModalTrue ==
    /\ ~ shown => content = None /\ rules = None
    /\ content # None => content.body /\ Idle
    /\ kind # "conditions" => ~ shown
    /\ \A s \in Slots : net[s] # None => LoadTrue(net[s]) /\ SaveTrue(net[s])

ToggleTrue(r) ==
    /\ r.ask.what = "toggle" /\ r.ask.box = elem
    /\ \A b \in Boxes \ {elem} : b \in ticked <=> b \in enabled
    /\ r.sent.reply = "done" => (r.ask.on <=> elem \in enabled)

\* Only the box that is being toggled may differ from the server.
BoxTrue ==
    kind = "boxes" => /\ Idle => ticked = enabled
                      /\ \A s \in Slots : net[s] # None => ToggleTrue(net[s])

MoveTrue(r) ==
    /\ r.ask.what = "move" /\ r.sent.reply = "none" =>
           Moved(r.ask.from, r.ask.to) = list
    /\ r.ask.what = "list" /\ r.sent.reply = "done" => r.ask.order = order

\* Only a move that is not done may separate the list from the server.
ListTrue ==
    /\ DragIsKept
    /\ \A s \in Slots : net[s] # None => MoveTrue(net[s])

Patient == Alone /\ ModalTrue /\ BoxTrue /\ ListTrue /\ RulesAreOfTheForm

PInv == TInv /\ (~ hasty => Patient)

\* A step that changes only slot s, in which no other is in use.
Sole(s, x) ==
    /\ net'[s] = x
    /\ \A r \in Slots \ {s} : net[r] = None /\ net'[r] = None
    /\ x # None => x.sent.mine

LEMMA AlonePrime ==
    ASSUME NEW s \in Slots, NEW x, Sole(s, x)
    PROVE  Alone' /\ (Idle' <=> x = None)
BY DEF Alone, Idle, Sole

\* Users who wait send when nothing is on its way.
LEMMA SendSole ==
    ASSUME TInv, ~ hasty, Alone, Ready \/ Idle, NEW s \in Slots, NEW ask,
           ask \in FormAsks \cup ToggleAsks \cup MoveAsks, Send(s, ask)
    PROVE  LET x == [ask |-> ask, sent |-> [mine |-> TRUE, reply |-> "none"]]
           IN  Idle /\ Sole(s, x) /\ x # None
<1> DEFINE x == [ask |-> ask, sent |-> [mine |-> TRUE, reply |-> "none"]]
<1>1. Idle
  BY DEF Ready, Mine, Alone, Idle
<1>2. x \in [ask : FormAsks \cup ToggleAsks \cup MoveAsks, sent : Sent]
  BY DEF Sent
<1>3. x # None
  BY <1>2, BrowserAssumption
<1>4. net' = [net EXCEPT ![s] = x] /\ x.sent.mine
  BY DEF Send
<1> HIDE DEF x
<1>5. net' = [r \in Slots |-> IF r = s THEN x ELSE net[r]]
  BY <1>4 DEF TInv, NetTyped
<1>6. Sole(s, x)
  BY <1>1, <1>4, <1>5 DEF Idle, Sole
<1>7. QED
  BY <1>1, <1>3, <1>6 DEF x

LEMMA AnswerSole ==
    ASSUME TInv, Alone, NEW s \in Slots, net[s] # None, NEW reply, NEW ask,
           Answer(s, reply, ask), IsRequest(With(net[s], reply, ask))
    PROVE  Sole(s, With(net[s], reply, ask))
<1>1. /\ net'[s] = With(net[s], reply, ask)
      /\ \A r \in Slots \ {s} : net'[r] = net[r]
  BY AnswerSet DEF TInv
<1>2. net[s].sent.mine /\ \A r \in Slots \ {s} : net[r] = None
  BY DEF Alone
<1>3. With(net[s], reply, ask).sent.mine
  BY <1>2 DEF With
<1>4. QED
  BY <1>1, <1>2, <1>3 DEF Sole

LEMMA FreeSole ==
    ASSUME TInv, Alone, NEW s \in Slots, net[s] # None, Free(s)
    PROVE  Sole(s, None)
<1>1. /\ net'[s] = None
      /\ \A r \in Slots \ {s} : net'[r] = net[r]
  BY SlotSet DEF TInv, Free
<1>2. QED
  BY <1>1 DEF Alone, Sole

\* Steps that are not about the list keep it.
LEMMA ListKept ==
    ASSUME Alone, ListTrue, ~ hasty, ~ hasty', NEW s \in Slots, NEW x, Sole(s, x),
           net[s] = None \/ net[s].ask.what # "move",
           x = None \/ x.ask.what \notin {"move", "list"},
           list' = list, order' = order
    PROVE  ListTrue'
<1>1. list = order
  BY DEF ListTrue, DragIsKept, Sole, Mine
<1>2. QED
  BY <1>1 DEF ListTrue, DragIsKept, MoveTrue, Sole

\* Steps that are not on the page with the boxes.
LEMMA BoxesAbsent == kind' # "boxes" => BoxTrue'
BY DEF BoxTrue

LEMMA ClickFixed ==
    ASSUME NEW s \in Slots, Click(s)
    PROVE  hasty' = hasty /\ kind' = kind
<1>1. (\E op \in Operations, c \in Conditions \cup {None} : LoadForm(s, op, c))
          => hasty' = hasty /\ kind' = kind
  BY DEF LoadForm
<1>2. SaveForm(s) \/ (\E c \in Conditions : ConditionClone(s, c))
          => hasty' = hasty /\ kind' = kind
  BY DEF SaveForm, ConditionClone
<1>3. (\E b \in Boxes : ToggleCheckBox(s, b)) => hasty' = hasty /\ kind' = kind
  BY DEF ToggleCheckBox
<1>4. (\E i, j \in DOMAIN list : DragRow(s, i, j))
          => hasty' = hasty /\ kind' = kind
  BY DEF DragRow
<1>5. QED
  BY <1>1, <1>2, <1>3, <1>4 DEF Click

LEMMA ClickPatient ==
    ASSUME PInv, ~ hasty, NEW s \in Slots, Click(s)
    PROVE  Patient'
<1> DEFINE Sending(ask) == [ask |-> ask, sent |-> [mine |-> TRUE, reply |-> "none"]]
<1> USE DEF server, modal
<1>0. TInv /\ Alone /\ ModalTrue /\ BoxTrue /\ ListTrue /\ RulesAreOfTheForm
  BY DEF PInv, Patient
<1>00. ~ hasty' /\ kind' = kind
  BY ClickFixed
<1>1. ASSUME NEW op \in Operations, NEW c \in Conditions \cup {None},
             LoadForm(s, op, c)
      PROVE  Patient'
  <2> DEFINE ask == [what |-> "load", op |-> op, of |-> c, rules |-> None]
             x == Sending(ask)
  <2>1. ask \in FormAsks
    BY DEF FormAsks, Operations
  <2>2. Idle /\ Sole(s, x) /\ x # None
    BY <1>0, <1>1, <2>1, SendSole DEF LoadForm
  <2>3. Alone' /\ ~ Idle'
    BY <2>2, AlonePrime
  <2>4. content = None /\ rules = None /\ kind = "conditions"
    BY <1>0, <1>1 DEF LoadForm, ModalTrue
  <2>5. content' = None /\ rules' = None /\ shown'
    BY <1>1, <2>4 DEF LoadForm
  <2>6. ModalTrue'
    BY <1>00, <2>2, <2>4, <2>5 DEF ModalTrue, LoadTrue, SaveTrue, Sole
  <2>7. BoxTrue'
    BY <1>00, <2>4, BoxesAbsent
  <2>8. ListTrue'
    BY <1>0, <1>00, <1>1, <2>2, ListKept DEF LoadForm, Idle
  <2>9. RulesAreOfTheForm'
    BY <2>5 DEF RulesAreOfTheForm
  <2>10. QED
    BY <2>3, <2>6, <2>7, <2>8, <2>9 DEF Patient
<1>2. ASSUME SaveForm(s) PROVE Patient'
  <2> DEFINE ask == [what |-> "save", op |-> content.op, of |-> content.of,
                     rules |-> content.rules]
             x == Sending(ask)
  <2>1. content \in Contents /\ Idle /\ shown /\ kind = "conditions"
    BY <1>0, <1>2 DEF SaveForm, ModalTrue, TInv, PageTyped
  <2>2. ask \in FormAsks
    BY <2>1 DEF FormAsks, Contents
  <2>3. Sole(s, x) /\ x # None
    BY <1>0, <1>2, <2>1, <2>2, SendSole DEF SaveForm
  <2>4. Alone' /\ ~ Idle'
    BY <2>3, AlonePrime
  <2>5. content' = None /\ shown'
    BY <1>2, <2>1 DEF SaveForm
  <2>6. ModalTrue'
    BY <1>00, <2>1, <2>3, <2>5 DEF ModalTrue, LoadTrue, SaveTrue, Sole
  <2>7. BoxTrue'
    BY <1>00, <2>1, BoxesAbsent
  <2>8. ListTrue'
    BY <1>0, <1>00, <1>2, <2>1, <2>3, ListKept DEF SaveForm, Idle
  <2>9. RulesAreOfTheForm'
    BY <2>5 DEF RulesAreOfTheForm
  <2>10. QED
    BY <2>4, <2>6, <2>7, <2>8, <2>9 DEF Patient
<1>3. ASSUME NEW c \in Conditions, ConditionClone(s, c) PROVE Patient'
  <2> DEFINE ask == [what |-> "save", op |-> "clone", of |-> c, rules |-> None]
             x == Sending(ask)
  <2>1. ask \in FormAsks
    BY DEF FormAsks
  <2>2. Idle /\ Sole(s, x) /\ x # None
    BY <1>0, <1>3, <2>1, SendSole DEF ConditionClone
  <2>3. Alone' /\ ~ Idle'
    BY <2>2, AlonePrime
  <2>4. /\ content = None /\ rules = None /\ ~ shown /\ kind = "conditions"
        /\ UNCHANGED modal
    BY <1>0, <1>3 DEF ConditionClone, ModalTrue
  <2>6. ModalTrue'
    BY <1>00, <2>2, <2>4 DEF ModalTrue, LoadTrue, SaveTrue, Sole
  <2>7. BoxTrue'
    BY <1>00, <2>4, BoxesAbsent
  <2>8. ListTrue'
    BY <1>0, <1>00, <1>3, <2>2, ListKept DEF ConditionClone, Idle
  <2>9. RulesAreOfTheForm'
    BY <2>4 DEF RulesAreOfTheForm
  <2>10. QED
    BY <2>3, <2>6, <2>7, <2>8, <2>9 DEF Patient
<1>4. ASSUME NEW b \in Boxes, ToggleCheckBox(s, b) PROVE Patient'
  <2> DEFINE ask == [what |-> "toggle", box |-> b, on |-> FALSE]
             x == Sending(ask)
  <2>1. ask \in ToggleAsks
    BY DEF ToggleAsks
  <2>2. Idle /\ Sole(s, x) /\ x # None
    BY <1>0, <1>4, <2>1, SendSole DEF ToggleCheckBox
  <2>3. Alone' /\ ~ Idle'
    BY <2>2, AlonePrime
  <2>4. /\ content = None /\ rules = None /\ ~ shown /\ kind = "boxes"
        /\ UNCHANGED modal
    BY <1>0, <1>4 DEF ToggleCheckBox, ModalTrue
  <2>6. ModalTrue'
    BY <1>00, <2>2, <2>4 DEF ModalTrue, LoadTrue, SaveTrue, Sole
  <2>7. BoxTrue'
    <3>1. ticked = enabled /\ enabled' = enabled /\ elem' = b
      BY <1>0, <1>4, <2>2, <2>4 DEF BoxTrue, ToggleCheckBox
    <3>2. \A d \in Boxes \ {b} : d \in ticked' <=> d \in enabled'
      BY <1>4, <3>1 DEF ToggleCheckBox
    <3>3. ToggleTrue(x)'
      BY <3>1, <3>2 DEF ToggleTrue
    <3>4. QED
      BY <2>2, <2>3, <3>3 DEF BoxTrue, Sole, ToggleTrue
  <2>8. ListTrue'
    BY <1>0, <1>00, <1>4, <2>2, ListKept DEF ToggleCheckBox, Idle
  <2>9. RulesAreOfTheForm'
    BY <2>4 DEF RulesAreOfTheForm
  <2>10. QED
    BY <2>3, <2>6, <2>7, <2>8, <2>9 DEF Patient
<1>5. ASSUME NEW i \in DOMAIN list, NEW j \in DOMAIN list, DragRow(s, i, j)
      PROVE  Patient'
  <2>0. PICK d : d = RowReordered(Details(list, list'))
    OBVIOUS
  <2> DEFINE ask == [what |-> "move", from |-> d.oldData, to |-> d.newData]
             x == Sending(ask)
  <2>1. i \in 1..N /\ j \in 1..N /\ i # j /\ list' = Dragged(list, i, j)
        /\ list \in Arrangements /\ kind = "columns"
    BY <1>0, <1>5, ArrangementSeq DEF DragRow, TInv, PageTyped
  <2>2. ask \in MoveAsks
    BY <2>0, <2>1, DragNames DEF MoveAsks
  <2>3. Idle /\ Sole(s, x) /\ x # None
    <3>1. Send(s, ask) /\ Ready
      BY <1>5, <2>0 DEF DragRow
    <3> HIDE DEF ask
    <3>2. QED
      BY <1>0, <2>2, <3>1, SendSole
  <2>4. Alone' /\ ~ Idle'
    BY <2>3, AlonePrime
  <2>5. /\ content = None /\ rules = None /\ ~ shown /\ UNCHANGED modal
    BY <1>0, <1>5, <2>1 DEF DragRow, ModalTrue
  <2>6. ModalTrue'
    BY <1>00, <2>1, <2>3, <2>5 DEF ModalTrue, LoadTrue, SaveTrue, Sole
  <2>7. BoxTrue'
    BY <1>00, <2>1, BoxesAbsent
  <2>8. ListTrue'
    <3>1. list = order /\ order' = order
      BY <1>0, <1>5, <2>3 DEF ListTrue, DragIsKept, Mine, Idle, DragRow
    <3>2. Moved(d.oldData, d.newData) = list'
      <4>1. d = RowReordered(Details(order, Dragged(order, i, j)))
        BY <2>0, <2>1, <3>1
      <4>2. order \in Arrangements
        BY <2>1, <3>1
      <4>3. Moved(d.oldData, d.newData) = Dragged(order, i, j)
        BY <2>1, <4>1, <4>2, DragIsMove
      <4>4. QED
        BY <2>1, <3>1, <4>3
    <3>3. Moved(x.ask.from, x.ask.to)' = list'
      BY <3>1, <3>2 DEF Moved
    <3>4. MoveTrue(x)'
      BY <3>3 DEF MoveTrue
    <3>5. \A r \in Slots : net'[r] # None => MoveTrue(net[r])'
      BY <2>3, <3>4 DEF Sole, MoveTrue
    <3>6. DragIsKept'
      BY <2>3 DEF DragIsKept, Mine, Sole
    <3>7. QED
      BY <3>5, <3>6 DEF ListTrue
  <2>9. RulesAreOfTheForm'
    BY <2>5 DEF RulesAreOfTheForm
  <2>10. QED
    BY <2>4, <2>6, <2>7, <2>8, <2>9 DEF Patient
<1>6. QED
  BY <1>1, <1>2, <1>3, <1>4, <1>5 DEF Click

\* An answer on its way leaves the modal as it is.
LEMMA AnswerModal ==
    ASSUME TInv, ModalTrue, NEW s \in Slots, net[s] # None, NEW x, Sole(s, x),
           UNCHANGED modal, kind' = kind, LoadTrue(x)', SaveTrue(x)'
    PROVE  ModalTrue' /\ RulesAreOfTheForm'
<1>1. content = None /\ content' = None
  BY DEF ModalTrue, Idle, modal
<1>2. \A r \in Slots : net'[r] # None => LoadTrue(net[r])' /\ SaveTrue(net[r])'
  BY DEF Sole, LoadTrue, SaveTrue
<1>3. QED
  BY <1>1, <1>2 DEF ModalTrue, RulesAreOfTheForm, modal

LEMMA AnswerBoxes ==
    ASSUME NEW s \in Slots, NEW x, Sole(s, x), x # None,
           kind' = "boxes" => ToggleTrue(x)'
    PROVE  BoxTrue'
<1>1. ~ Idle'
  BY AlonePrime
<1>2. QED
  BY <1>1 DEF BoxTrue, Sole, ToggleTrue

LEMMA AnswerList ==
    ASSUME NEW s \in Slots, NEW x, Sole(s, x), MoveTrue(x)',
           list' = order' \/ /\ x # None /\ x.ask.what = "move"
                             /\ x.sent.reply \in {"none", "reload"}
    PROVE  ListTrue'
<1>1. \A r \in Slots : net'[r] # None => MoveTrue(net[r])'
  BY DEF Sole, MoveTrue
<1>2. DragIsKept'
  BY DEF DragIsKept, Sole, Mine
<1>3. QED
  BY <1>1, <1>2 DEF ListTrue

\* Without a move on its way the list is as the server has it.
LEMMA ListSame ==
    ASSUME Alone, ListTrue, ~ hasty, NEW s \in Slots, net[s] # None,
           net[s].ask.what # "move" \/ net[s].sent.reply \notin {"none", "reload"}
    PROVE  list = order
BY DEF Alone, ListTrue, DragIsKept, Mine

\* A request that is neither for a box nor for the list.
LEMMA FormAnswer ==
    ASSUME PInv, ~ hasty, ~ hasty', NEW s \in Slots, net[s] # None,
           net[s].ask.what \in {"load", "save"}, NEW x, Sole(s, x), x # None,
           x.ask.what = net[s].ask.what, kind' = kind,
           UNCHANGED <<modal, list, order>>, LoadTrue(x)', SaveTrue(x)'
    PROVE  Patient'
<1>1. TInv /\ Alone /\ ModalTrue /\ BoxTrue /\ ListTrue
  BY DEF PInv, Patient
<1>2. ModalTrue' /\ RulesAreOfTheForm'
  BY <1>1, AnswerModal
<1>3. BoxTrue'
  BY <1>1, BoxesAbsent DEF BoxTrue, ToggleTrue
<1>4. ListTrue'
  BY <1>1, ListKept
<1>5. Alone'
  BY AlonePrime
<1>6. QED
  BY <1>2, <1>3, <1>4, <1>5 DEF Patient

LEMMA ServePatient ==
    ASSUME PInv, ~ hasty, NEW s \in Slots, Serve(s)
    PROVE  Patient'
<1> USE DEF server, modal
<1>0. TInv /\ Alone /\ ModalTrue /\ BoxTrue /\ ListTrue
  BY DEF PInv, Patient
<1>00. net[s] # None /\ IsRequest(net[s])
  BY <1>0 DEF Serve, ServeForm, ServeSave, ServeToggle, ServeMove, ServeList,
         Unanswered, NetTyped, TInv
<1>1. CASE ServeForm(s)
  <2>1. PICK a : a = net[s].ask
    OBVIOUS
  <2>2. PICK b : b = [a EXCEPT !.rules = IF a.op = "edit" THEN formula[a.of]
                                         ELSE None]
    OBVIOUS
  <2>3. a.what = "load" /\ IsForm(net[s]) /\ a \in FormAsks
    BY <1>00, <1>1, <2>1, Kinds DEF ServeForm, Unanswered
  <2>4. a.op = "edit" => formula[a.of] \in Formulas \cup {None}
    BY <1>0, <2>1, <2>3 DEF IsForm, TInv, PageTyped
  <2>5. /\ b \in FormAsks /\ b.what = a.what /\ b.op = a.op /\ b.of = a.of
        /\ b.rules = Wanted(a)
    BY <2>2, <2>3, <2>4 DEF FormAsks, Wanted
  <2>6. PICK x : x \in {With(net[s], "reload", a), With(net[s], "form", b)}
                 /\ Answer(s, x.sent.reply, x.ask)
    BY <1>1, <2>1, <2>2 DEF ServeForm, With
  <2>7. IsRequest(x) /\ x = With(net[s], x.sent.reply, x.ask)
        /\ x.ask.what = "load" /\ x # None
    <3>1. IsRequest(x) /\ x \in [ask : FormAsks, sent : Sent]
      BY <2>1, <2>3, <2>5, <2>6 DEF IsRequest, IsForm, With, Sent
    <3>2. QED
      BY <2>3, <2>5, <2>6, <3>1, BrowserAssumption DEF With
  <2>8. Sole(s, x)
    BY <1>0, <1>00, <2>6, <2>7, AnswerSole
  <2>9. LoadTrue(net[s])
    BY <1>0, <1>00 DEF ModalTrue
  <2>10. LoadTrue(x)' /\ SaveTrue(x)'
    BY <1>1, <2>1, <2>3, <2>5, <2>6, <2>7, <2>9
       DEF ServeForm, LoadTrue, SaveTrue, With, Wanted
  <2>11. QED
    BY <1>00, <1>1, <2>1, <2>3, <2>7, <2>8, <2>10, FormAnswer DEF ServeForm
<1>2. CASE ServeSave(s)
  <2>1. PICK a : a = net[s].ask
    OBVIOUS
  <2>2. a.what = "save" /\ IsForm(net[s]) /\ a \in FormAsks
    BY <1>00, <1>2, <2>1, Kinds DEF ServeSave, Unanswered
  <2>3. PICK reply \in {"form", "reload"} :
            Answer(s, reply, a) /\ (reply = "form" => a.op # "clone")
    BY <1>2, <2>1 DEF ServeSave
  <2>4. PICK x : x = With(net[s], reply, a)
    OBVIOUS
  <2>5. IsRequest(x) /\ x # None
    <3>1. x \in [ask : FormAsks, sent : Sent]
      BY <2>1, <2>2, <2>4 DEF IsForm, With, Sent
    <3>2. QED
      BY <2>1, <2>2, <2>3, <2>4, <3>1, BrowserAssumption
         DEF IsRequest, IsForm, With
  <2>6. Sole(s, x)
    BY <1>0, <1>00, <2>3, <2>4, <2>5, AnswerSole
  <2>7. SaveTrue(net[s])
    BY <1>0, <1>00 DEF ModalTrue
  <2>8. LoadTrue(x)' /\ SaveTrue(x)'
    BY <1>2, <2>1, <2>2, <2>4, <2>7 DEF ServeSave, LoadTrue, SaveTrue, With
  <2>9. x.ask.what = net[s].ask.what
    BY <2>1, <2>4 DEF With
  <2>10. QED
    BY <1>00, <1>2, <2>1, <2>2, <2>5, <2>6, <2>8, <2>9, FormAnswer DEF ServeSave
<1>3. CASE ServeToggle(s)
  <2>1. PICK a : a = net[s].ask
    OBVIOUS
  <2>2. PICK on \in BOOLEAN : on <=> a.box \in enabled'
    <3>1. (a.box \in enabled') \in BOOLEAN
      OBVIOUS
    <3>2. QED
      BY <3>1
  <2>3. a.what = "toggle" /\ a \in ToggleAsks
    BY <1>00, <1>3, <2>1, Kinds DEF ServeToggle, Unanswered
  <2>4. PICK b : b = [a EXCEPT !.on = on]
    OBVIOUS
  <2>5. b \in ToggleAsks /\ b.what = "toggle" /\ b.box = a.box /\ b.on = on
    BY <2>2, <2>3, <2>4 DEF ToggleAsks
  <2>6. Answer(s, "done", b)
    <3>1. on = (a.box \in enabled')
      BY <2>2
    <3>2. QED
      BY <1>3, <2>1, <2>4, <3>1 DEF ServeToggle
  <2>7. PICK x : x = With(net[s], "done", b)
    OBVIOUS
  <2>8. IsRequest(x) /\ x # None
    <3>1. x \in [ask : ToggleAsks, sent : Sent] /\ x.sent.reply = "done"
      BY <1>00, <2>5, <2>7, Kinds DEF With, Sent
    <3>2. QED
      BY <3>1, BrowserAssumption DEF IsRequest, IsOther
  <2>9. Sole(s, x)
    BY <1>0, <1>00, <2>6, <2>7, <2>8, AnswerSole
  <2>10. ModalTrue' /\ RulesAreOfTheForm'
    <3>1. LoadTrue(x)' /\ SaveTrue(x)'
      BY <2>5, <2>7 DEF LoadTrue, SaveTrue, With
    <3>2. QED
      BY <1>0, <1>00, <1>3, <2>9, <3>1, AnswerModal DEF ServeToggle
  <2>11. BoxTrue'
    <3>1. SUFFICES ASSUME kind' = "boxes" PROVE ToggleTrue(x)'
      BY <2>8, <2>9, AnswerBoxes
    <3>2. ToggleTrue(net[s])
      BY <1>0, <1>00, <1>3, <3>1 DEF BoxTrue, ServeToggle
    <3>3. a.box = elem /\ elem' = elem /\ ticked' = ticked
      BY <1>3, <2>1, <3>2 DEF ToggleTrue, ServeToggle
    <3>4. \A d \in Boxes \ {elem} : d \in enabled' <=> d \in enabled
      BY <1>3, <2>1, <3>3 DEF ServeToggle
    <3>5. on <=> elem' \in enabled'
      BY <2>2, <3>3
    <3>6. x.ask = b
      BY <2>7 DEF With
    <3>7. QED
      BY <2>5, <3>2, <3>3, <3>4, <3>5, <3>6 DEF ToggleTrue
  <2>12. ListTrue'
    <3>1. x.ask.what = "toggle"
      BY <2>5, <2>7 DEF With
    <3>2. ~ hasty'
      BY <1>3 DEF ServeToggle
    <3>3. QED
      BY <1>0, <1>3, <2>1, <2>3, <2>9, <3>1, <3>2, ListKept DEF ServeToggle
  <2>13. QED
    BY <2>9, <2>10, <2>11, <2>12, AlonePrime DEF Patient
<1>4. CASE ServeMove(s) \/ ServeList(s)
  <2>1. PICK a : a = net[s].ask
    OBVIOUS
  <2>2. PICK b : b = IF ServeMove(s) THEN a ELSE [a EXCEPT !.order = order]
    OBVIOUS
  <2>3. Answer(s, "done", b)
    BY <1>4, <2>1, <2>2 DEF ServeMove, ServeList
  <2>4. \/ /\ ServeMove(s) /\ a.what = "move" /\ a \in MoveAsks /\ b = a
        \/ /\ ~ ServeMove(s) /\ ServeList(s) /\ a.what = "list"
           /\ a \in [what : {"list"}, order : Arrangements]
           /\ b = [a EXCEPT !.order = order]
    BY <1>00, <1>4, <2>1, <2>2, Kinds DEF ServeMove, ServeList, Unanswered
  <2>5. b \in MoveAsks \cup [what : {"list"}, order : Arrangements]
        /\ b.what = a.what /\ (b.what = "list" => b.order = order)
    BY <1>0, <2>4 DEF MoveAsks, TInv, PageTyped
  <2>6. PICK x : x = With(net[s], "done", b)
    OBVIOUS
  <2>7. x.ask = b /\ x.sent.reply = "done"
    BY <2>6 DEF With
  <2>8. IsRequest(x)
    BY <1>00, <2>5, <2>6, Kinds DEF IsRequest, IsOther, With, Sent
  <2>9. Sole(s, x)
    BY <1>0, <1>00, <2>3, <2>6, <2>8, AnswerSole
  <2>10. ModalTrue' /\ RulesAreOfTheForm'
    <3>1. LoadTrue(x)' /\ SaveTrue(x)'
      BY <2>4, <2>5, <2>7 DEF LoadTrue, SaveTrue
    <3>2. QED
      BY <1>0, <1>00, <1>4, <2>9, <3>1, AnswerModal DEF ServeMove, ServeList
  <2>11. BoxTrue'
    BY <1>0, <1>00, <1>4, <2>1, <2>4, BoxesAbsent
       DEF BoxTrue, ToggleTrue, ServeMove, ServeList
  <2>12. ListTrue'
    <3>1. CASE ServeMove(s)
      <4>1. a.what = "move" /\ net[s].sent.reply = "none"
        BY <2>1, <2>4, <3>1 DEF ServeMove, Unanswered
      <4>2. Moved(a.from, a.to) = list
        BY <1>0, <1>00, <2>1, <4>1 DEF ListTrue, MoveTrue
      <4>3. order' = list /\ list' = list
        BY <2>1, <3>1, <4>2 DEF ServeMove
      <4>4. MoveTrue(x)'
        BY <2>5, <2>7, <4>1 DEF MoveTrue
      <4>5. QED
        BY <2>9, <4>3, <4>4, AnswerList
    <3>2. CASE ~ ServeMove(s)
      <4>1. list = order
        BY <1>0, <1>00, <2>1, <2>4, <3>2, ListSame
      <4>2. list' = list /\ order' = order
        BY <2>4, <3>2 DEF ServeList
      <4>3. MoveTrue(x)'
        BY <2>4, <2>5, <2>7, <3>2, <4>2 DEF MoveTrue
      <4>4. QED
        BY <2>9, <4>1, <4>2, <4>3, AnswerList
    <3>3. QED
      BY <3>1, <3>2
  <2>13. QED
    BY <2>9, <2>10, <2>11, <2>12, AlonePrime DEF Patient
<1>5. QED
  BY <1>1, <1>2, <1>3, <1>4 DEF Serve

LEMMA FailPatient ==
    ASSUME PInv, ~ hasty, NEW s \in Slots, Fail(s)
    PROVE  Patient'
<1> USE DEF server, modal
<1>1. TInv /\ Alone /\ ModalTrue /\ BoxTrue /\ ListTrue
  BY DEF PInv, Patient
<1>2. net[s] # None /\ IsRequest(net[s])
  BY <1>1 DEF Fail, Mine, NetTyped, TInv
<1>3. PICK a : a = net[s].ask
  OBVIOUS
<1>4. PICK x : x = With(net[s], "reload", a)
  OBVIOUS
<1>5. x.ask = a /\ x.sent.reply = "reload"
  BY <1>4 DEF With
<1>6. IsRequest(x) /\ x # None
  <2>1. IsRequest(x)
    BY <1>2, <1>3, <1>4 DEF IsRequest, IsForm, IsOther, With, Sent
  <2>2. a \in FormAsks \cup ToggleAsks \cup MoveAsks
    BY <1>2, <1>3, Kinds DEF Fail
  <2>3. x \in [ask : FormAsks \cup ToggleAsks \cup MoveAsks, sent : Sent]
    BY <1>2, <1>4, <2>2, Kinds DEF With, Sent
  <2>4. QED
    BY <2>1, <2>3, BrowserAssumption
<1>7. Sole(s, x)
  BY <1>1, <1>2, <1>3, <1>4, <1>6, AnswerSole DEF Fail
<1>8. ModalTrue' /\ RulesAreOfTheForm'
  <2>1. LoadTrue(net[s]) /\ SaveTrue(net[s])
    BY <1>1, <1>2 DEF ModalTrue
  <2>2. LoadTrue(x)' /\ SaveTrue(x)'
    BY <1>3, <1>5, <2>1 DEF Fail, LoadTrue, SaveTrue
  <2>3. QED
    BY <1>1, <1>2, <1>7, <2>2, AnswerModal DEF Fail
<1>9. BoxTrue'
  <2>1. ASSUME kind' = "boxes" PROVE ToggleTrue(x)'
    <3>1. ToggleTrue(net[s])
      BY <1>1, <1>2, <2>1 DEF BoxTrue, Fail
    <3>2. QED
      BY <1>3, <1>5, <3>1 DEF ToggleTrue, Fail
  <2>2. QED
    BY <1>6, <1>7, <2>1, AnswerBoxes
<1>10. ListTrue'
  <2>1. MoveTrue(x)'
    BY <1>5 DEF MoveTrue
  <2>2. list' = list /\ order' = order
    BY DEF Fail
  <2>3. list = order \/ a.what = "move"
    BY <1>1, <1>2, <1>3, ListSame
  <2>4. QED
    BY <1>5, <1>6, <1>7, <2>1, <2>2, <2>3, AnswerList
<1>11. QED
  BY <1>7, <1>8, <1>9, <1>10, AlonePrime DEF Patient

\* Nothing is on its way any more.
LEMMA IdleList == ASSUME Idle', list' = order' PROVE ListTrue'
BY DEF Idle, ListTrue, DragIsKept, Mine

LEMMA IdleModal ==
    ASSUME Idle', ~ shown' => content' = None /\ rules' = None,
           content' # None => content'.body, kind' # "conditions" => ~ shown'
    PROVE  ModalTrue'
BY DEF Idle, ModalTrue

LEMMA ArrivePatient ==
    ASSUME PInv, ~ hasty, NEW s \in Slots, Arrive(s)
    PROVE  Patient'
<1> USE DEF server, modal
<1>1. TInv /\ Alone /\ ModalTrue /\ BoxTrue /\ ListTrue /\ RulesAreOfTheForm
  BY DEF PInv, Patient
<1>2. /\ net[s] # None /\ IsRequest(net[s]) /\ net[s].sent.mine
      /\ UNCHANGED <<hasty, kind, formula, enabled, order>>
  BY <1>1 DEF Arrive, NetTyped, TInv, Alone
<1>3. content = None
  BY <1>1, <1>2 DEF ModalTrue, Idle
<1>4. PICK a : a = net[s].ask
  OBVIOUS
<1>5. CASE Reload(s)
  <2>1. \A r \in Slots : net'[r] = None
    BY <1>1, <1>2, <1>5 DEF Reload, Alone
  <2>2. Idle' /\ Alone'
    BY <2>1 DEF Idle, Alone
  <2>3. ModalTrue' /\ RulesAreOfTheForm'
    BY <1>5, <2>2, IdleModal DEF Reload, RulesAreOfTheForm
  <2>4. BoxTrue'
    BY <1>2, <1>5, <2>1 DEF BoxTrue, Reload
  <2>5. ListTrue'
    BY <1>2, <1>5, <2>2, IdleList DEF Reload
  <2>6. QED
    BY <2>2, <2>3, <2>4, <2>5 DEF Patient
<1>6. CASE net[s].sent.reply = "form" /\ ShowForm(s)
  <2>1. IsForm(net[s]) /\ a \in FormAsks /\ a.what \in {"load", "save"}
        /\ a.op # "clone"
    BY <1>2, <1>4, <1>6 DEF IsRequest, IsForm, IsOther, FormAsks
  <2>2. shown /\ kind = "conditions"
    BY <1>1, <1>2, <1>4, <2>1 DEF ModalTrue, LoadTrue, SaveTrue
  <2>3. Idle' /\ Alone'
    BY <1>1, <1>2, <1>6, FreeSole, AlonePrime DEF ShowForm
  <2>4. content'.body /\ content'.touched = (a.what = "save")
        /\ content'.op = a.op /\ content'.of = a.of
    BY <1>4, <1>6 DEF ShowForm
  <2>5. ModalTrue'
    BY <1>2, <1>6, <2>2, <2>3, <2>4, IdleModal DEF ShowForm
  <2>6. a.what = "load" /\ a.op # "delete" =>
            content'.rules = IF a.op = "edit" THEN formula[a.of] ELSE None
    <3>1. SUFFICES ASSUME a.what = "load", a.op # "delete"
                   PROVE  content'.rules = Wanted(a)
      BY DEF Wanted
    <3>2. a.rules = Wanted(a) /\ rules = None
      BY <1>1, <1>2, <1>4, <1>6, <3>1 DEF ModalTrue, LoadTrue
    <3>3. content'.rules = IF a.rules # None THEN a.rules ELSE rules
      BY <1>4, <1>6, <3>1 DEF ShowForm
    <3>4. QED
      BY <3>2, <3>3
  <2>7. RulesAreOfTheForm'
    BY <1>2, <2>1, <2>4, <2>6 DEF RulesAreOfTheForm
  <2>8. BoxTrue'
    BY <1>2, <2>2, BoxesAbsent
  <2>9. list = order
    BY <1>1, <1>2, <1>4, <2>1, ListSame
  <2>10. ListTrue'
    BY <1>2, <1>6, <2>3, <2>9, IdleList DEF ShowForm
  <2>11. QED
    BY <2>3, <2>5, <2>7, <2>8, <2>10 DEF Patient
<1>7. CASE net[s].sent.reply = "done" /\ a.what = "toggle" /\ ShowToggle(s)
  <2>1. Idle' /\ Alone'
    BY <1>1, <1>2, <1>7, FreeSole, AlonePrime DEF ShowToggle
  <2>2. UNCHANGED <<shown, content, rules>> /\ list' = list
    BY <1>7 DEF ShowToggle
  <2>3. ModalTrue' /\ RulesAreOfTheForm'
    <3>1. ~ shown' => content' = None /\ rules' = None
      BY <1>1, <2>2 DEF ModalTrue
    <3>2. kind' # "conditions" => ~ shown'
      BY <1>1, <1>2, <2>2 DEF ModalTrue
    <3>3. content' = None
      BY <1>3, <2>2
    <3>4. QED
      BY <2>1, <3>1, <3>2, <3>3, IdleModal DEF RulesAreOfTheForm
  <2>4. BoxTrue'
    <3>1. SUFFICES ASSUME kind = "boxes" PROVE ticked' = enabled
      BY <1>2, <2>1 DEF BoxTrue, Idle
    <3>2. ToggleTrue(net[s])
      BY <1>1, <1>2, <3>1 DEF BoxTrue
    <3>3. /\ \A b \in Boxes \ {elem} : b \in ticked <=> b \in enabled
          /\ a.on <=> elem \in enabled
      BY <1>4, <1>7, <3>2 DEF ToggleTrue
    <3>4. elem \in Boxes /\ ticked \in SUBSET Boxes /\ enabled \in SUBSET Boxes
      BY <1>1, <1>2, <1>4, <1>7 DEF TInv, ElemKnown, Mine, PageTyped
    <3>5. ticked' = IF a.on THEN ticked \cup {elem} ELSE ticked \ {elem}
      BY <1>4, <1>7 DEF ShowToggle, Tick
    <3>6. CASE a.on
      BY <3>3, <3>4, <3>5, <3>6
    <3>7. CASE ~ a.on
      BY <3>3, <3>4, <3>5, <3>7
    <3>8. QED
      BY <3>6, <3>7
  <2>5. list = order
    BY <1>1, <1>2, <1>4, <1>7, ListSame
  <2>6. ListTrue'
    BY <1>2, <2>1, <2>2, <2>5, IdleList
  <2>7. QED
    BY <2>1, <2>3, <2>4, <2>6 DEF Patient
<1>8. CASE net[s].sent.reply = "done" /\ a.what = "move" /\ ReadList(s)
  <2>1. PICK x : x = [ask |-> [what |-> "list", order |-> list],
                      sent |-> [mine |-> TRUE, reply |-> "none"]]
    OBVIOUS
  <2>2. x.ask.what = "list" /\ x.sent.reply = "none" /\ x.sent.mine
    BY <2>1
  <2>3. IsRequest(x)
    BY <1>1, <2>1 DEF IsRequest, IsOther, Sent, TInv, PageTyped
  <2>4. net' = [net EXCEPT ![s] = x]
    BY <1>8, <2>1 DEF ReadList
  <2>5. Sole(s, x)
    <3>1. net'[s] = x /\ \A r \in Slots \ {s} : net'[r] = net[r]
      BY <1>1, <2>3, <2>4, SlotSet DEF TInv
    <3>2. QED
      BY <1>1, <1>2, <2>2, <3>1 DEF Sole, Alone
  <2>6. LoadTrue(x)' /\ SaveTrue(x)' /\ MoveTrue(x)'
    BY <2>2 DEF LoadTrue, SaveTrue, MoveTrue
  <2>7. ModalTrue' /\ RulesAreOfTheForm'
    BY <1>1, <1>2, <1>8, <2>5, <2>6, AnswerModal DEF ReadList
  <2>8. kind # "boxes"
    BY <1>1, <1>2, <1>4, <1>8 DEF BoxTrue, ToggleTrue
  <2>9. BoxTrue'
    BY <1>2, <2>8, BoxesAbsent
  <2>10. list = order
    BY <1>1, <1>2, <1>8, ListSame
  <2>11. ListTrue'
    BY <1>2, <1>8, <2>5, <2>6, <2>10, AnswerList DEF ReadList
  <2>12. QED
    BY <2>5, <2>7, <2>9, <2>11, AlonePrime DEF Patient
<1>9. CASE net[s].sent.reply = "done" /\ a.what = "list" /\ ShowList(s)
  <2>1. Idle' /\ Alone'
    BY <1>1, <1>2, <1>9, FreeSole, AlonePrime DEF ShowList
  <2>2. UNCHANGED <<shown, content, rules>>
    BY <1>9 DEF ShowList
  <2>3. ModalTrue' /\ RulesAreOfTheForm'
    <3>1. ~ shown' => content' = None /\ rules' = None
      BY <1>1, <2>2 DEF ModalTrue
    <3>2. kind' # "conditions" => ~ shown'
      BY <1>1, <1>2, <2>2 DEF ModalTrue
    <3>3. content' = None
      BY <1>3, <2>2
    <3>4. QED
      BY <2>1, <3>1, <3>2, <3>3, IdleModal DEF RulesAreOfTheForm
  <2>4. kind # "boxes"
    BY <1>1, <1>2, <1>4, <1>9 DEF BoxTrue, ToggleTrue
  <2>5. BoxTrue'
    BY <1>2, <2>4, BoxesAbsent
  <2>6. list' = order
    BY <1>1, <1>2, <1>4, <1>9 DEF ShowList, ListTrue, MoveTrue
  <2>7. ListTrue'
    BY <1>2, <2>1, <2>6, IdleList
  <2>8. QED
    BY <2>1, <2>3, <2>5, <2>7 DEF Patient
<1>10. QED
  BY <1>2, <1>4, <1>5, <1>6, <1>7, <1>8, <1>9 DEF Arrive

LEMMA PatientInit == Init => Patient
<1> SUFFICES ASSUME Init PROVE Patient
  OBVIOUS
<1>1. \A s \in Slots : net[s] = None
  BY DEF Init
<1>2. Alone
  BY <1>1 DEF Alone
<1>3. ModalTrue
  BY <1>1 DEF Init, ModalTrue
<1>4. BoxTrue
  BY <1>1 DEF Init, BoxTrue
<1>5. ListTrue
  BY <1>1 DEF Init, ListTrue, DragIsKept
<1>6. RulesAreOfTheForm
  BY DEF Init, RulesAreOfTheForm
<1>7. QED
  BY <1>2, <1>3, <1>4, <1>5, <1>6 DEF Patient

LEMMA PatientStep == PInv /\ [Next]_vars => PInv'
<1> SUFFICES ASSUME PInv, [Next]_vars PROVE PInv'
  OBVIOUS
<1>1. TInv'
  BY TypesStep DEF PInv
<1>2. hasty' = hasty
  BY ClickFixed DEF Next, Hide, Build, Serve, ServeForm, ServeSave, ServeToggle,
     ServeMove, ServeList, Fail, Arrive, vars
<1>3. SUFFICES ASSUME ~ hasty PROVE Patient'
  BY <1>1, <1>2 DEF PInv
<1>4. Alone /\ ModalTrue /\ BoxTrue /\ ListTrue /\ RulesAreOfTheForm
  BY <1>3 DEF PInv, Patient
<1>5. ASSUME UNCHANGED <<kind, server, ticked, list, elem, net>>
      PROVE  Alone' /\ BoxTrue' /\ ListTrue'
  <2>1. Alone'
    BY <1>4, <1>5 DEF Alone
  <2>2. BoxTrue'
    BY <1>4, <1>5 DEF BoxTrue, ToggleTrue, Idle, server
  <2>3. ListTrue'
    BY <1>4, <1>5, <1>2 DEF ListTrue, DragIsKept, MoveTrue, Moved, Mine, server
  <2>4. QED
    BY <2>1, <2>2, <2>3
<1>6. CASE Hide
  <2>1. Idle
    BY <1>3, <1>4, <1>6 DEF Hide, Ready, Mine, Alone, Idle
  <2>2. Idle' /\ ~ shown' /\ content' = None /\ rules' = None
    BY <1>6, <2>1 DEF Hide, Idle, RulesForgotten
  <2>3. ModalTrue' /\ RulesAreOfTheForm'
    BY <2>2, IdleModal DEF RulesAreOfTheForm
  <2>4. QED
    BY <1>5, <1>6, <2>3 DEF Hide, Patient
<1>7. ASSUME NEW f \in Formulas, Build(f) PROVE Patient'
  <2>1. content \in Contents /\ content # None
    BY <1>7 DEF Build, PInv, TInv, PageTyped
  <2>2. content'.body = content.body /\ content'.touched
    BY <1>7, <2>1 DEF Build, Contents
  <2>3. Idle' /\ shown' = shown /\ kind' = kind /\ shown
    BY <1>4, <1>7, <2>1 DEF Build, ModalTrue, Idle
  <2>4. ModalTrue'
    BY <1>4, <2>1, <2>2, <2>3, IdleModal DEF ModalTrue
  <2>5. RulesAreOfTheForm'
    BY <2>2 DEF RulesAreOfTheForm
  <2>6. QED
    BY <1>5, <1>7, <2>4, <2>5 DEF Build, Patient
<1>8. CASE UNCHANGED vars
  <2>1. ModalTrue'
    BY <1>4, <1>8 DEF vars, server, modal, ModalTrue, LoadTrue, SaveTrue, Wanted,
                      Idle
  <2>2. RulesAreOfTheForm'
    BY <1>4, <1>8 DEF vars, server, modal, RulesAreOfTheForm
  <2>3. QED
    BY <1>5, <1>8, <2>1, <2>2 DEF vars, Patient
<1>9. QED
  BY <1>3, <1>6, <1>7, <1>8, ClickPatient, ServePatient, FailPatient,
     ArrivePatient DEF Next

LEMMA PatientImplies == PInv => RulesAreOfTheForm /\ BoxesAreTrue /\ DragIsKept
<1> SUFFICES ASSUME PInv, ~ hasty
             PROVE  RulesAreOfTheForm /\ BoxesAreTrue /\ DragIsKept
  BY DEF RulesAreOfTheForm, BoxesAreTrue, DragIsKept
<1>1. Alone /\ BoxTrue /\ ListTrue /\ RulesAreOfTheForm
  BY DEF PInv, Patient
<1>2. Ready => Idle
  BY <1>1 DEF Ready, Mine, Alone, Idle
<1>3. QED
  BY <1>1, <1>2 DEF BoxTrue, BoxesAreTrue, ListTrue

\* The invariant of the pages of users who wait for answers.
LEMMA PatientHolds == Spec => []PInv
<1>1. Init => PInv
  BY TypesInit, PatientInit DEF PInv
<1>2. QED
  BY <1>1, PatientStep, PTL DEF Spec

\* The query builder of users who wait shows the formula of the form's own
\* condition: hide.bs.modal takes the rules of the form before.
THEOREM RulesAreTheirs == Spec => []RulesAreOfTheForm
BY PatientHolds, PatientImplies, PTL

\* The boxes of users who wait are those of the server: toggleCheckBox takes
\* back what the server has not done.
THEOREM BoxesAreTheServers == Spec => []BoxesAreTrue
BY PatientHolds, PatientImplies, PTL

\* row_reordered: for any number of columns and any drag the two names that are
\* sent make the server's order the list that the user sees.
THEOREM DragsAreKept == Spec => []DragIsKept
BY PatientHolds, PatientImplies, PTL

=============================================================================
