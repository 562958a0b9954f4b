-------------------------- MODULE SearchPagesProofs --------------------------
(***************************************************************************)
(* Theorems about the pages of a search for every page size, every number  *)
(* of dates, rows and ranks, and any number of requests in flight.         *)
(***************************************************************************)
EXTENDS SearchPages, FiniteSetTheorems, SequenceTheorems,
        WellFoundedInduction, TLAPS

-----------------------------------------------------------------------------
(***************************************************************************)
(* Finite sets in a strict total order R, a set of pairs.                  *)
(***************************************************************************)
StrictOrder(S, R) ==
  /\ \A x \in S : <<x, x>> \notin R
  /\ \A x, y, z \in S : <<x, y>> \in R /\ <<y, z>> \in R => <<x, z>> \in R
  /\ \A x, y \in S : x # y => <<x, y>> \in R \/ <<y, x>> \in R

Sorted(s, R) == \A m, n \in DOMAIN s : m < n => <<s[m], s[n]>> \in R

In(x, s) == \E n \in DOMAIN s : s[n] = x

\* s is a first part of S: what comes before one of its elements is in it
Heads(s, S, R) ==
  /\ s \in Seq(S) /\ Sorted(s, R)
  /\ \A n \in DOMAIN s, x \in S : <<x, s[n]>> \in R => In(x, s)

\* s is the whole of S
Lists(s, S, R) == s \in Seq(S) /\ Sorted(s, R) /\ \A x \in S : In(x, s)

\* the elements of S, each after as many as come before it
InOrder(S, R) ==
  [n \in 1 .. Cardinality(S) |->
     CHOOSE x \in S : Cardinality({y \in S : <<y, x>> \in R}) = n - 1]

LEMMA LeastOf ==
  ASSUME NEW S \in SUBSET Nat, S # {}
  PROVE  \E n \in S : \A m \in S : n <= m
<1> DEFINE R == OpToRel(<, Nat)
<1>1. \A x, y \in Nat : <<y, x>> \in R <=> y < x
  BY DEF OpToRel
<1>2. IsWellFoundedOn(R, Nat)
  BY NatLessThanWellFounded
<1> HIDE DEF R
<1>3. PICK n \in S : \A m \in S : ~ (<<m, n>> \in R)
  BY <1>2, WFMin
<1>4. ASSUME NEW m \in S PROVE n <= m
  <2>1. n \in Nat /\ m \in Nat
    OBVIOUS
  <2>2. ~ (m < n)
    BY <1>1, <1>3, <2>1, Zenon
  <2>. QED
    BY <2>1, <2>2
<1>. QED
  BY <1>4

-----------------------------------------------------------------------------
(***************************************************************************)
(* The elements of a finite set in order.                                  *)
(***************************************************************************)
LEMMA InOrderLists ==
  ASSUME NEW S, IsFiniteSet(S), NEW R, StrictOrder(S, R)
  PROVE  Lists(InOrder(S, R), S, R) /\ Len(InOrder(S, R)) = Cardinality(S)
<1> DEFINE N        == Cardinality(S)
           Below(x) == {y \in S : <<y, x>> \in R}
           place    == [x \in S |-> Cardinality(Below(x)) + 1]
           s        == InOrder(S, R)
<1>1. N \in Nat
  BY FS_CardinalityType
<1>2. ASSUME NEW x \in S
      PROVE  /\ IsFiniteSet(Below(x))
             /\ Cardinality(Below(x)) \in 0 .. N - 1
  <2>1. Below(x) \in SUBSET S /\ x \notin Below(x)
    BY DEF StrictOrder
  <2>2. /\ IsFiniteSet(Below(x)) /\ Cardinality(Below(x)) <= N
        /\ Cardinality(Below(x)) \in Nat
    BY <2>1, FS_Subset, FS_CardinalityType
  <2>3. Cardinality(Below(x)) # N
    BY <2>1, FS_Subset
  <2> HIDE DEF Below, N
  <2>. QED
    BY <1>1, <2>2, <2>3
<1>3. ASSUME NEW x \in S, NEW y \in S, <<x, y>> \in R
      PROVE  Cardinality(Below(x)) < Cardinality(Below(y))
  <2>1. Below(x) \in SUBSET Below(y)
    BY <1>3 DEF StrictOrder
  <2>2. x \in Below(y) /\ x \notin Below(x)
    BY <1>3 DEF StrictOrder
  <2>3. IsFiniteSet(Below(y)) /\ Cardinality(Below(y)) \in Nat
    BY <1>2, FS_CardinalityType
  <2>4. /\ Cardinality(Below(x)) <= Cardinality(Below(y))
        /\ Cardinality(Below(x)) # Cardinality(Below(y))
        /\ Cardinality(Below(x)) \in Nat
    BY <2>1, <2>2, <2>3, FS_Subset, FS_CardinalityType
  <2> HIDE DEF Below
  <2>. QED
    BY <2>3, <2>4
<1>4. place \in [S -> 1 .. N]
  <2> SUFFICES ASSUME NEW x \in S PROVE Cardinality(Below(x)) + 1 \in 1 .. N
    OBVIOUS
  <2>1. Cardinality(Below(x)) \in 0 .. N - 1
    BY <1>2
  <2> HIDE DEF Below, N
  <2>. QED
    BY <1>1, <2>1
<1>5. \A x, y \in S : place[x] = place[y] => x = y
  <2> SUFFICES ASSUME NEW x \in S, NEW y \in S, x # y
               PROVE  place[x] # place[y]
    OBVIOUS
  <2>1. Cardinality(Below(x)) \in Nat /\ Cardinality(Below(y)) \in Nat
    BY <1>2, FS_CardinalityType
  <2>2. \/ Cardinality(Below(x)) < Cardinality(Below(y))
        \/ Cardinality(Below(y)) < Cardinality(Below(x))
    <3>1. <<x, y>> \in R \/ <<y, x>> \in R
      BY DEF StrictOrder
    <3>. QED
      BY <1>3, <3>1
  <2>3. /\ place[x] = Cardinality(Below(x)) + 1
        /\ place[y] = Cardinality(Below(y)) + 1
    OBVIOUS
  <2> HIDE DEF Below, place
  <2>. QED
    BY <2>1, <2>2, <2>3
<1>6. ASSUME NEW n \in 1 .. N
      PROVE  \E x \in S : place[x] = n
  <2> SUFFICES ASSUME \A x \in S : place[x] # n PROVE FALSE
    OBVIOUS
  <2>1. place \in [S -> (1 .. N) \ {n}]
    BY <1>4
  <2>2. /\ IsFiniteSet((1 .. N) \ {n})
        /\ Cardinality((1 .. N) \ {n}) = N - 1
    <3> HIDE DEF N
    <3>1. IsFiniteSet(1 .. N) /\ Cardinality(1 .. N) = N
      <4>1. CASE N = 0
        BY <1>1, <4>1, FS_Interval
      <4>2. CASE N > 0
        BY <1>1, <4>2, FS_Interval
      <4>. QED
        BY <1>1, <4>1, <4>2
    <3>. QED
      BY <3>1, FS_RemoveElement
  <2>3. Cardinality((1 .. N) \ {n}) < Cardinality(S)
    BY <1>1, <2>2
  <2>4. \E x, y \in S : x # y /\ place[x] = place[y]
    <3> HIDE DEF place, N
    <3>. QED
      BY <2>1, <2>2, <2>3, FS_PigeonHole
  <2>. QED
    BY <1>5, <2>4
<1>7. ASSUME NEW n \in 1 .. N
      PROVE  s[n] \in S /\ place[s[n]] = n
  <2>1. s[n] = CHOOSE x \in S : Cardinality(Below(x)) = n - 1
    BY DEF InOrder
  <2>2. PICK x \in S : place[x] = n
    BY <1>6
  <2>3. \A y \in S : Cardinality(Below(y)) = n - 1 <=> place[y] = n
    <3> SUFFICES ASSUME NEW y \in S
                 PROVE  Cardinality(Below(y)) = n - 1 <=> place[y] = n
      OBVIOUS
    <3>1. /\ Cardinality(Below(y)) \in Nat
          /\ place[y] = Cardinality(Below(y)) + 1
      BY <1>2, FS_CardinalityType
    <3> HIDE DEF Below, place, N
    <3>. QED
      BY <3>1, <1>1
  <2> HIDE DEF Below, place, s
  <2>4. \E y \in S : Cardinality(Below(y)) = n - 1
    BY <2>2, <2>3
  <2>5. s[n] \in S /\ Cardinality(Below(s[n])) = n - 1
    BY <2>1, <2>4, Zenon
  <2>. QED
    BY <2>3, <2>5
<1>8. s \in Seq(S) /\ Len(s) = N /\ DOMAIN s = 1 .. N
  <2>1. s \in [1 .. N -> S]
    <3> DEFINE nth(n) == CHOOSE x \in S :
                           Cardinality({y \in S : <<y, x>> \in R}) = n - 1
    <3>1. s = [n \in 1 .. N |-> nth(n)]
      BY DEF InOrder
    <3> HIDE DEF nth, s, N
    <3>2. \A n \in 1 .. N : nth(n) \in S
      BY <1>7, <3>1
    <3>. QED
      BY <3>1, <3>2
  <2> HIDE DEF s, N
  <2>. QED
    BY <1>1, <2>1, SMT
<1>9. \A x \in S : In(x, s)
  <2> SUFFICES ASSUME NEW x \in S PROVE In(x, s)
    OBVIOUS
  <2>1. place[x] \in 1 .. N
    BY <1>4
  <2>2. place[s[place[x]]] = place[x] /\ s[place[x]] \in S
    BY <1>7, <2>1
  <2> HIDE DEF place, s, N
  <2>. QED
    BY <1>5, <1>8, <2>1, <2>2 DEF In
<1>10. Sorted(s, R)
  <2> SUFFICES ASSUME NEW m \in 1 .. N, NEW n \in 1 .. N, m < n
               PROVE  <<s[m], s[n]>> \in R
    BY <1>8 DEF Sorted
  <2>1. /\ s[m] \in S /\ place[s[m]] = m
        /\ s[n] \in S /\ place[s[n]] = n
    BY <1>7
  <2>2. s[m] # s[n]
    BY <1>1, <2>1
  <2>3. ASSUME <<s[n], s[m]>> \in R PROVE FALSE
    <3>1. Cardinality(Below(s[n])) < Cardinality(Below(s[m]))
      BY <1>3, <2>1, <2>3
    <3>2. /\ m = Cardinality(Below(s[m])) + 1
          /\ n = Cardinality(Below(s[n])) + 1
      BY <2>1
    <3>3. Cardinality(Below(s[m])) \in Nat /\ Cardinality(Below(s[n])) \in Nat
      BY <1>2, <2>1, FS_CardinalityType
    <3> HIDE DEF Below, s
    <3>. QED
      BY <3>1, <3>2, <3>3
  <2>. QED
    BY <2>1, <2>2, <2>3 DEF StrictOrder
<1> HIDE DEF s, place, Below
<1>. QED
  BY <1>8, <1>9, <1>10 DEF Lists, s

LEMMA SortedOnce ==
  ASSUME NEW S, NEW R, StrictOrder(S, R), NEW s \in Seq(S), Sorted(s, R)
  PROVE  /\ Len(s) \in Nat /\ DOMAIN s = 1 .. Len(s)
         /\ \A n \in DOMAIN s : s[n] \in S
         /\ \A m, n \in DOMAIN s : s[m] = s[n] => m = n
         /\ \A m, n \in DOMAIN s : <<s[m], s[n]>> \in R => m < n
<1>1. /\ Len(s) \in Nat /\ DOMAIN s = 1 .. Len(s)
      /\ \A n \in DOMAIN s : s[n] \in S
  BY LenProperties, ElementOfSeq
<1>2. ASSUME NEW m \in DOMAIN s, NEW n \in DOMAIN s, ~ (m < n)
      PROVE  <<s[m], s[n]>> \notin R
  <2>1. CASE m = n
    BY <1>1, <2>1 DEF StrictOrder
  <2>2. CASE n < m
    <3>1. <<s[n], s[m]>> \in R
      BY <2>2 DEF Sorted
    <3>. QED
      BY <1>1, <3>1 DEF StrictOrder
  <2>. QED
    BY <1>1, <1>2, <2>1, <2>2
<1>3. ASSUME NEW m \in DOMAIN s, NEW n \in DOMAIN s, s[m] = s[n]
      PROVE  m = n
  <2>1. <<s[m], s[n]>> \notin R /\ <<s[n], s[m]>> \notin R
    BY <1>1, <1>3 DEF StrictOrder
  <2>2. ~ (m < n) /\ ~ (n < m)
    BY <2>1 DEF Sorted
  <2>. QED
    BY <1>1, <2>2
<1>. QED
  BY <1>1, <1>2, <1>3

LEMMA HeadOfList ==
  ASSUME NEW S, NEW R, StrictOrder(S, R), NEW t, Lists(t, S, R),
         NEW k \in 0 .. Len(t)
  PROVE  /\ Heads(SubSeq(t, 1, k), S, R)
         /\ Len(SubSeq(t, 1, k)) = k
         /\ \A n \in 1 .. k : SubSeq(t, 1, k)[n] = t[n]
         /\ k > 0 => \A x \in S : \/ In(x, SubSeq(t, 1, k))
                                  \/ <<t[k], x>> \in R
<1> DEFINE s == SubSeq(t, 1, k)
<1>1. /\ t \in Seq(S) /\ Sorted(t, R) /\ \A x \in S : In(x, t)
      /\ Len(t) \in Nat /\ DOMAIN t = 1 .. Len(t)
      /\ \A n \in DOMAIN t : t[n] \in S
      /\ \A m, n \in DOMAIN t : <<t[m], t[n]>> \in R => m < n
  BY SortedOnce DEF Lists
<1>2. /\ s \in Seq(S) /\ Len(s) = k /\ DOMAIN s = 1 .. k
      /\ \A n \in 1 .. k : s[n] = t[n]
  BY <1>1, SMT
<1> HIDE DEF s
<1>3. 1 .. k \subseteq DOMAIN t
  BY <1>1
<1>4. Sorted(s, R)
  BY <1>1, <1>2, <1>3 DEF Sorted
<1>5. ASSUME NEW n \in DOMAIN s, NEW x \in S, <<x, s[n]>> \in R
      PROVE  In(x, s)
  <2>1. PICK m \in DOMAIN t : t[m] = x
    BY <1>1 DEF In
  <2>2. m < n
    BY <1>1, <1>2, <1>3, <1>5, <2>1
  <2>3. m \in 1 .. k
    BY <1>1, <1>2, <2>2
  <2>. QED
    BY <1>2, <2>1, <2>3 DEF In
<1>6. ASSUME k > 0, NEW x \in S, ~In(x, s)
      PROVE  <<t[k], x>> \in R
  <2>1. PICK m \in DOMAIN t : t[m] = x
    BY <1>1 DEF In
  <2>2. m \notin 1 .. k
    BY <1>2, <1>6, <2>1 DEF In
  <2>3. k < m /\ k \in DOMAIN t
    BY <1>1, <1>6, <2>2
  <2>. QED
    BY <1>1, <2>1, <2>3 DEF Sorted
<1>. QED
  BY <1>2, <1>4, <1>5, <1>6 DEF Heads, s

LEMMA ListHeads ==
  ASSUME NEW S, NEW R, NEW s, Lists(s, S, R)
  PROVE  Heads(s, S, R)
BY DEF Lists, Heads

(* The first part of a set in order is the first part of its list.         *)
LEMMA HeadIsPrefix ==
  ASSUME NEW S, NEW R, StrictOrder(S, R), NEW t, Lists(t, S, R),
         NEW s, Heads(s, S, R)
  PROVE  /\ s = SubSeq(t, 1, Len(s))
         /\ Lists(s, S, R) => Len(s) = Len(t)
<1>1. /\ Len(t) \in Nat /\ DOMAIN t = 1 .. Len(t)
      /\ \A n \in DOMAIN t : t[n] \in S
      /\ \A m, n \in DOMAIN t : t[m] = t[n] => m = n
      /\ \A m, n \in DOMAIN t : <<t[m], t[n]>> \in R => m < n
      /\ t \in Seq(S) /\ \A x \in S : In(x, t)
      /\ \A m, n \in DOMAIN t : m < n => <<t[m], t[n]>> \in R
  BY SortedOnce DEF Lists, Sorted
<1>2. /\ Len(s) \in Nat /\ DOMAIN s = 1 .. Len(s)
      /\ \A n \in DOMAIN s : s[n] \in S
      /\ \A m, n \in DOMAIN s : s[m] = s[n] => m = n
      /\ \A m, n \in DOMAIN s : <<s[m], s[n]>> \in R => m < n
      /\ s \in Seq(S)
      /\ \A n \in DOMAIN s, x \in S : <<x, s[n]>> \in R => In(x, s)
  BY SortedOnce DEF Heads
<1> DEFINE Same(n) == n \in DOMAIN t /\ s[n] = t[n]
<1>3. \A n \in DOMAIN s : Same(n)
  <2> DEFINE Other == {n \in DOMAIN s : ~Same(n)}
  <2> SUFFICES ASSUME Other # {} PROVE FALSE
    OBVIOUS
  <2>1. PICK n \in Other : \A m \in Other : n <= m
    <3>1. Other \in SUBSET Nat
      BY <1>2
    <3> HIDE DEF Other
    <3>. QED
      BY <3>1, LeastOf
  <2>2. \A m \in DOMAIN s : m < n => Same(m)
    <3> SUFFICES ASSUME NEW m \in DOMAIN s, m < n PROVE Same(m)
      OBVIOUS
    <3>1. ~ (n <= m)
      BY <1>2
    <3>. QED
      BY <2>1, <3>1
  <2>3. n \in DOMAIN s /\ ~Same(n) /\ s[n] \in S
    BY <1>2
  <2> HIDE DEF Other
  <2>4. PICK j \in DOMAIN t : t[j] = s[n]
    BY <1>1, <2>3 DEF In
  <2>5. j # n
    BY <2>3, <2>4
  <2>6. CASE j < n
    <3>1. j \in DOMAIN s
      BY <1>1, <1>2, <2>3, <2>6
    <3>2. s[j] = s[n]
      BY <2>2, <2>4, <2>6, <3>1
    <3>. QED
      BY <1>2, <2>3, <2>5, <3>1, <3>2
  <2>7. CASE n < j
    <3>1. n \in DOMAIN t
      BY <1>1, <1>2, <2>3, <2>7
    <3>2. <<t[n], s[n]>> \in R /\ t[n] \in S
      BY <1>1, <2>4, <2>7, <3>1
    <3>3. PICK m \in DOMAIN s : s[m] = t[n]
      BY <1>2, <2>3, <3>2 DEF In
    <3>4. m < n
      BY <1>2, <2>3, <3>2, <3>3
    <3>5. t[m] = t[n] /\ m \in DOMAIN t
      BY <2>2, <3>3, <3>4
    <3>6. m = n
      BY <1>1, <3>1, <3>5
    <3>. QED
      BY <1>2, <3>3, <3>4, <3>6
  <2>. QED
    BY <1>1, <1>2, <2>3, <2>5, <2>6, <2>7
<1>4. Len(s) <= Len(t)
  <2>1. CASE Len(s) = 0
    BY <1>1, <2>1
  <2>2. CASE Len(s) # 0
    <3>1. Len(s) \in DOMAIN s
      BY <1>2, <2>2
    <3>2. Len(s) \in DOMAIN t
      BY <1>3, <3>1
    <3>. QED
      BY <1>1, <1>2, <3>2
  <2>. QED
    BY <2>1, <2>2
<1>5. s = SubSeq(t, 1, Len(s))
  <2> DEFINE p == SubSeq(t, 1, Len(s))
  <2>1. /\ p \in Seq(S) /\ Len(p) = Len(s)
        /\ \A n \in 1 .. Len(s) : p[n] = t[n]
    BY <1>1, <1>2, <1>4, SMT
  <2> HIDE DEF p
  <2>2. \A n \in 1 .. Len(s) : p[n] = s[n]
    BY <1>2, <1>3, <2>1
  <2>3. p = s
    BY <1>2, <2>1, <2>2, SeqEqual
  <2>. QED
    BY <2>3 DEF p
<1>6. ASSUME Lists(s, S, R), Len(s) # Len(t)
      PROVE  FALSE
  <2>1. Len(t) \in DOMAIN t /\ Len(t) \notin DOMAIN s
    <3>1. Len(t) \in Nat /\ Len(s) \in Nat
      BY <1>1, <1>2
    <3>2. Len(s) < Len(t)
      BY <1>4, <1>6, <3>1
    <3>3. DOMAIN t = 1 .. Len(t) /\ DOMAIN s = 1 .. Len(s)
      BY <1>1, <1>2
    <3>. QED
      BY <3>1, <3>2, <3>3
  <2>2. PICK n \in DOMAIN s : s[n] = t[Len(t)]
    BY <1>1, <1>6, <2>1 DEF Lists, In
  <2>3. n = Len(t)
    BY <1>1, <1>3, <2>1, <2>2
  <2>. QED
    BY <2>1, <2>3
<1>. QED
  BY <1>5, <1>6

\* s and the first part p of what comes after s
LEMMA JoinSorted ==
  ASSUME NEW S, NEW R, StrictOrder(S, R), NEW s \in Seq(S), Sorted(s, R),
         s # <<>>, NEW p \in Seq(S), Sorted(p, R),
         \A n \in DOMAIN p : <<s[Len(s)], p[n]>> \in R
  PROVE  /\ s \o p \in Seq(S) /\ Sorted(s \o p, R)
         /\ s \o p # <<>>
         /\ \A x : In(x, s \o p) <=> In(x, s) \/ In(x, p)
         /\ p # <<>> => (s \o p)[Len(s \o p)] = p[Len(p)]
<1> DEFINE t == s \o p
           c == s[Len(s)]
<1>1. /\ Len(s) \in Nat \ {0} /\ Len(p) \in Nat
      /\ DOMAIN s = 1 .. Len(s) /\ DOMAIN p = 1 .. Len(p)
      /\ t \in Seq(S) /\ DOMAIN t = 1 .. Len(s) + Len(p)
      /\ Len(t) = Len(s) + Len(p)
  BY SMT
<1>2. /\ \A n \in 1 .. Len(s) : t[n] = s[n]
      /\ \A n \in 1 .. Len(p) : t[Len(s) + n] = p[n]
  BY SMT
<1>3. /\ \A n \in DOMAIN s : s[n] \in S
      /\ \A n \in DOMAIN p : p[n] \in S
  BY <1>1, ElementOfSeq
<1> HIDE DEF t
<1>4. \A n \in DOMAIN t : n \in DOMAIN s \/ (n - Len(s) \in DOMAIN p
                                             /\ n = Len(s) + (n - Len(s)))
  BY <1>1
<1>5. \A x : In(x, t) <=> In(x, s) \/ In(x, p)
  <2> SUFFICES ASSUME NEW x PROVE In(x, t) <=> In(x, s) \/ In(x, p)
    OBVIOUS
  <2>1. ASSUME In(x, t) PROVE In(x, s) \/ In(x, p)
    <3>1. PICK n \in DOMAIN t : t[n] = x
      BY <2>1 DEF In
    <3>2. CASE n \in DOMAIN s
      BY <1>1, <1>2, <3>1, <3>2 DEF In
    <3>3. CASE n - Len(s) \in DOMAIN p /\ n = Len(s) + (n - Len(s))
      BY <1>1, <1>2, <3>1, <3>3 DEF In
    <3>. QED
      BY <1>4, <3>2, <3>3
  <2>2. ASSUME In(x, s) PROVE In(x, t)
    <3>1. PICK n \in DOMAIN s : s[n] = x
      BY <2>2 DEF In
    <3>2. n \in DOMAIN t /\ t[n] = x
      BY <1>1, <1>2, <3>1
    <3>. QED
      BY <3>2 DEF In
  <2>3. ASSUME In(x, p) PROVE In(x, t)
    <3>1. PICK n \in DOMAIN p : p[n] = x
      BY <2>3 DEF In
    <3>2. Len(s) + n \in DOMAIN t /\ t[Len(s) + n] = x
      BY <1>1, <1>2, <3>1
    <3>. QED
      BY <3>2 DEF In
  <2>. QED
    BY <2>1, <2>2, <2>3
<1>6. ASSUME NEW m \in DOMAIN s, NEW n \in DOMAIN p
      PROVE  <<s[m], p[n]>> \in R
  <2>1. Len(s) \in DOMAIN s /\ <<c, p[n]>> \in R
    BY <1>1
  <2>2. CASE m = Len(s)
    BY <2>1, <2>2
  <2>3. CASE m < Len(s)
    <3>1. <<s[m], c>> \in R
      BY <2>1, <2>3 DEF Sorted
    <3>. QED
      BY <1>3, <2>1, <3>1 DEF StrictOrder
  <2>. QED
    BY <1>1, <2>2, <2>3
<1>7. ASSUME NEW m \in DOMAIN t, NEW n \in DOMAIN t, m < n
      PROVE  <<t[m], t[n]>> \in R
  <2>1. CASE m \in DOMAIN s /\ n \in DOMAIN s
    BY <1>1, <1>2, <1>7, <2>1 DEF Sorted
  <2>2. CASE m \in DOMAIN s /\ n \notin DOMAIN s
    <3> DEFINE j == n - Len(s)
    <3>1. j \in DOMAIN p /\ n = Len(s) + j
      BY <1>4, <2>2
    <3> HIDE DEF j
    <3>2. t[m] = s[m] /\ t[n] = p[j]
      BY <1>1, <1>2, <2>2, <3>1
    <3>. QED
      BY <1>6, <2>2, <3>1, <3>2
  <2>3. CASE m \notin DOMAIN s
    <3> DEFINE i == m - Len(s)
               j == n - Len(s)
    <3>1. i \in DOMAIN p /\ m = Len(s) + i
      BY <1>4, <2>3
    <3>2. n \notin DOMAIN s
      BY <1>1, <1>7, <2>3
    <3>3. j \in DOMAIN p /\ n = Len(s) + j
      BY <1>4, <3>2
    <3>4. i < j
      BY <1>1, <1>7
    <3> HIDE DEF i, j
    <3>5. t[m] = p[i] /\ t[n] = p[j]
      BY <1>1, <1>2, <3>1, <3>3
    <3>. QED
      BY <3>1, <3>3, <3>4, <3>5 DEF Sorted
  <2>. QED
    BY <2>1, <2>2, <2>3
<1>8. t # <<>> /\ (p # <<>> => t[Len(t)] = p[Len(p)])
  <2>1. Len(t) # 0
    BY <1>1
  <2>2. p # <<>> => Len(p) \in 1 .. Len(p)
    BY <1>1, SMT
  <2>. QED
    BY <1>1, <1>2, <2>1, <2>2, EmptySeq
<1>. QED
  BY <1>1, <1>5, <1>7, <1>8 DEF Sorted, t

LEMMA HeadsJoin ==
  ASSUME NEW S, NEW R, StrictOrder(S, R), NEW s, Heads(s, S, R), s # <<>>,
         NEW p, Heads(p, {x \in S : <<s[Len(s)], x>> \in R}, R)
  PROVE  /\ Heads(s \o p, S, R)
         /\ Lists(p, {x \in S : <<s[Len(s)], x>> \in R}, R)
              => Lists(s \o p, S, R)
<1> DEFINE c == s[Len(s)]
           T == {x \in S : <<c, x>> \in R}
           t == s \o p
<1>1. /\ s \in Seq(S) /\ Sorted(s, R) /\ p \in Seq(T) /\ Sorted(p, R)
      /\ \A n \in DOMAIN s, x \in S : <<x, s[n]>> \in R => In(x, s)
      /\ \A n \in DOMAIN p, x \in T : <<x, p[n]>> \in R => In(x, p)
  BY DEF Heads
<1>2. \A n \in DOMAIN p : p[n] \in T
  BY <1>1, LenProperties, ElementOfSeq
<1>3. p \in Seq(S)
  <2>1. /\ Len(p) \in Nat /\ p \in [1 .. Len(p) -> T]
    BY <1>1, LenProperties
  <2>2. T \subseteq S
    OBVIOUS
  <2> HIDE DEF T
  <2>3. p \in [1 .. Len(p) -> S]
    BY <2>1, <2>2
  <2>. QED
    BY <2>1, <2>3, SMT
<1>4. /\ t \in Seq(S) /\ Sorted(t, R)
      /\ \A x : In(x, t) <=> In(x, s) \/ In(x, p)
  BY <1>1, <1>2, <1>3, JoinSorted
<1>5. /\ Len(s) \in DOMAIN s /\ c \in S
  <2>1. Len(s) \in Nat /\ DOMAIN s = 1 .. Len(s) /\ Len(s) # 0
    BY <1>1, SMT
  <2>2. Len(s) \in DOMAIN s
    BY <2>1
  <2>. QED
    BY <1>1, <2>1, <2>2, ElementOfSeq
<1>6. \A x \in S : In(x, s) \/ x \in T
  <2> SUFFICES ASSUME NEW x \in S, ~In(x, s) PROVE <<c, x>> \in R
    OBVIOUS
  <2>1. x # c
    BY <1>5 DEF In
  <2>2. <<x, c>> \notin R
    BY <1>1, <1>5
  <2>. QED
    BY <1>5, <2>1, <2>2 DEF StrictOrder
<1> HIDE DEF t
<1>7. ASSUME NEW n \in DOMAIN t, NEW x \in S, <<x, t[n]>> \in R, ~In(x, s)
      PROVE  In(x, p)
  <2>1. In(t[n], s) \/ In(t[n], p)
    <3>1. In(t[n], t)
      BY DEF In
    <3>. QED
      BY <1>4, <3>1
  <2>2. CASE In(t[n], s)
    BY <1>1, <1>7, <2>2 DEF In
  <2>3. CASE In(t[n], p)
    BY <1>1, <1>6, <1>7, <2>3 DEF In
  <2>. QED
    BY <2>1, <2>2, <2>3
<1>8. Heads(t, S, R)
  BY <1>4, <1>7 DEF Heads
<1>9. ASSUME Lists(p, T, R) PROVE Lists(t, S, R)
  BY <1>4, <1>6, <1>9 DEF Lists
<1>. QED
  BY <1>8, <1>9 DEF t

-----------------------------------------------------------------------------
(***************************************************************************)
(* The inductive invariant.                                                *)
(***************************************************************************)
Pages    == {p \in [results : Seq(Rows), next : Cursor] :
               Len(p.results) <= PageSize}
Answered == [at : {"answered"}, first : BOOLEAN, query : Queries, page : Pages]
Sent     == [at : {"sent"}, first : BOOLEAN, query : Queries,
             cursor : Cursor]
Trail    == [alone : BOOLEAN, query : Queries, base : SUBSET (Rows \X Ranks),
             stable : BOOLEAN, missed : SUBSET Days]

TypeInv ==
  /\ shards \in [Days -> Seq(Ranks)]
  /\ expired \subseteq Days
  /\ input \in Queries
  /\ allResults \in Seq(Result)
  /\ nextCursor \in Cursor
  /\ loadMore \in BOOLEAN
  /\ requests \in [Slots -> {Idle} \union Sent \union Answered]
  /\ trail \in Trail

\* each row has one rank in a snapshot
OneRank(base) ==
  /\ base \subseteq Rows \X Ranks
  /\ \A r \in Rows, j, k \in Ranks :
       <<r, j>> \in base /\ <<r, k>> \in base => j = k

\* A date does not come back, and a row of another date does not go away.
BaseKept ==
  /\ OneRank(trail.base)
  /\ \A d \in expired : shards[d] = <<>>
  /\ \A b \in trail.base :
       b[1][1] \in expired \/ b[1][2] \in DOMAIN shards[b[1][1]]

(* While a search has the page to itself there is one request at most, for *)
(* its query, from the cursor on the page; the first one goes with an      *)
(* empty page.                                                             *)
OneRequest ==
  /\ loadMore => nextCursor # NoCursor
  /\ trail.alone =>
       /\ \A s, t \in InUse : s = t
       /\ \A s \in InUse :
            /\ requests[s].query = trail.query
            /\ requests[s].first =>
                 /\ allResults = <<>> /\ nextCursor = NoCursor
                 /\ requests[s].at = "sent" =>
                      /\ requests[s].cursor = NoCursor
                      /\ trail.base = {} /\ trail.stable /\ trail.missed = {}
            /\ ~requests[s].first =>
                 /\ nextCursor # NoCursor
                 /\ requests[s].at = "sent" => requests[s].cursor = nextCursor

\* the rows of a snapshot a query matches, and their order in it
RowsIn(query, base) ==
  {r \in Rows : \E k \in Ranks :
                  <<r, k>> \in base /\ (query = "keyword" => k # NoMatch)}

Newer == {p \in Rows \X Rows : RowBefore(p[2], p[1])}

Better(base) ==
  {p \in Rows \X Rows : \E j, k \in Ranks :
     /\ <<p[1], j>> \in base /\ <<p[2], k>> \in base
     /\ j < k \/ (j = k /\ RowBefore(p[1], p[2]))}

OrderIn(query, base) == IF query = "browse" THEN Newer ELSE Better(base)

(* What is kept of the rows of some pages and the cursor after them, t     *)
(* being the trail: the cursor is that of the last row;                    *)
CursorOf(t, next, rows) ==
  /\ rows # <<>>
  /\ next.row = rows[Len(rows)]
  /\ t.query = "keyword" /\ t.stable => <<next.row, next.rank>> \in t.base

\* what StablePagesExact says of them;
Exact(t, rows, next) ==
  LET S == RowsIn(t.query, t.base)
      R == OrderIn(t.query, t.base)
  IN  t.stable => /\ Heads(rows, S, R)
                  /\ next = NoCursor => Lists(rows, S, R)

\* and what BrowseTolerant says of them.
Tolerant(t, rows, next) ==
  t.query = "browse" =>
    /\ Sorted(rows, Newer)
    /\ \A b \in t.base :
         \/ b[1][1] \in t.missed
         \/ In(b[1], rows)
         \/ next # NoCursor /\ <<next.row, b[1]>> \in Newer

Accumulated(t, rows, next) ==
  /\ rows \in Seq(Rows)
  /\ next # NoCursor => CursorOf(t, next, rows)
  /\ Exact(t, rows, next) /\ Tolerant(t, rows, next)

RowsOf(results) == [n \in DOMAIN results |-> results[n].row]

(* It is so of what is on show, unless a first page is to replace it, and  *)
(* will be so of it with the answer that is on its way.                    *)
PagesKept ==
  trail.alone =>
    /\ (\A s \in InUse : ~requests[s].first)
         => Accumulated(trail, RowsOf(allResults), nextCursor)
    /\ \A s \in InUse : requests[s].at = "answered" =>
         Accumulated(trail, RowsOf(allResults) \o requests[s].page.results,
                     requests[s].page.next)

PageInv == TypeInv /\ BaseKept /\ OneRequest /\ PagesKept

-----------------------------------------------------------------------------
(***************************************************************************)
(* Rows and their orders.                                                  *)
(***************************************************************************)
LEMMA RowParts ==
  ASSUME NEW r \in Rows
  PROVE  /\ r[1] \in Days /\ r[1] \in Nat \ {0} /\ r[2] \in 1 .. MaxRows
         /\ r[2] \in Nat /\ r = <<r[1], r[2]>>
<1>1. PICK d \in Days, n \in 1 .. MaxRows : r = <<d, n>>
  BY DEF Rows
<1>2. MaxRows \in Nat /\ Days \subseteq Nat \ {0}
  BY PagesAssumption
<1>. QED
  BY <1>1, <1>2

LEMMA RowsFinite == IsFiniteSet(Rows)
<1>1. Rows = Days \X (1 .. MaxRows)
  BY DEF Rows
<1>2. MaxRows \in Nat /\ IsFiniteSet(Days)
  BY PagesAssumption
<1>3. IsFiniteSet(1 .. MaxRows)
  BY <1>2, FS_Interval
<1>. QED
  BY <1>1, <1>2, <1>3, FS_Product

LEMMA RanksAreNumbers == Ranks \subseteq Int /\ NoMatch \in Ranks
<1>1. NumRanks \in Nat
  BY PagesAssumption
<1>. QED
  BY <1>1 DEF Ranks, NoMatch

LEMMA CursorRowReal == NoCursor.row \notin Rows
<1>1. NoCursor.row = <<0, 0>>
  BY DEF NoCursor
<1>2. \A r \in Rows : r[1] # 0
  BY RowParts
<1>. QED
  BY <1>1, <1>2

LEMMA RowOrder ==
  /\ \A q \in Rows : ~RowBefore(q, q)
  /\ \A p, q, r \in Rows :
       RowBefore(p, q) /\ RowBefore(q, r) => RowBefore(p, r)
  /\ \A q, r \in Rows : q # r => RowBefore(q, r) \/ RowBefore(r, q)
<1>1. \A q \in Rows : ~RowBefore(q, q)
  BY RowParts DEF RowBefore
<1>2. ASSUME NEW p \in Rows, NEW q \in Rows, NEW r \in Rows,
             RowBefore(p, q), RowBefore(q, r)
      PROVE  RowBefore(p, r)
  <2>1. /\ p[1] \in Nat /\ q[1] \in Nat /\ r[1] \in Nat
        /\ p[2] \in Nat /\ q[2] \in Nat /\ r[2] \in Nat
    BY RowParts
  <2>. QED
    BY <1>2, <2>1 DEF RowBefore
<1>3. ASSUME NEW q \in Rows, NEW r \in Rows, q # r
      PROVE  RowBefore(q, r) \/ RowBefore(r, q)
  <2>1. /\ q[1] \in Nat /\ r[1] \in Nat /\ q[2] \in Nat /\ r[2] \in Nat
        /\ q = <<q[1], q[2]>> /\ r = <<r[1], r[2]>>
    BY RowParts
  <2>2. q[1] # r[1] \/ q[2] # r[2]
    BY <1>3, <2>1
  <2>. QED
    BY <2>1, <2>2 DEF RowBefore
<1>. QED
  BY <1>1, <1>2, <1>3

LEMMA NewerPairs ==
  \A q, r \in Rows : <<q, r>> \in Newer <=> RowBefore(r, q)
BY DEF Newer

LEMMA NewerOrder ==
  ASSUME NEW S, S \subseteq Rows
  PROVE  StrictOrder(S, Newer)
<1>1. \A x \in S : <<x, x>> \notin Newer
  BY NewerPairs, RowOrder
<1>2. \A x, y, z \in S :
        <<x, y>> \in Newer /\ <<y, z>> \in Newer => <<x, z>> \in Newer
  <2> SUFFICES ASSUME NEW x \in S, NEW y \in S, NEW z \in S,
                      <<x, y>> \in Newer, <<y, z>> \in Newer
               PROVE  <<x, z>> \in Newer
    OBVIOUS
  <2>1. x \in Rows /\ y \in Rows /\ z \in Rows
    OBVIOUS
  <2>2. RowBefore(y, x) /\ RowBefore(z, y)
    BY <2>1, NewerPairs
  <2>3. RowBefore(z, x)
    BY <2>1, <2>2, RowOrder
  <2>. QED
    BY <2>1, <2>3, NewerPairs
<1>3. \A x, y \in S : x # y => <<x, y>> \in Newer \/ <<y, x>> \in Newer
  BY NewerPairs, RowOrder
<1>. QED
  BY <1>1, <1>2, <1>3 DEF StrictOrder

LEMMA BetterPairs ==
  ASSUME NEW base, OneRank(base), NEW q \in Rows, NEW r \in Rows,
         NEW j \in Ranks, NEW k \in Ranks, <<q, j>> \in base, <<r, k>> \in base
  PROVE  <<q, r>> \in Better(base) <=> j < k \/ (j = k /\ RowBefore(q, r))
<1>1. <<q, r>> \in Better(base) <=>
        \E i, l \in Ranks : /\ <<q, i>> \in base /\ <<r, l>> \in base
                            /\ i < l \/ (i = l /\ RowBefore(q, r))
  BY DEF Better
<1>2. \A i, l \in Ranks :
        <<q, i>> \in base /\ <<r, l>> \in base => i = j /\ l = k
  BY DEF OneRank
<1>. QED
  BY <1>1, <1>2, Zenon

LEMMA BetterOrder ==
  ASSUME NEW base, OneRank(base), NEW S, S \subseteq Rows,
         \A r \in S : \E k \in Ranks : <<r, k>> \in base
  PROVE  StrictOrder(S, Better(base))
<1>1. \A x \in S : <<x, x>> \notin Better(base)
  <2> SUFFICES ASSUME NEW x \in S PROVE <<x, x>> \notin Better(base)
    OBVIOUS
  <2>1. PICK k \in Ranks : <<x, k>> \in base
    OBVIOUS
  <2>2. ~ (k < k) /\ ~RowBefore(x, x)
    BY RanksAreNumbers, RowOrder
  <2>. QED
    BY <2>1, <2>2, BetterPairs
<1>2. ASSUME NEW x \in S, NEW y \in S, NEW z \in S,
             <<x, y>> \in Better(base), <<y, z>> \in Better(base)
      PROVE  <<x, z>> \in Better(base)
  <2>1. PICK i \in Ranks : <<x, i>> \in base
    OBVIOUS
  <2>2. PICK j \in Ranks : <<y, j>> \in base
    OBVIOUS
  <2>3. PICK k \in Ranks : <<z, k>> \in base
    OBVIOUS
  <2>4. i \in Int /\ j \in Int /\ k \in Int
    BY RanksAreNumbers
  <2>5. /\ i < j \/ (i = j /\ RowBefore(x, y))
        /\ j < k \/ (j = k /\ RowBefore(y, z))
    BY <1>2, <2>1, <2>2, <2>3, BetterPairs
  <2>6. RowBefore(x, y) /\ RowBefore(y, z) => RowBefore(x, z)
    BY RowOrder
  <2>7. i < k \/ (i = k /\ RowBefore(x, z))
    BY <2>4, <2>5, <2>6
  <2>. QED
    BY <2>1, <2>3, <2>7, BetterPairs
<1>3. ASSUME NEW x \in S, NEW y \in S, x # y
      PROVE  <<x, y>> \in Better(base) \/ <<y, x>> \in Better(base)
  <2>1. PICK i \in Ranks : <<x, i>> \in base
    OBVIOUS
  <2>2. PICK j \in Ranks : <<y, j>> \in base
    OBVIOUS
  <2>3. i \in Int /\ j \in Int
    BY RanksAreNumbers
  <2>4. RowBefore(x, y) \/ RowBefore(y, x)
    BY <1>3, RowOrder
  <2>5. \/ i < j \/ (i = j /\ RowBefore(x, y))
        \/ j < i \/ (j = i /\ RowBefore(y, x))
    BY <2>3, <2>4
  <2>6. <<x, y>> \in Better(base) <=> i < j \/ (i = j /\ RowBefore(x, y))
    BY <2>1, <2>2, BetterPairs
  <2>7. <<y, x>> \in Better(base) <=> j < i \/ (j = i /\ RowBefore(y, x))
    BY <2>1, <2>2, BetterPairs
  <2>. QED
    BY <2>5, <2>6, <2>7
<1>. QED
  BY <1>1, <1>2, <1>3, Zenon DEF StrictOrder

LEMMA OrderOfBase ==
  ASSUME NEW query, NEW base, OneRank(base)
  PROVE  /\ StrictOrder(RowsIn(query, base), OrderIn(query, base))
         /\ RowsIn(query, base) \subseteq Rows
         /\ IsFiniteSet(RowsIn(query, base))
<1>1. /\ RowsIn(query, base) \subseteq Rows
      /\ \A r \in RowsIn(query, base) : \E k \in Ranks : <<r, k>> \in base
  BY DEF RowsIn
<1>2. IsFiniteSet(RowsIn(query, base))
  BY <1>1, RowsFinite, FS_Subset
<1>. QED
  BY <1>1, <1>2, NewerOrder, BetterOrder DEF OrderIn

-----------------------------------------------------------------------------
(***************************************************************************)
(* Search and its pages.                                                   *)
(***************************************************************************)
LEMMA MatchTypes ==
  ASSUME TypeInv, NEW query, NEW dates, NEW r \in Matches(query, dates)
  PROVE  /\ r \in Rows /\ r[1] \in dates /\ RankOf(r) \in Ranks
         /\ query = "keyword" => RankOf(r) # NoMatch
         /\ r[1] \in Days /\ r[2] \in DOMAIN shards[r[1]]
<1>1. /\ r \in Rows /\ r[1] \in dates /\ r[2] \in DOMAIN shards[r[1]]
      /\ query = "keyword" => RankOf(r) # NoMatch
  BY DEF Matches
<1>2. r[1] \in Days
  BY <1>1, RowParts
<1>3. shards[r[1]] \in Seq(Ranks)
  BY <1>2 DEF TypeInv
<1>4. shards[r[1]][r[2]] \in Ranks
  BY <1>1, <1>3, LenProperties, ElementOfSeq
<1>. QED
  BY <1>1, <1>2, <1>4 DEF RankOf

LEMMA SnapshotBase ==
  ASSUME TypeInv, NEW dates
  PROVE  /\ OneRank(Snapshot(dates))
         /\ \A r \in Matches("browse", dates) :
              <<r, RankOf(r)>> \in Snapshot(dates)
         /\ \A r \in Rows, k \in Ranks :
              <<r, k>> \in Snapshot(dates)
                <=> r \in Matches("browse", dates) /\ k = RankOf(r)
<1>1. \A r \in Matches("browse", dates) : r \in Rows /\ RankOf(r) \in Ranks
  BY MatchTypes
<1>2. Snapshot(dates) \subseteq Rows \X Ranks
  BY <1>1 DEF Snapshot
<1>3. \A r \in Rows, k \in Ranks :
        <<r, k>> \in Snapshot(dates)
          <=> r \in Matches("browse", dates) /\ k = RankOf(r)
  BY DEF Snapshot
<1>. QED
  BY <1>1, <1>2, <1>3 DEF OneRank

LEMMA SnapshotRows ==
  ASSUME TypeInv, NEW query \in Queries, NEW dates
  PROVE  /\ RowsIn(query, Snapshot(dates)) = Matches(query, dates)
         /\ \A q, r \in Matches(query, dates) :
              <<q, r>> \in OrderIn(query, Snapshot(dates))
                <=> Before(query, q, r)
<1> DEFINE B == Snapshot(dates)
<1>1. /\ OneRank(B)
      /\ \A r \in Rows, k \in Ranks :
           <<r, k>> \in B <=> r \in Matches("browse", dates) /\ k = RankOf(r)
  BY SnapshotBase
<1>2. \A r : r \in Matches(query, dates) <=>
               /\ r \in Matches("browse", dates)
               /\ query = "keyword" => RankOf(r) # NoMatch
  BY DEF Matches
<1>3. \A r \in Matches("browse", dates) : r \in Rows /\ RankOf(r) \in Ranks
  BY MatchTypes
<1> HIDE DEF B
<1>4. RowsIn(query, B) = Matches(query, dates)
  BY <1>1, <1>2, <1>3 DEF RowsIn
<1>5. ASSUME NEW q \in Matches(query, dates), NEW r \in Matches(query, dates)
      PROVE  <<q, r>> \in OrderIn(query, B) <=> Before(query, q, r)
  <2>1. /\ q \in Rows /\ RankOf(q) \in Ranks
        /\ r \in Rows /\ RankOf(r) \in Ranks
        /\ <<q, RankOf(q)>> \in B /\ <<r, RankOf(r)>> \in B
    BY <1>1, <1>2, <1>3
  <2>2. CASE query = "browse"
    BY <2>1, <2>2, NewerPairs DEF OrderIn, Before
  <2>3. CASE query # "browse"
    BY <1>1, <2>1, <2>3, BetterPairs DEF OrderIn, Before
  <2>. QED
    BY <2>2, <2>3
<1>. QED
  BY <1>4, <1>5 DEF B

LEMMA OrderedLists ==
  ASSUME NEW query, NEW T, IsFiniteSet(T), NEW R, StrictOrder(T, R),
         \A q, r \in T : <<q, r>> \in R <=> Before(query, q, r)
  PROVE  Lists(Ordered(query, T), T, R)
<1>1. ASSUME NEW n
      PROVE  (CHOOSE r \in T :
                Cardinality({q \in T : Before(query, q, r)}) = n - 1)
             = (CHOOSE r \in T :
                  Cardinality({q \in T : <<q, r>> \in R}) = n - 1)
  <2> DEFINE A(r) == Cardinality({q \in T : Before(query, q, r)}) = n - 1
             B(r) == Cardinality({q \in T : <<q, r>> \in R}) = n - 1
  <2>1. \A r \in T : A(r) <=> B(r)
    <3> SUFFICES ASSUME NEW r \in T PROVE A(r) <=> B(r)
      OBVIOUS
    <3>1. {q \in T : Before(query, q, r)} = {q \in T : <<q, r>> \in R}
      OBVIOUS
    <3>. QED
      BY <3>1
  <2> HIDE DEF A, B
  <2>2. (CHOOSE r \in T : A(r)) = (CHOOSE r \in T : B(r))
    BY <2>1, Zenon
  <2>. QED
    BY <2>2 DEF A, B
<1>2. Ordered(query, T) = InOrder(T, R)
  <2> DEFINE a(n) == CHOOSE r \in T :
                       Cardinality({q \in T : Before(query, q, r)}) = n - 1
             b(n) == CHOOSE r \in T :
                       Cardinality({q \in T : <<q, r>> \in R}) = n - 1
             N    == Cardinality(T)
  <2>1. /\ Ordered(query, T) = [n \in 1 .. N |-> a(n)]
        /\ InOrder(T, R) = [n \in 1 .. N |-> b(n)]
    BY DEF Ordered, InOrder
  <2>2. \A n : a(n) = b(n)
    BY <1>1, Zenon
  <2> HIDE DEF a, b, N
  <2>3. [n \in 1 .. N |-> a(n)] = [n \in 1 .. N |-> b(n)]
    BY <2>2
  <2>. QED
    BY <2>1, <2>3
<1>. QED
  BY <1>2, InOrderLists

(* A page is a first part of the rows after its cursor: all of them if it  *)
(* has no next cursor, or else those up to the row its next cursor is of.  *)
LEMMA PageHeads ==
  ASSUME TypeInv, NEW query \in Queries, NEW cursor, NEW dates
  PROVE  LET T    == {r \in Matches(query, dates) :
                        cursor = NoCursor \/ After(query, cursor, r)}
             R    == OrderIn(query, Snapshot(dates))
             page == Page(query, cursor, dates)
         IN  /\ Heads(page.results, T, R)
             /\ page.next = NoCursor => Lists(page.results, T, R)
             /\ page.next # NoCursor =>
                  /\ page.results # <<>>
                  /\ page.next.row = page.results[Len(page.results)]
                  /\ page.next.row \in T
                  /\ query = "keyword" =>
                       page.next.rank = RankOf(page.next.row)
                  /\ \A r \in T : \/ In(r, page.results)
                                  \/ <<page.next.row, r>> \in R
             /\ page \in Pages
<1> DEFINE M    == Matches(query, dates)
           T    == {r \in M : cursor = NoCursor \/ After(query, cursor, r)}
           R    == OrderIn(query, Snapshot(dates))
           page == Page(query, cursor, dates)
           rows == Ordered(query, T)
           last == rows[PageSize]
<1>1. PageSize \in Nat \ {0}
  BY PagesAssumption
<1>2. T \subseteq Rows /\ IsFiniteSet(T)
  <2>1. ASSUME NEW r \in T PROVE r \in Rows
    <3>1. r \in Matches(query, dates)
      OBVIOUS
    <3>. QED
      BY <3>1 DEF Matches
  <2>2. T \in SUBSET Rows
    BY <2>1
  <2>. QED
    BY <2>2, RowsFinite, FS_Subset
<1>3. StrictOrder(T, R) /\ Lists(rows, T, R)
  <2>1. /\ StrictOrder(M, R)
        /\ \A q, r \in M : <<q, r>> \in R <=> Before(query, q, r)
    BY SnapshotBase, SnapshotRows, OrderOfBase
  <2>2. T \subseteq M
    OBVIOUS
  <2> HIDE DEF T, M, R
  <2>3. /\ StrictOrder(T, R)
        /\ \A q, r \in T : <<q, r>> \in R <=> Before(query, q, r)
    BY <2>1, <2>2 DEF StrictOrder
  <2>. QED
    BY <1>2, <2>3, OrderedLists
<1>4. ASSUME NEW r \in T PROVE RankOf(r) \in Ranks
  BY MatchTypes
<1>5. IF Len(rows) <= PageSize
        THEN page = [results |-> rows, next |-> NoCursor]
        ELSE page = [results |-> SubSeq(rows, 1, PageSize),
                     next |-> [browse |-> query = "browse", row |-> last,
                               rank |-> IF query = "browse" THEN 0
                                                            ELSE RankOf(last)]]
  BY DEF Page, CursorRow, OnPage
<1> DEFINE Is == /\ Heads(page.results, T, R)
                 /\ page.next = NoCursor => Lists(page.results, T, R)
                 /\ page.next # NoCursor =>
                      /\ page.results # <<>>
                      /\ page.next.row = page.results[Len(page.results)]
                      /\ page.next.row \in T
                      /\ query = "keyword" =>
                           page.next.rank = RankOf(page.next.row)
                      /\ \A r \in T : \/ In(r, page.results)
                                      \/ <<page.next.row, r>> \in R
                 /\ page \in Pages
<1> SUFFICES Is
  OBVIOUS
<1> HIDE DEF M, T, R, page, rows
<1>6. /\ rows \in Seq(T) /\ Len(rows) \in Nat /\ DOMAIN rows = 1 .. Len(rows)
      /\ \A n \in DOMAIN rows : rows[n] \in T
  BY <1>3, LenProperties, ElementOfSeq DEF Lists
<1>7. CASE Len(rows) <= PageSize
  <2>1. page = [results |-> rows, next |-> NoCursor]
    BY <1>5, <1>7
  <2>2. rows \in Seq(Rows)
    BY <1>2, <1>6, SeqMonotonic
  <2>3. page \in Pages
    BY <1>7, <2>1, <2>2 DEF Pages, Cursor
  <2>. QED
    BY <1>3, <2>1, <2>3, ListHeads DEF Is
<1>8. CASE ~ (Len(rows) <= PageSize)
  <2> DEFINE p == SubSeq(rows, 1, PageSize)
             c == [browse |-> query = "browse", row |-> last,
                   rank |-> IF query = "browse" THEN 0 ELSE RankOf(last)]
  <2>1. page = [results |-> p, next |-> c]
    BY <1>5, <1>8
  <2>2. PageSize \in 0 .. Len(rows) /\ PageSize \in DOMAIN rows
    BY <1>1, <1>6, <1>8
  <2>3. last \in T /\ last \in Rows
    BY <1>2, <1>6, <2>2
  <2>4. /\ Heads(p, T, R) /\ Len(p) = PageSize
        /\ \A n \in 1 .. PageSize : p[n] = rows[n]
        /\ \A r \in T : In(r, p) \/ <<last, r>> \in R
    BY <1>1, <1>3, <2>2, HeadOfList
  <2>5. p[Len(p)] = last /\ p # <<>>
    <3>1. Len(p) # 0 /\ PageSize \in 1 .. PageSize
      BY <1>1, <2>4
    <3> HIDE DEF p
    <3>. QED
      BY <2>4, <3>1, EmptySeq
  <2>6. RankOf(last) \in Ranks
    BY <1>4, <2>3
  <2>7. c.row = last /\ (query = "keyword" => c.rank = RankOf(last))
    OBVIOUS
  <2>8. c \in Cursor /\ c # NoCursor
    <3> DEFINE rank == IF query = "browse" THEN 0 ELSE RankOf(last)
               mode == query = "browse"
    <3>1. rank \in Ranks
      BY <2>6, RanksAreNumbers DEF NoMatch
    <3>2. mode \in BOOLEAN
      OBVIOUS
    <3> HIDE DEF rank, mode, last
    <3>3. [browse |-> mode, row |-> last, rank |-> rank] \in Cursor
      BY <2>3, <3>1, <3>2 DEF Cursor
    <3>4. c.row # NoCursor.row
      BY <2>3, <2>7, CursorRowReal
    <3>. QED
      BY <3>3, <3>4 DEF rank, mode
  <2> HIDE DEF p, c, last
  <2>9. p \in Seq(Rows) /\ Len(p) <= PageSize
    BY <1>1, <1>2, <2>4, SeqMonotonic DEF Heads
  <2>10. page \in Pages
    BY <2>1, <2>8, <2>9 DEF Pages
  <2>. QED
    BY <2>1, <2>3, <2>4, <2>5, <2>7, <2>8, <2>10 DEF Is
<1>. QED
  BY <1>7, <1>8

-----------------------------------------------------------------------------
(***************************************************************************)
(* The steps: the store and the form.                                      *)
(***************************************************************************)
LEMMA PagesUnchanged ==
  ASSUME OneRequest, PagesKept, UNCHANGED <<pageVars, requests, trail>>
  PROVE  OneRequest' /\ PagesKept'
<1>1. InUse' = InUse
  BY DEF InUse
<1>. QED
  BY <1>1 DEF OneRequest, PagesKept, pageVars

LEMMA InsertKeeps ==
  ASSUME PageInv, NEW d \in Days, Insert(d)
  PROVE  PageInv'
<1>1. PICK rows \in [1 .. Len(shards[d]) + 1 -> Ranks] :
        shards' = [shards EXCEPT ![d] = rows]
  BY DEF Insert
<1>2. /\ TypeInv /\ BaseKept /\ OneRequest /\ PagesKept /\ d \notin expired
      /\ UNCHANGED <<expired, input, pageVars, requests, trail>>
  BY DEF PageInv, Insert
<1>3. /\ shards \in [Days -> Seq(Ranks)] /\ shards[d] \in Seq(Ranks)
      /\ Len(shards[d]) \in Nat /\ DOMAIN shards[d] = 1 .. Len(shards[d])
  BY <1>2, LenProperties DEF TypeInv
<1>4. rows \in Seq(Ranks) /\ DOMAIN shards[d] \subseteq DOMAIN rows
  <2> DEFINE N == Len(shards[d])
  <2>1. /\ N \in Nat /\ rows \in [1 .. N + 1 -> Ranks]
        /\ DOMAIN shards[d] = 1 .. N
    BY <1>3
  <2> HIDE DEF N
  <2>2. rows \in Seq(Ranks) /\ DOMAIN rows = 1 .. N + 1
    BY <2>1, SMT
  <2>. QED
    BY <2>1, <2>2
<1>5. /\ shards' \in [Days -> Seq(Ranks)] /\ shards'[d] = rows
      /\ \A e \in Days \ {d} : shards'[e] = shards[e]
  BY <1>1, <1>3, <1>4
<1>6. TypeInv'
  BY <1>2, <1>5 DEF TypeInv, pageVars
<1>7. BaseKept'
  <2>1. OneRank(trail.base) /\ trail.base \subseteq Rows \X Ranks
    BY <1>2 DEF BaseKept, OneRank
  <2>2. \A e \in expired : shards'[e] = <<>>
    BY <1>2, <1>5 DEF BaseKept, TypeInv
  <2>3. ASSUME NEW b \in trail.base, b[1][1] \notin expired
        PROVE  b[1][2] \in DOMAIN shards'[b[1][1]]
    <3>1. b[1][1] \in Days
      BY <2>1, RowParts
    <3>2. b[1][2] \in DOMAIN shards[b[1][1]]
      BY <1>2, <2>3 DEF BaseKept
    <3>. QED
      BY <1>4, <1>5, <3>1, <3>2
  <2>. QED
    BY <1>2, <2>1, <2>2, <2>3 DEF BaseKept
<1>. QED
  BY <1>2, <1>6, <1>7, PagesUnchanged DEF PageInv

LEMMA ExpireKeeps ==
  ASSUME PageInv, NEW d \in Days, Expire(d)
  PROVE  PageInv'
<1>1. /\ TypeInv /\ BaseKept /\ OneRequest /\ PagesKept
      /\ shards' = [shards EXCEPT ![d] = <<>>] /\ expired' = expired \union {d}
      /\ UNCHANGED <<input, pageVars, requests, trail>>
  BY DEF PageInv, Expire
<1>2. <<>> \in Seq(Ranks)
  BY EmptySeq
<1>3. /\ shards' \in [Days -> Seq(Ranks)] /\ shards'[d] = <<>>
      /\ \A e \in Days \ {d} : shards'[e] = shards[e]
  BY <1>1, <1>2 DEF TypeInv
<1>4. TypeInv'
  BY <1>1, <1>3 DEF TypeInv, pageVars
<1>5. BaseKept'
  <2>1. OneRank(trail.base) /\ trail.base \subseteq Rows \X Ranks
    BY <1>1 DEF BaseKept, OneRank
  <2>2. \A e \in expired' : shards'[e] = <<>>
    BY <1>1, <1>3 DEF BaseKept, TypeInv
  <2>3. ASSUME NEW b \in trail.base, b[1][1] \notin expired'
        PROVE  b[1][2] \in DOMAIN shards'[b[1][1]]
    <3>1. b[1][1] \in Days
      BY <2>1, RowParts
    <3>2. b[1][2] \in DOMAIN shards[b[1][1]] /\ b[1][1] # d
      BY <1>1, <2>3 DEF BaseKept
    <3>. QED
      BY <1>3, <3>1, <3>2
  <2>. QED
    BY <1>1, <2>1, <2>2, <2>3 DEF BaseKept
<1>. QED
  BY <1>1, <1>4, <1>5, PagesUnchanged DEF PageInv

LEMMA EditKeeps ==
  ASSUME PageInv, Edit
  PROVE  PageInv'
<1>1. TypeInv'
  BY DEF PageInv, TypeInv, Edit, storeVars, pageVars
<1>2. BaseKept'
  BY DEF PageInv, BaseKept, Edit, storeVars
<1>. QED
  BY <1>1, <1>2, PagesUnchanged DEF PageInv, Edit

-----------------------------------------------------------------------------
(***************************************************************************)
(* The steps of the page.                                                  *)
(***************************************************************************)
\* before the first page is read
LEMMA NoPages ==
  ASSUME NEW t, t.base = {}
  PROVE  Accumulated(t, <<>>, NoCursor)
<1>1. \A q : RowsIn(q, {}) = {}
  BY DEF RowsIn
<1>2. \A S, R : <<>> \in Seq(S) /\ Sorted(<<>>, R)
  BY EmptySeq DEF Sorted
<1>3. \A R : Lists(<<>>, {}, R) /\ Heads(<<>>, {}, R)
  BY <1>2 DEF Lists, Heads
<1>4. Exact(t, <<>>, NoCursor)
  BY <1>1, <1>3 DEF Exact
<1>5. Tolerant(t, <<>>, NoCursor)
  BY <1>2 DEF Tolerant
<1>. QED
  BY <1>2, <1>4, <1>5 DEF Accumulated

LEMMA RequestTypes ==
  ASSUME TypeInv, NEW s \in Slots, requests[s] # Idle
  PROVE  /\ s \in InUse
         /\ requests[s].first \in BOOLEAN /\ requests[s].query \in Queries
         /\ requests[s].at = "sent" => requests[s] \in Sent
         /\ requests[s].at = "answered" =>
              /\ requests[s] \in Answered
              /\ requests[s].page \in Pages
              /\ requests[s].page.results \in Seq(Rows)
              /\ requests[s].page.next \in Cursor
<1>1. requests[s] \in Sent \union Answered
  BY DEF TypeInv
<1>2. \A q \in Sent : /\ q.at = "sent" /\ q.first \in BOOLEAN
                      /\ q.query \in Queries
  BY DEF Sent
<1>3. \A q \in Answered : /\ q.at = "answered" /\ q.first \in BOOLEAN
                          /\ q.query \in Queries /\ q.page \in Pages
  BY DEF Answered
<1>4. \A p \in Pages : p.results \in Seq(Rows) /\ p.next \in Cursor
  BY DEF Pages
<1>. QED
  BY <1>1, <1>2, <1>3, <1>4 DEF InUse

LEMMA OnlyRequest ==
  ASSUME PageInv, NEW s \in Slots, requests[s] # Idle, trail.alone
  PROVE  /\ InUse = {s} /\ requests[s].query = trail.query
         /\ requests[s].first =>
              /\ allResults = <<>> /\ nextCursor = NoCursor
              /\ RowsOf(allResults) = <<>>
              /\ requests[s].at = "sent" =>
                   /\ requests[s].cursor = NoCursor
                   /\ trail.base = {} /\ trail.stable /\ trail.missed = {}
         /\ ~requests[s].first =>
              /\ nextCursor # NoCursor
              /\ requests[s].at = "sent" => requests[s].cursor = nextCursor
              /\ Accumulated(trail, RowsOf(allResults), nextCursor)
<1>1. s \in InUse
  BY DEF InUse
<1>2. \A t \in InUse : t = s
  BY <1>1 DEF PageInv, OneRequest
<1>3. RowsOf(<<>>) = <<>>
  BY DEF RowsOf
<1>. QED
  BY <1>1, <1>2, <1>3 DEF PageInv, OneRequest, PagesKept

LEMMA SentRequest ==
  ASSUME TypeInv, NEW first \in BOOLEAN, Fetch(first)
  PROVE  \E s \in Slots \ InUse :
           LET q == [at |-> "sent", first |-> first, query |-> input,
                     cursor |-> IF first THEN NoCursor ELSE nextCursor]
           IN  /\ requests' = [requests EXCEPT ![s] = q]
               /\ requests' \in [Slots -> {Idle} \union Sent \union Answered]
               /\ requests'[s] = q
               /\ InUse' = InUse \union {s}
<1> DEFINE q == [at |-> "sent", first |-> first, query |-> input,
                 cursor |-> IF first THEN NoCursor ELSE nextCursor]
<1>1. PICK s \in Slots \ InUse : requests' = [requests EXCEPT ![s] = q]
  BY DEF Fetch
<1>2. q \in Sent
  BY DEF Sent, TypeInv, Cursor
<1>3. q # Idle
  <2>1. q.at = "sent" /\ Idle.at = "idle"
    BY DEF Idle
  <2>. QED
    BY <2>1
<1>4. requests \in [Slots -> {Idle} \union Sent \union Answered]
  BY DEF TypeInv
<1> HIDE DEF q
<1>5. /\ requests' \in [Slots -> {Idle} \union Sent \union Answered]
      /\ requests'[s] = q
      /\ \A t \in Slots \ {s} : requests'[t] = requests[t]
  BY <1>1, <1>2, <1>4
<1>6. InUse' = InUse \union {s}
  BY <1>3, <1>5 DEF InUse
<1>. QED
  BY <1>1, <1>5, <1>6 DEF q

LEMMA RunSearchKeeps ==
  ASSUME PageInv, RunSearch
  PROVE  PageInv'
<1> DEFINE q == [at |-> "sent", first |-> TRUE, query |-> input,
                 cursor |-> NoCursor]
<1>1. PICK s \in Slots \ InUse :
        /\ requests' \in [Slots -> {Idle} \union Sent \union Answered]
        /\ requests'[s] = q
        /\ InUse' = InUse \union {s}
  BY SentRequest DEF PageInv, RunSearch
<1>2. /\ UNCHANGED <<shards, expired, input>>
      /\ loadMore' = FALSE /\ allResults' = <<>> /\ nextCursor' = NoCursor
      /\ trail'.base = {} /\ trail'.stable /\ trail'.missed = {}
      /\ trail' \in Trail
      /\ trail'.alone => InUse = {} /\ trail'.query = input
  BY DEF PageInv, TypeInv, RunSearch, HideButton, storeVars, NoTrail, Trail,
         Queries
<1>3. TypeInv'
  <2>1. allResults' \in Seq(Result) /\ nextCursor' \in Cursor
    BY <1>2, EmptySeq DEF Cursor
  <2>. QED
    BY <1>1, <1>2, <2>1 DEF PageInv, TypeInv
<1>4. BaseKept'
  BY <1>2 DEF PageInv, BaseKept, OneRank
<1>5. /\ q.query = input /\ q.first /\ q.at = "sent" /\ q.cursor = NoCursor
  OBVIOUS
<1> HIDE DEF q
<1>6. OneRequest'
  <2>1. loadMore' => nextCursor' # NoCursor
    BY <1>2
  <2>2. ASSUME trail'.alone
        PROVE  InUse' = {s} /\ trail'.query = input
    BY <1>1, <1>2, <2>2
  <2>. QED
    BY <1>1, <1>2, <1>5, <2>1, <2>2 DEF OneRequest
<1>7. PagesKept'
  BY <1>1, <1>2, <1>5 DEF PagesKept
<1>. QED
  BY <1>3, <1>4, <1>6, <1>7 DEF PageInv

LEMMA LoadMoreKeeps ==
  ASSUME PageInv, LoadMore
  PROVE  PageInv'
<1> DEFINE q == [at |-> "sent", first |-> FALSE, query |-> input,
                 cursor |-> nextCursor]
<1>1. PICK s \in Slots \ InUse :
        /\ requests' \in [Slots -> {Idle} \union Sent \union Answered]
        /\ requests'[s] = q
        /\ InUse' = InUse \union {s}
  BY SentRequest DEF PageInv, LoadMore
<1>2. /\ UNCHANGED <<shards, expired, input, allResults, nextCursor>>
      /\ loadMore' = FALSE /\ nextCursor # NoCursor
      /\ trail' \in {trail, NoTrail}
      /\ trail'.alone => InUse = {} /\ trail' = trail /\ trail.query = input
  BY DEF PageInv, OneRequest, LoadMore, HideButton, storeVars, NoTrail
<1>3. NoTrail \in Trail /\ NoTrail.base = {}
  BY DEF NoTrail, Trail, Queries
<1>4. TypeInv'
  BY <1>1, <1>2, <1>3 DEF PageInv, TypeInv
<1>5. BaseKept'
  <2>1. trail'.base \subseteq trail.base
    BY <1>2, <1>3
  <2>. QED
    BY <1>2, <2>1 DEF PageInv, BaseKept, OneRank
<1>6. q.query = input /\ ~q.first /\ q.at = "sent" /\ q.cursor = nextCursor
  OBVIOUS
<1> HIDE DEF q
<1>7. ASSUME trail'.alone
      PROVE  /\ InUse' = {s} /\ trail'.query = input
             /\ Accumulated(trail, RowsOf(allResults), nextCursor)
  BY <1>1, <1>2, <1>7 DEF PageInv, PagesKept
<1>8. OneRequest'
  BY <1>1, <1>2, <1>6, <1>7 DEF OneRequest
<1>9. PagesKept'
  BY <1>1, <1>2, <1>6, <1>7 DEF PagesKept
<1>. QED
  BY <1>4, <1>5, <1>8, <1>9 DEF PageInv

LEMMA Freed ==
  ASSUME TypeInv, NEW s \in Slots, Free(s)
  PROVE  /\ requests' \in [Slots -> {Idle} \union Sent \union Answered]
         /\ InUse' = InUse \ {s}
         /\ \A t \in InUse' : requests'[t] = requests[t]
<1>1. requests \in [Slots -> {Idle} \union Sent \union Answered]
  BY DEF TypeInv
<1>2. /\ requests' \in [Slots -> {Idle} \union Sent \union Answered]
      /\ requests'[s] = Idle
      /\ \A t \in Slots \ {s} : requests'[t] = requests[t]
  BY <1>1 DEF Free
<1>. QED
  BY <1>2 DEF InUse

LEMMA FailKeeps ==
  ASSUME PageInv, NEW s \in Slots, Fail(s)
  PROVE  PageInv'
<1>1. /\ TypeInv /\ requests[s] # Idle /\ requests[s].at = "sent" /\ Free(s)
      /\ UNCHANGED <<shards, expired, input, allResults, nextCursor, loadMore,
                     trail>>
  BY DEF PageInv, Fail, storeVars, pageVars
<1>2. /\ requests' \in [Slots -> {Idle} \union Sent \union Answered]
      /\ InUse' = InUse \ {s}
      /\ \A t \in InUse' : requests'[t] = requests[t]
  BY <1>1, Freed
<1>3. TypeInv'
  BY <1>1, <1>2 DEF TypeInv
<1>4. BaseKept'
  BY <1>1 DEF PageInv, BaseKept
<1>5. OneRequest'
  BY <1>1, <1>2 DEF PageInv, OneRequest
<1>6. ASSUME trail.alone
      PROVE  InUse' = {} /\ Accumulated(trail, RowsOf(allResults), nextCursor)
  <2>1. InUse = {s}
    BY <1>1, <1>6, OnlyRequest
  <2>2. Accumulated(trail, RowsOf(allResults), nextCursor)
    BY <1>1, <1>6, OnlyRequest, NoPages
  <2>. QED
    BY <1>2, <2>1, <2>2
<1>7. PagesKept'
  BY <1>1, <1>6 DEF PagesKept
<1>. QED
  BY <1>3, <1>4, <1>5, <1>7 DEF PageInv

\* the rows shown once a page is
PageOf(results, query) ==
  [n \in DOMAIN results |-> [query |-> query, row |-> results[n]]]

LEMMA RowsOfPage ==
  ASSUME NEW results \in Seq(Rows), NEW query \in Queries,
         NEW shown \in Seq(Result)
  PROVE  LET page == PageOf(results, query)
         IN  /\ page \in Seq(Result) /\ RowsOf(page) = results
             /\ shown \o page \in Seq(Result)
             /\ RowsOf(shown \o page) = RowsOf(shown) \o results
<1> DEFINE page == PageOf(results, query)
<1>1. /\ Len(results) \in Nat /\ DOMAIN results = 1 .. Len(results)
      /\ \A n \in 1 .. Len(results) : results[n] \in Rows
      /\ Len(shown) \in Nat /\ DOMAIN shown = 1 .. Len(shown)
      /\ \A n \in 1 .. Len(shown) : shown[n] \in Result
  BY LenProperties, ElementOfSeq
<1>2. \A r \in Rows : /\ [query |-> query, row |-> r] \in Result
                      /\ [query |-> query, row |-> r].row = r
  BY DEF Result
<1>3. \A x \in Result : x.row \in Rows
  BY DEF Result
<1>4. /\ page \in Seq(Result) /\ Len(page) = Len(results)
      /\ DOMAIN page = 1 .. Len(results)
      /\ \A n \in 1 .. Len(results) : page[n].row = results[n]
  <2> DEFINE N == Len(results)
  <2>1. N \in Nat /\ page \in [1 .. N -> Result]
    BY <1>1, <1>2 DEF PageOf
  <2>2. \A n \in 1 .. N : page[n].row = results[n]
    BY <1>1, <1>2 DEF PageOf
  <2> HIDE DEF N, page
  <2>3. page \in Seq(Result) /\ Len(page) = N /\ DOMAIN page = 1 .. N
    BY <2>1, SMT
  <2>. QED
    BY <2>2, <2>3 DEF N
<1>5. \A s \in Seq(Result) :
        /\ RowsOf(s) \in Seq(Rows) /\ Len(RowsOf(s)) = Len(s)
        /\ \A n \in 1 .. Len(s) : RowsOf(s)[n] = s[n].row
  <2> SUFFICES ASSUME NEW s \in Seq(Result)
               PROVE  /\ RowsOf(s) \in Seq(Rows) /\ Len(RowsOf(s)) = Len(s)
                      /\ \A n \in 1 .. Len(s) : RowsOf(s)[n] = s[n].row
    OBVIOUS
  <2> DEFINE N == Len(s)
             r == RowsOf(s)
  <2>1. N \in Nat /\ DOMAIN s = 1 .. N /\ \A n \in 1 .. N : s[n] \in Result
    BY LenProperties, ElementOfSeq
  <2>2. /\ r \in [1 .. N -> Rows]
        /\ \A n \in 1 .. N : r[n] = s[n].row
    BY <1>3, <2>1 DEF RowsOf
  <2> HIDE DEF N, r
  <2>3. r \in Seq(Rows) /\ Len(r) = N
    BY <2>1, <2>2, SMT
  <2>. QED
    BY <2>2, <2>3 DEF N, r
<1> HIDE DEF page
<1> DEFINE t == shown \o page
<1>6. /\ t \in Seq(Result) /\ Len(t) = Len(shown) + Len(results)
      /\ \A n \in 1 .. Len(shown) : t[n] = shown[n]
      /\ \A n \in 1 .. Len(results) : t[Len(shown) + n] = page[n]
  BY <1>1, <1>4, SMT
<1>7. RowsOf(page) = results
  <2>1. /\ RowsOf(page) \in Seq(Rows) /\ Len(RowsOf(page)) = Len(results)
        /\ \A n \in 1 .. Len(results) : RowsOf(page)[n] = page[n].row
    BY <1>4, <1>5
  <2>2. \A n \in 1 .. Len(RowsOf(page)) : RowsOf(page)[n] = results[n]
    BY <1>4, <2>1
  <2>. QED
    BY <2>1, <2>2, SeqEqual
<1>8. RowsOf(t) = RowsOf(shown) \o results
  <2> DEFINE u == RowsOf(shown) \o results
             v == RowsOf(t)
  <2>1. /\ RowsOf(shown) \in Seq(Rows) /\ Len(RowsOf(shown)) = Len(shown)
        /\ \A n \in 1 .. Len(shown) : RowsOf(shown)[n] = shown[n].row
    BY <1>5
  <2>2. /\ u \in Seq(Rows) /\ Len(u) = Len(shown) + Len(results)
        /\ \A n \in 1 .. Len(shown) : u[n] = RowsOf(shown)[n]
        /\ \A n \in 1 .. Len(results) : u[Len(shown) + n] = results[n]
    <3> DEFINE r == RowsOf(shown)
    <3>1. r \in Seq(Rows) /\ Len(r) = Len(shown)
      BY <2>1
    <3> HIDE DEF r
    <3>2. /\ r \o results \in Seq(Rows)
          /\ Len(r \o results) = Len(r) + Len(results)
          /\ \A n \in 1 .. Len(r) : (r \o results)[n] = r[n]
          /\ \A n \in 1 .. Len(results) :
               (r \o results)[Len(r) + n] = results[n]
      BY <1>1, <3>1, SMT
    <3>. QED
      BY <3>1, <3>2 DEF r
  <2>3. /\ v \in Seq(Rows) /\ Len(v) = Len(t)
        /\ \A n \in 1 .. Len(t) : v[n] = t[n].row
    BY <1>5, <1>6
  <2> HIDE DEF t, u, v
  <2>4. ASSUME NEW n \in 1 .. Len(u) PROVE v[n] = u[n]
    <3>1. CASE n \in 1 .. Len(shown)
      BY <1>1, <1>6, <2>1, <2>2, <2>3, <3>1
    <3>2. CASE n \notin 1 .. Len(shown)
      <4> DEFINE m == n - Len(shown)
      <4>1. m \in 1 .. Len(results) /\ n = Len(shown) + m
        BY <1>1, <2>2, <3>2
      <4> HIDE DEF m
      <4>2. v[n] = page[m].row /\ u[n] = results[m]
        BY <1>1, <1>6, <2>2, <2>3, <4>1
      <4>. QED
        BY <1>4, <4>1, <4>2
    <3>. QED
      BY <3>1, <3>2
  <2>5. v = u
    BY <1>6, <2>2, <2>3, <2>4, SeqEqual
  <2>. QED
    BY <2>5 DEF u, v
<1>. QED
  BY <1>4, <1>6, <1>7, <1>8 DEF page

LEMMA ShowKeeps ==
  ASSUME PageInv, NEW s \in Slots, Show(s)
  PROVE  PageInv'
<1> DEFINE results == requests[s].page.results
           next    == requests[s].page.next
           page    == PageOf(results, requests[s].query)
<1>1. /\ TypeInv /\ requests[s] # Idle /\ requests[s].at = "answered"
      /\ Free(s)
      /\ allResults' = IF requests[s].first THEN page ELSE allResults \o page
      /\ nextCursor' = next /\ loadMore' = (next # NoCursor)
      /\ UNCHANGED <<shards, expired, input, trail>>
  BY DEF PageInv, Show, storeVars, PageOf
<1>2. /\ requests' \in [Slots -> {Idle} \union Sent \union Answered]
      /\ InUse' = InUse \ {s}
      /\ \A t \in InUse' : requests'[t] = requests[t]
  BY <1>1, Freed
<1>3. /\ s \in InUse /\ requests[s].query \in Queries /\ results \in Seq(Rows)
      /\ next \in Cursor
  BY <1>1, RequestTypes
<1>4. allResults \in Seq(Result)
  BY <1>1 DEF TypeInv
<1>5. /\ page \in Seq(Result) /\ RowsOf(page) = results
      /\ allResults \o page \in Seq(Result)
      /\ RowsOf(allResults \o page) = RowsOf(allResults) \o results
  BY <1>3, <1>4, RowsOfPage
<1> HIDE DEF page
<1>6. TypeInv'
  BY <1>1, <1>2, <1>3, <1>5 DEF TypeInv
<1>7. BaseKept'
  BY <1>1 DEF PageInv, BaseKept
<1>8. ASSUME trail.alone
      PROVE  /\ InUse' = {}
             /\ Accumulated(trail, RowsOf(allResults'), next)
  <2>1. /\ InUse = {s}
        /\ requests[s].first => RowsOf(allResults) = <<>>
    BY <1>1, <1>8, OnlyRequest
  <2>2. Accumulated(trail, RowsOf(allResults) \o results, next)
    BY <1>1, <1>3, <1>8 DEF PageInv, PagesKept
  <2>3. <<>> \o results = results
    BY <1>3, SMT
  <2> HIDE DEF results, next
  <2>4. RowsOf(allResults') = RowsOf(allResults) \o results
    BY <1>1, <1>5, <2>1, <2>3
  <2>. QED
    BY <1>2, <2>1, <2>2, <2>4
<1>9. OneRequest'
  BY <1>1, <1>8 DEF OneRequest
<1>10. PagesKept'
  BY <1>1, <1>8 DEF PagesKept
<1>. QED
  BY <1>6, <1>7, <1>9, <1>10 DEF PageInv

-----------------------------------------------------------------------------
(***************************************************************************)
(* An answer.                                                              *)
(***************************************************************************)
\* a row read and not expired is still there to be read
LEMMA StillThere ==
  ASSUME TypeInv, BaseKept, NEW dates \in SUBSET Newest, NEW b \in trail.base,
         b[1][1] \notin Days \ dates
  PROVE  b[1] \in Rows /\ b[1] \in Matches("browse", dates)
<1>1. b[1] \in Rows /\ b[1][1] \in Days
  BY RowParts DEF BaseKept, OneRank
<1>2. b[1][1] \in dates /\ shards[b[1][1]] # <<>>
  BY <1>1 DEF Newest, Existing
<1>3. b[1][2] \in DOMAIN shards[b[1][1]]
  BY <1>2 DEF BaseKept
<1>. QED
  BY <1>1, <1>2, <1>3 DEF Matches

\* the first page
LEMMA FirstPage ==
  ASSUME TypeInv, NEW dates, NEW t \in Trail, t.base = Snapshot(dates),
         NEW page, page = Page(t.query, NoCursor, dates)
  PROVE  Accumulated(t, page.results, page.next)
<1> DEFINE M == Matches(t.query, dates)
           R == OrderIn(t.query, Snapshot(dates))
<1>1. t.query \in Queries
  BY DEF Trail
<1>2. {r \in M : NoCursor = NoCursor \/ After(t.query, NoCursor, r)} = M
  OBVIOUS
<1>3. /\ Heads(page.results, M, R)
      /\ page.next = NoCursor => Lists(page.results, M, R)
      /\ page.next # NoCursor =>
           /\ page.results # <<>>
           /\ page.next.row = page.results[Len(page.results)]
           /\ page.next.row \in M
           /\ t.query = "keyword" => page.next.rank = RankOf(page.next.row)
           /\ \A r \in M : In(r, page.results) \/ <<page.next.row, r>> \in R
      /\ page \in Pages
  BY <1>1, <1>2, PageHeads
<1>4. RowsIn(t.query, t.base) = M /\ OrderIn(t.query, t.base) = R
  BY <1>1, SnapshotRows
<1>5. page.results \in Seq(Rows)
  BY <1>3 DEF Pages
<1>6. ASSUME page.next # NoCursor
      PROVE  CursorOf(t, page.next, page.results)
  <2>1. page.next.row \in Matches("browse", dates)
    BY <1>3, <1>6 DEF Matches
  <2>2. t.query = "keyword" => <<page.next.row, page.next.rank>> \in t.base
    BY <1>3, <1>6, <2>1, SnapshotBase
  <2>. QED
    BY <1>3, <1>6, <2>2 DEF CursorOf
<1>7. Exact(t, page.results, page.next)
  BY <1>3, <1>4 DEF Exact
<1>8. ASSUME t.query = "browse"
      PROVE  /\ Sorted(page.results, Newer)
             /\ \A b \in t.base :
                  \/ In(b[1], page.results)
                  \/ page.next # NoCursor /\ <<page.next.row, b[1]>> \in Newer
  <2>1. R = Newer
    BY <1>8 DEF OrderIn
  <2>2. \A b \in t.base : b[1] \in M
    BY <1>8 DEF Snapshot
  <2>3. \A r \in M : \/ In(r, page.results)
                     \/ page.next # NoCursor /\ <<page.next.row, r>> \in Newer
    BY <1>3, <2>1 DEF Lists
  <2>. QED
    BY <1>3, <2>1, <2>2, <2>3 DEF Heads
<1>9. Tolerant(t, page.results, page.next)
  BY <1>8 DEF Tolerant
<1>. QED
  BY <1>5, <1>6, <1>7, <1>9 DEF Accumulated

\* the rows of the next page are those after the last one on show
LEMMA RowsAfter ==
  ASSUME TypeInv, NEW query \in Queries, NEW dates, NEW cursor,
         cursor # NoCursor, cursor.row \in Rows, cursor.rank \in Ranks,
         query = "keyword" => <<cursor.row, cursor.rank>> \in Snapshot(dates)
  PROVE  \A r \in Matches(query, dates) :
           After(query, cursor, r)
             <=> <<cursor.row, r>> \in OrderIn(query, Snapshot(dates))
<1> SUFFICES ASSUME NEW r \in Matches(query, dates)
             PROVE  After(query, cursor, r)
                      <=> <<cursor.row, r>> \in OrderIn(query, Snapshot(dates))
  OBVIOUS
<1>1. r \in Rows /\ RankOf(r) \in Ranks
  BY MatchTypes
<1>2. CASE query = "browse"
  BY <1>1, <1>2, NewerPairs DEF OrderIn, After
<1>3. CASE query = "keyword"
  <2>1. r \in Matches("browse", dates)
    BY DEF Matches
  <2>2. <<r, RankOf(r)>> \in Snapshot(dates) /\ OneRank(Snapshot(dates))
    BY <2>1, SnapshotBase
  <2>3. <<cursor.row, r>> \in Better(Snapshot(dates))
          <=> \/ cursor.rank < RankOf(r)
              \/ cursor.rank = RankOf(r) /\ RowBefore(cursor.row, r)
    BY <1>1, <1>3, <2>2, BetterPairs
  <2>4. cursor.rank \in Int /\ RankOf(r) \in Int
    BY <1>1, RanksAreNumbers
  <2>. QED
    BY <1>3, <2>3, <2>4 DEF OrderIn, After
<1>. QED
  BY <1>2, <1>3 DEF Queries

LEMMA JoinLast ==
  ASSUME NEW S, NEW s \in Seq(S), s # <<>>, NEW p \in Seq(S)
  PROVE  /\ s \o p \in Seq(S) /\ s \o p # <<>>
         /\ p # <<>> => (s \o p)[Len(s \o p)] = p[Len(p)]
<1>1. /\ Len(s) \in Nat \ {0} /\ Len(p) \in Nat
      /\ p # <<>> => Len(p) \in 1 .. Len(p)
  BY SMT
<1>2. /\ s \o p \in Seq(S) /\ Len(s \o p) = Len(s) + Len(p)
      /\ \A n \in 1 .. Len(p) : (s \o p)[Len(s) + n] = p[n]
  BY SMT
<1>3. Len(s \o p) # 0
  BY <1>1, <1>2
<1>. QED
  BY <1>1, <1>2, <1>3, EmptySeq

\* another page
LEMMA NextPage ==
  ASSUME TypeInv, BaseKept, NEW dates \in SUBSET Newest,
         NEW rows, NEW cursor \in Cursor, cursor # NoCursor,
         Accumulated(trail, rows, cursor),
         NEW t \in Trail, t.query = trail.query, t.base = trail.base,
         t.stable => trail.stable /\ t.base = Snapshot(dates),
         t.missed = trail.missed \union (Days \ dates),
         NEW page, page = Page(t.query, cursor, dates)
  PROVE  Accumulated(t, rows \o page.results, page.next)
<1> DEFINE M == Matches(t.query, dates)
           T == {r \in M : cursor = NoCursor \/ After(t.query, cursor, r)}
           R == OrderIn(t.query, Snapshot(dates))
           p == page.results
<1>1. t.query \in Queries
  BY DEF Trail
<1>2. /\ Heads(p, T, R)
      /\ page.next = NoCursor => Lists(p, T, R)
      /\ page.next # NoCursor =>
           /\ p # <<>> /\ page.next.row = p[Len(p)] /\ page.next.row \in T
           /\ t.query = "keyword" => page.next.rank = RankOf(page.next.row)
           /\ \A r \in T : In(r, p) \/ <<page.next.row, r>> \in R
      /\ page \in Pages
  BY <1>1, PageHeads
<1>3. /\ rows \in Seq(Rows) /\ rows # <<>> /\ cursor.row = rows[Len(rows)]
      /\ t.query = "keyword" /\ t.stable =>
           <<cursor.row, cursor.rank>> \in t.base
      /\ cursor.row \in Rows /\ cursor.rank \in Ranks
      /\ Exact(trail, rows, cursor) /\ Tolerant(trail, rows, cursor)
  BY DEF Accumulated, CursorOf, Cursor
<1>4. p \in Seq(Rows)
  BY <1>2 DEF Pages
<1>5. /\ rows \o p \in Seq(Rows) /\ rows \o p # <<>>
      /\ p # <<>> => (rows \o p)[Len(rows \o p)] = p[Len(p)]
  BY <1>3, <1>4, JoinLast
<1>6. ASSUME page.next # NoCursor
      PROVE  CursorOf(t, page.next, rows \o p)
  <2>1. page.next.row \in M /\ page.next.row \in Matches("browse", dates)
    BY <1>2, <1>6 DEF Matches
  <2>2. t.query = "keyword" /\ t.stable =>
          <<page.next.row, page.next.rank>> \in t.base
    BY <1>2, <1>6, <2>1, SnapshotBase
  <2>. QED
    BY <1>2, <1>5, <1>6, <2>2 DEF CursorOf
<1>7. ASSUME t.stable
      PROVE  /\ Heads(rows \o p, M, R)
             /\ page.next = NoCursor => Lists(rows \o p, M, R)
             /\ RowsIn(t.query, t.base) = M /\ OrderIn(t.query, t.base) = R
  <2>1. /\ RowsIn(t.query, t.base) = M /\ OrderIn(t.query, t.base) = R
        /\ StrictOrder(M, R)
    BY <1>1, <1>7, SnapshotRows, SnapshotBase, OrderOfBase
  <2>2. Heads(rows, M, R)
    BY <1>3, <1>7, <2>1 DEF Exact
  <2>3. T = {r \in M : <<cursor.row, r>> \in R}
    <3>1. t.query = "keyword" =>
            <<cursor.row, cursor.rank>> \in Snapshot(dates)
      BY <1>3, <1>7
    <3>2. \A r \in M : After(t.query, cursor, r) <=> <<cursor.row, r>> \in R
      BY <1>1, <1>3, <3>1, RowsAfter
    <3>. QED
      BY <3>2
  <2>4. T = {r \in M : <<rows[Len(rows)], r>> \in R}
    BY <1>3, <2>3
  <2> HIDE DEF T, M, R, p
  <2>5. /\ Heads(rows \o p, M, R)
        /\ Lists(p, T, R) => Lists(rows \o p, M, R)
    BY <1>2, <1>3, <2>1, <2>2, <2>4, HeadsJoin
  <2>. QED
    BY <1>2, <2>1, <2>5
<1>8. Exact(t, rows \o p, page.next)
  BY <1>7 DEF Exact
<1>9. ASSUME t.query = "browse"
      PROVE  /\ Sorted(rows \o p, Newer)
             /\ \A b \in t.base :
                  \/ b[1][1] \in t.missed
                  \/ In(b[1], rows \o p)
                  \/ page.next # NoCursor /\ <<page.next.row, b[1]>> \in Newer
  <2>1. R = Newer /\ StrictOrder(Rows, Newer)
    BY <1>9, NewerOrder DEF OrderIn
  <2>2. \A r \in M : r \in T <=> <<cursor.row, r>> \in Newer
    <3>1. \A r \in M : r \in T <=> RowBefore(r, cursor.row)
      BY <1>9 DEF After
    <3>2. M \subseteq Rows
      BY DEF Matches
    <3>. QED
      BY <1>3, <3>1, <3>2, NewerPairs
  <2>3. \A n \in DOMAIN p : p[n] \in T /\ <<cursor.row, p[n]>> \in Newer
    <3>1. p \in Seq(T) /\ T \subseteq M
      BY <1>2 DEF Heads
    <3>2. \A n \in DOMAIN p : p[n] \in T
      BY <3>1, LenProperties, ElementOfSeq
    <3>. QED
      BY <2>2, <3>1, <3>2
  <2>4. Sorted(rows, Newer) /\ Sorted(p, Newer)
    BY <1>2, <1>3, <1>9, <2>1 DEF Tolerant, Heads
  <2>5. /\ Sorted(rows \o p, Newer)
        /\ \A x : In(x, rows \o p) <=> In(x, rows) \/ In(x, p)
    <3> HIDE DEF p
    <3>. QED
      BY <1>3, <1>4, <2>1, <2>3, <2>4, JoinSorted
  <2>6. ASSUME NEW b \in t.base, b[1][1] \notin t.missed, ~In(b[1], rows)
        PROVE  \/ In(b[1], p)
               \/ page.next # NoCursor /\ <<page.next.row, b[1]>> \in Newer
    <3>1. b[1] \in M
      BY <1>9, <2>6, StillThere
    <3>2. <<cursor.row, b[1]>> \in Newer
      BY <1>3, <1>9, <2>6 DEF Tolerant
    <3>3. b[1] \in T
      BY <2>2, <3>1, <3>2
    <3>. QED
      BY <1>2, <2>1, <3>3 DEF Lists
  <2>. QED
    BY <2>5, <2>6
<1>10. Tolerant(t, rows \o p, page.next)
  BY <1>9 DEF Tolerant
<1>. QED
  BY <1>5, <1>6, <1>8, <1>10 DEF Accumulated

\* what is on show while the next page is on its way
LEMMA StillAccumulated ==
  ASSUME NEW rows, NEW cursor, NEW old, Accumulated(old, rows, cursor),
         NEW t, t.query = old.query, t.base = old.base,
         t.stable => old.stable, old.missed \subseteq t.missed
  PROVE  Accumulated(t, rows, cursor)
<1>1. /\ rows \in Seq(Rows) /\ Exact(old, rows, cursor)
      /\ Tolerant(old, rows, cursor)
      /\ cursor # NoCursor => CursorOf(old, cursor, rows)
  BY DEF Accumulated
<1>2. Exact(t, rows, cursor)
  BY <1>1 DEF Exact
<1>3. Tolerant(t, rows, cursor)
  BY <1>1 DEF Tolerant
<1>4. cursor # NoCursor => CursorOf(t, cursor, rows)
  BY <1>1 DEF CursorOf
<1>. QED
  BY <1>1, <1>2, <1>3, <1>4 DEF Accumulated

LEMMA AnswerKeeps ==
  ASSUME PageInv, NEW s \in Slots, Answer(s)
  PROVE  PageInv'
<1>1. /\ TypeInv /\ BaseKept /\ requests[s] # Idle /\ requests[s].at = "sent"
      /\ UNCHANGED <<shards, expired, input, allResults, nextCursor, loadMore>>
  BY DEF PageInv, Answer, storeVars, pageVars
<1> DEFINE q == requests[s]
<1>2. PICK dates \in SUBSET Newest :
        /\ requests' = [requests EXCEPT ![s] =
                          [at |-> "answered", first |-> q.first,
                           query |-> q.query,
                           page |-> Page(q.query, q.cursor, dates)]]
        /\ trail' = IF ~trail.alone THEN trail ELSE
             [trail EXCEPT !.base   = IF q.first THEN Snapshot(dates) ELSE @,
                           !.stable = \/ q.first
                                      \/ @ /\ Snapshot(dates) = trail.base,
                           !.missed = @ \union (Days \ dates)]
  BY DEF Answer
<1> DEFINE page == Page(q.query, q.cursor, dates)
           a    == [at |-> "answered", first |-> q.first, query |-> q.query,
                    page |-> page]
<1>3. /\ s \in InUse /\ q.first \in BOOLEAN /\ q.query \in Queries
  BY <1>1, RequestTypes
<1>4. page \in Pages
  BY <1>1, <1>3, PageHeads
<1> HIDE DEF page
<1>5. a \in Answered /\ a # Idle
  <2>1. a.at = "answered" /\ Idle.at = "idle"
    BY DEF Idle
  <2>. QED
    BY <1>3, <1>4, <2>1 DEF Answered
<1>6. /\ requests \in [Slots -> {Idle} \union Sent \union Answered]
      /\ requests' = [requests EXCEPT ![s] = a]
  BY <1>1, <1>2 DEF TypeInv, page
<1>7. /\ a.first = q.first /\ a.query = q.query
      /\ a.at = "answered" /\ a.page = page
  OBVIOUS
<1> HIDE DEF a
<1>8. /\ requests' \in [Slots -> {Idle} \union Sent \union Answered]
      /\ requests'[s] = a
      /\ \A i \in Slots \ {s} : requests'[i] = requests[i]
  BY <1>5, <1>6
<1>9. InUse' = InUse
  BY <1>3, <1>5, <1>8 DEF InUse
<1>10. /\ trail \in Trail
       /\ trail.base \subseteq Rows \X Ranks /\ trail.missed \subseteq Days
       /\ trail.alone \in BOOLEAN /\ trail.query \in Queries
       /\ trail.stable \in BOOLEAN
  BY <1>1 DEF TypeInv, Trail
<1>11. OneRank(Snapshot(dates)) /\ Snapshot(dates) \subseteq Rows \X Ranks
  BY <1>1, SnapshotBase DEF OneRank
<1>12. /\ trail' \in Trail /\ trail'.alone = trail.alone
       /\ trail'.query = trail.query
       /\ trail'.base \in {trail.base, Snapshot(dates)}
  BY <1>2, <1>3, <1>10, <1>11 DEF Trail
<1>13. trail.alone =>
         /\ trail'.base = IF q.first THEN Snapshot(dates) ELSE trail.base
         /\ trail'.stable = \/ q.first
                            \/ trail.stable /\ Snapshot(dates) = trail.base
         /\ trail'.missed = trail.missed \union (Days \ dates)
  BY <1>2, <1>10 DEF Trail
<1>14. TypeInv'
  BY <1>1, <1>8, <1>12 DEF TypeInv
<1>15. BaseKept'
  <2>1. OneRank(trail'.base)
    BY <1>1, <1>11, <1>12 DEF BaseKept
  <2>2. \A b \in Snapshot(dates) : b[1][2] \in DOMAIN shards[b[1][1]]
    BY DEF Snapshot, Matches
  <2>3. \A b \in trail'.base :
          b[1][1] \in expired \/ b[1][2] \in DOMAIN shards[b[1][1]]
    BY <1>1, <1>12, <2>2 DEF BaseKept
  <2>. QED
    BY <1>1, <2>1, <2>3 DEF BaseKept
<1>16. ASSUME trail.alone
       PROVE  /\ InUse = {s} /\ q.query = trail.query
              /\ q.first => allResults = <<>> /\ nextCursor = NoCursor
              /\ ~q.first => nextCursor # NoCursor
  BY <1>1, <1>16, OnlyRequest
<1>17. OneRequest'
  <2>1. loadMore' => nextCursor' # NoCursor
    BY <1>1 DEF PageInv, OneRequest
  <2>. QED
    BY <1>1, <1>7, <1>8, <1>9, <1>12, <1>16, <2>1 DEF OneRequest
<1>18. ASSUME trail.alone
       PROVE  Accumulated(trail', RowsOf(allResults) \o page.results,
                          page.next)
  <2>1. page.results \in Seq(Rows)
    BY <1>4 DEF Pages
  <2>2. q.query = trail'.query
    BY <1>12, <1>16, <1>18
  <2>3. CASE q.first
    <3>1. RowsOf(allResults) = <<>> /\ q.cursor = NoCursor
      BY <1>1, <1>18, <2>3, OnlyRequest
    <3>2. page = Page(trail'.query, NoCursor, dates)
      BY <2>2, <3>1 DEF page
    <3>3. trail'.base = Snapshot(dates)
      BY <1>13, <1>18, <2>3
    <3>4. Accumulated(trail', page.results, page.next)
      BY <1>1, <1>12, <3>2, <3>3, FirstPage
    <3>5. <<>> \o page.results = page.results
      BY <2>1, SMT
    <3>. QED
      BY <3>1, <3>4, <3>5
  <2>4. CASE ~q.first
    <3>1. /\ nextCursor # NoCursor /\ q.cursor = nextCursor
          /\ Accumulated(trail, RowsOf(allResults), nextCursor)
      BY <1>1, <1>18, <2>4, OnlyRequest
    <3>2. page = Page(trail'.query, nextCursor, dates)
      BY <2>2, <3>1 DEF page
    <3>3. /\ trail'.base = trail.base
          /\ trail'.stable => trail.stable /\ trail'.base = Snapshot(dates)
          /\ trail'.missed = trail.missed \union (Days \ dates)
      BY <1>13, <1>18, <2>4
    <3>4. nextCursor \in Cursor
      BY <1>1 DEF TypeInv
    <3>. QED
      BY <1>1, <1>12, <3>1, <3>2, <3>3, <3>4, NextPage
  <2>. QED
    BY <2>3, <2>4
<1>19. PagesKept'
  <2>1. ASSUME trail'.alone, \A i \in InUse' : ~requests'[i].first
        PROVE  Accumulated(trail', RowsOf(allResults'), nextCursor')
    <3>1. ~q.first /\ trail.alone
      BY <1>3, <1>7, <1>8, <1>9, <1>12, <2>1
    <3>2. Accumulated(trail, RowsOf(allResults), nextCursor)
      BY <1>1, <3>1, OnlyRequest
    <3>3. /\ trail'.base = trail.base /\ trail'.query = trail.query
          /\ trail'.stable => trail.stable
          /\ trail.missed \subseteq trail'.missed
      BY <1>12, <1>13, <3>1
    <3>4. Accumulated(trail', RowsOf(allResults), nextCursor)
      BY <3>2, <3>3, StillAccumulated
    <3>. QED
      BY <1>1, <3>4
  <2>2. ASSUME trail'.alone, NEW i \in InUse'
        PROVE  Accumulated(trail',
                           RowsOf(allResults') \o requests'[i].page.results,
                           requests'[i].page.next)
    <3>1. i = s /\ trail.alone
      BY <1>9, <1>12, <1>16, <2>2
    <3>. QED
      BY <1>1, <1>7, <1>8, <1>18, <3>1
  <2>. QED
    BY <2>1, <2>2 DEF PagesKept
<1>. QED
  BY <1>14, <1>15, <1>17, <1>19 DEF PageInv

-----------------------------------------------------------------------------
(***************************************************************************)
(* The theorems.                                                           *)
(***************************************************************************)
LEMMA PagesStart ==
  ASSUME Init
  PROVE  PageInv
<1>1. TypeInv
  BY EmptySeq
     DEF Init, TypeInv, Queries, Cursor, NoTrail, Trail
<1>2. InUse = {} /\ ~trail.alone /\ ~loadMore /\ trail.base = {}
  BY DEF Init, InUse, NoTrail
<1>3. BaseKept
  BY <1>2 DEF BaseKept, OneRank, Init
<1>4. OneRequest /\ PagesKept
  BY <1>2 DEF OneRequest, PagesKept
<1>. QED
  BY <1>1, <1>3, <1>4 DEF PageInv

LEMMA PagesStep ==
  ASSUME PageInv, [Next]_vars
  PROVE  PageInv'
<1>1. CASE \E d \in Days : Insert(d) \/ Expire(d)
  BY <1>1, InsertKeeps, ExpireKeeps
<1>2. CASE Edit \/ RunSearch \/ LoadMore
  BY <1>2, EditKeeps, RunSearchKeeps, LoadMoreKeeps
<1>3. CASE \E s \in Slots : Answer(s) \/ Show(s) \/ Fail(s)
  BY <1>3, AnswerKeeps, ShowKeeps, FailKeeps
<1>4. CASE UNCHANGED vars
  <2>1. UNCHANGED <<shards, expired, input, pageVars, requests, trail>>
    BY <1>4 DEF vars, storeVars, pageVars
  <2>2. TypeInv' /\ BaseKept'
    BY <2>1 DEF PageInv, TypeInv, BaseKept, pageVars
  <2>. QED
    BY <2>1, <2>2, PagesUnchanged DEF PageInv
<1>. QED
  BY <1>1, <1>2, <1>3, <1>4 DEF Next

LEMMA PagesInvariant == Spec => []PageInv
<1>1. Init => PageInv
  BY PagesStart
<1>2. PageInv /\ [Next]_vars => PageInv'
  BY PagesStep
<1>. QED
  BY <1>1, <1>2, PTL DEF Spec

(* Every state is typed: in particular no page has more than the limit of  *)
(* rows (handleSearch, Limit: 500).                                        *)
THEOREM PagesTypeCorrect == Spec => []TypeOK
<1>1. PageInv => TypeOK
  <2> SUFFICES ASSUME PageInv PROVE TypeOK
    OBVIOUS
  <2>1. TypeInv
    BY DEF PageInv
  <2>2. ASSUME NEW s \in InUse
        PROVE  /\ requests[s].at \in {"sent", "answered"}
               /\ requests[s].first \in BOOLEAN
               /\ requests[s].query \in Queries
               /\ requests[s].at = "answered" =>
                    Len(requests[s].page.results) \in 0 .. PageSize
    <3>1. s \in Slots /\ requests[s] # Idle
      BY DEF InUse
    <3>2. requests[s] \in Sent \union Answered
      BY <2>1, <3>1 DEF TypeInv
    <3>3. ASSUME NEW p \in Pages PROVE Len(p.results) \in 0 .. PageSize
      <4>1. /\ Len(p.results) \in Nat /\ Len(p.results) <= PageSize
            /\ PageSize \in Nat
        BY LenProperties, PagesAssumption DEF Pages
      <4>. QED
        BY <4>1
    <3>4. requests[s].at \in {"sent", "answered"}
      BY <3>2 DEF Sent, Answered
    <3>. QED
      BY <2>1, <3>1, <3>3, <3>4, RequestTypes
  <2>3. trail.missed \subseteq Days
    BY <2>1 DEF TypeInv, Trail
  <2>. QED
    BY <2>1, <2>2, <2>3 DEF TypeInv, TypeOK
<1>. QED
  BY <1>1, PagesInvariant, PTL

(* Paging through a stable result set shows every row of it once, in its   *)
(* order: the cursor of a page loses and repeats nothing, whatever the     *)
(* page size and however many rows have the same rank (Store.Search).      *)
THEOREM StablePagesAlwaysExact == Spec => []StablePagesExact
<1>1. PageInv => StablePagesExact
  <2> DEFINE dates  == {b[1][1] : b \in trail.base}
             query  == trail.query
             M      == Matches(query, dates)
             R      == OrderIn(query, trail.base)
             answer == Ordered(query, M)
             shown  == RowsOf(allResults)
  <2> SUFFICES ASSUME PageInv, Loaded, trail.stable,
                      trail.base = Snapshot(dates)
               PROVE  /\ shown = SubSeq(answer, 1, Len(shown))
                      /\ nextCursor = NoCursor => Len(shown) = Len(answer)
    BY DEF StablePagesExact, RowsOf
  <2>1. TypeInv /\ query \in Queries
    BY DEF PageInv, TypeInv, Trail
  <2>2. Exact(trail, shown, nextCursor)
    BY DEF PageInv, PagesKept, Loaded, Accumulated
  <2>3. /\ RowsIn(query, trail.base) = M
        /\ \A q, r \in M : <<q, r>> \in R <=> Before(query, q, r)
        /\ StrictOrder(M, R) /\ IsFiniteSet(M)
    <3> HIDE DEF dates
    <3>1. /\ RowsIn(query, Snapshot(dates)) = M
          /\ \A q, r \in M :
               <<q, r>> \in OrderIn(query, Snapshot(dates))
                 <=> Before(query, q, r)
      BY <2>1, SnapshotRows
    <3>2. /\ OneRank(Snapshot(dates)) /\ trail.base = Snapshot(dates)
      BY <2>1, SnapshotBase DEF dates
    <3>3. /\ StrictOrder(RowsIn(query, trail.base), R)
          /\ IsFiniteSet(RowsIn(query, trail.base))
      BY <3>2, OrderOfBase
    <3>. QED
      BY <3>1, <3>2, <3>3
  <2>4. Heads(shown, M, R) /\ (nextCursor = NoCursor => Lists(shown, M, R))
    BY <2>2, <2>3 DEF Exact
  <2> HIDE DEF M, R, shown, query
  <2>5. Lists(answer, M, R)
    BY <2>3, OrderedLists
  <2> HIDE DEF answer
  <2>. QED
    BY <2>3, <2>4, <2>5, HeadIsPrefix
<1>. QED
  BY <1>1, PagesInvariant, PTL

(* Browsing while batches are stored and shards expire shows no row twice, *)
(* and, once no cursor is left, every row of the first page's shards but   *)
(* for those of a date some page was not read from (buildQuery).           *)
THEOREM BrowseAlwaysTolerant == Spec => []BrowseTolerant
<1>1. PageInv => BrowseTolerant
  <2> DEFINE rows == RowsOf(allResults)
  <2> SUFFICES ASSUME PageInv, Loaded, trail.query = "browse"
               PROVE  /\ Cardinality(Shown) = Len(allResults)
                      /\ \A b \in trail.base :
                           b[1][1] \notin trail.missed /\ nextCursor = NoCursor
                             => b[1] \in Shown
    BY DEF BrowseTolerant
  <2>1. /\ rows \in Seq(Rows) /\ Sorted(rows, Newer)
        /\ \A b \in trail.base :
             \/ b[1][1] \in trail.missed
             \/ In(b[1], rows)
             \/ nextCursor # NoCursor
    BY DEF PageInv, PagesKept, Loaded, Accumulated, Tolerant
  <2>2. allResults \in Seq(Result)
    BY DEF PageInv, TypeInv
  <2>3. DOMAIN rows = 1 .. Len(allResults) /\ Len(allResults) \in Nat
    BY <2>2, LenProperties DEF RowsOf
  <2>4. Shown = {rows[n] : n \in 1 .. Len(allResults)}
    BY <2>2, LenProperties DEF RowsOf, Shown
  <2> HIDE DEF rows
  <2>5. \A m, n \in DOMAIN rows : rows[m] = rows[n] => m = n
    BY <2>1, SortedOnce, NewerOrder
  <2>6. rows \in Bijection(1 .. Len(allResults), Shown)
    <3>1. rows \in [1 .. Len(allResults) -> Shown]
      BY <2>1, <2>3, <2>4, LenProperties
    <3>. QED
      BY <2>3, <2>4, <2>5, <3>1
         DEF Bijection, Injection, Surjection, IsInjective
  <2>7. Cardinality(Shown) = Len(allResults)
    BY <2>3, <2>6, FS_CountingElements DEF ExistsBijection
  <2>8. \A x : In(x, rows) => x \in Shown
    BY <2>3, <2>4 DEF In
  <2>. QED
    BY <2>1, <2>7, <2>8
<1>. QED
  BY <1>1, PagesInvariant, PTL

=============================================================================
