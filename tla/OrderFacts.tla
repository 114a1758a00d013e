----------------------------- MODULE OrderFacts -----------------------------
(***************************************************************************)
(* Facts that several proofs need about natural numbers, enumerations,     *)
(* sequences and functions computed in n steps; then what the statements   *)
(* of Positions do to a table, whatever its rows are: the renumbering puts *)
(* the rows at 1 .. n in the order they are in, and what an insert, a move *)
(* or a delete leaves for it is in an order.                               *)
(***************************************************************************)
EXTENDS Positions, FiniteSetTheorems, SequenceTheorems, WellFoundedInduction, TLAPS

(* A non-empty set of naturals has a least element. *)
LEMMA LeastNatural ==
  ASSUME NEW S \in SUBSET Nat, S # {}
  PROVE  \E m \in S : \A k \in S : m <= k
<1> DEFINE R == OpToRel(<, Nat)
<1>1. R = {p \in Nat \X Nat : p[1] < p[2]}
  BY DEF OpToRel
<1>2. IsWellFoundedOn(R, Nat)
  BY NatLessThanWellFounded
<1> HIDE DEF R
<1>3. PICK m \in S : \A k \in S : ~(<<k, m>> \in R)
  BY <1>2, WFMin
<1>4. \A k \in S : ~(k < m)
  BY <1>1, <1>3
<1> QED BY <1>4

(* A non-empty set of naturals with an upper bound has a greatest element. *)
LEMMA GreatestNatural ==
  ASSUME NEW n \in Nat, NEW S \in SUBSET (0 .. n), S # {}
  PROVE  \E m \in S : \A k \in S : k <= m
<1> DEFINE distance == {n - i : i \in S}
<1>1. PICK j \in S : TRUE
  OBVIOUS
<1>2. distance \subseteq Nat /\ n - j \in distance
  BY <1>1
<1>3. PICK m \in distance : \A k \in distance : m <= k
  <2> HIDE DEF distance
  <2>1. distance \in SUBSET Nat /\ distance # {}
    BY <1>2
  <2> QED BY <2>1, LeastNatural
<1>4. PICK i \in S : m = n - i
  BY <1>3
<1>5. ASSUME NEW k \in S
      PROVE  k <= i
  <2>1. n - k \in distance
    OBVIOUS
  <2>2. n - i <= n - k
    BY <1>3, <1>4, <2>1
  <2>3. k \in Int /\ i \in Int
    OBVIOUS
  <2> QED BY <2>2, <2>3
<1> QED BY <1>5

----------------------------------------------------------------------------
(* Induction: a set that has 0, and with each number the next one up to n, *)
(* has all of them.                                                        *)
LEMMA UpTo ==
  ASSUME NEW n \in Nat, NEW S, 0 \in S, \A k \in 1 .. n : k - 1 \in S => k \in S
  PROVE  \A k \in 0 .. n : k \in S
<1> DEFINE missing == {k \in 0 .. n : k \notin S}
<1>1. missing \in SUBSET Nat
  OBVIOUS
<1>2. ASSUME missing # {}
      PROVE  FALSE
  <2>1. PICK m \in missing : \A k \in missing : m <= k
    <3> HIDE DEF missing
    <3> QED BY <1>1, <1>2, LeastNatural
  <2>2. m \in 1 .. n /\ m \notin S
    <3>1. m \in 0 .. n /\ m \notin S
      OBVIOUS
    <3> QED BY <3>1
  <2>3. m - 1 \in 0 .. n /\ ~(m <= m - 1)
    BY <2>2
  <2>4. m - 1 \in S
    BY <2>1, <2>3
  <2> QED BY <2>2, <2>4
<1> QED BY <1>2

(* The runs of n steps from start through S.                               *)
Iterations(n, S, start, step) ==
  {f \in [0 .. n -> S] : f[0] = start /\ \A k \in 1 .. n : f[k] = step[k][f[k - 1]]}

(* Recursion: values can be computed one after the other up to any n.      *)
LEMMA Recursion ==
  ASSUME NEW n \in Nat, NEW S, NEW start \in S, NEW step \in [1 .. n -> [S -> S]]
  PROVE  Iterations(n, S, start, step) # {}
<1> DEFINE reached == {m \in 0 .. n : Iterations(m, S, start, step) # {}}
<1>1. 0 \in reached
  <2>1. [k \in 0 .. 0 |-> start] \in Iterations(0, S, start, step)
    BY DEF Iterations
  <2> QED BY <2>1
<1>2. ASSUME NEW m \in 1 .. n, m - 1 \in reached
      PROVE  m \in reached
  <2>1. PICK f \in [0 .. m - 1 -> S] :
          f[0] = start /\ \A k \in 1 .. m - 1 : f[k] = step[k][f[k - 1]]
    BY <1>2 DEF Iterations
  <2> DEFINE g == [k \in 0 .. m |-> IF k = m THEN step[m][f[m - 1]] ELSE f[k]]
  <2>2. step[m][f[m - 1]] \in S
    <3>1. m - 1 \in 0 .. m - 1
      OBVIOUS
    <3>2. step[m] \in [S -> S] /\ f[m - 1] \in S
      BY <3>1
    <3> QED BY <3>2
  <2>3. \A k \in 0 .. m : k # m => k \in 0 .. m - 1
    OBVIOUS
  <2>4. g \in [0 .. m -> S]
    BY <2>2, <2>3
  <2>5. g[0] = start
    <3>1. 0 \in 0 .. m /\ 0 # m
      OBVIOUS
    <3> QED BY <2>1, <3>1
  <2>6. ASSUME NEW k \in 1 .. m
        PROVE  g[k] = step[k][g[k - 1]]
    <3>1. k \in 0 .. m /\ k - 1 \in 0 .. m /\ k - 1 # m
      OBVIOUS
    <3>2. g[k - 1] = f[k - 1]
      BY <3>1
    <3>3. CASE k = m
      BY <3>1, <3>2, <3>3
    <3>4. CASE k # m
      <4>1. k \in 1 .. m - 1 /\ g[k] = f[k]
        BY <3>1, <3>4
      <4> QED BY <2>1, <3>2, <4>1
    <3> QED BY <3>3, <3>4
  <2>7. g \in Iterations(m, S, start, step)
    <3> HIDE DEF g
    <3> QED BY <2>4, <2>5, <2>6 DEF Iterations
  <2>8. m \in 0 .. n
    OBVIOUS
  <2> QED BY <2>7, <2>8
<1>3. n \in reached
  <2> HIDE DEF reached
  <2>1. \A k \in 0 .. n : k \in reached
    BY <1>1, <1>2, UpTo
  <2> QED BY <2>1
<1> QED BY <1>3
----------------------------------------------------------------------------
(* The elements of a set of numbers up to n, one after the other.          *)
LEMMA Enumeration ==
  ASSUME NEW n \in Nat, NEW S \in SUBSET (1 .. n)
  PROVE  /\ IsFiniteSet(S) /\ Cardinality(S) \in Nat
         /\ \E s \in [1 .. Cardinality(S) -> S] :
              /\ \A j, k \in 1 .. Cardinality(S) : j < k => s[j] < s[k]
              /\ \A e \in S : \E k \in 1 .. Cardinality(S) : s[k] = e
<1> DEFINE Ordered(T, s) == /\ \A j, k \in 1 .. Cardinality(T) : j < k => s[j] < s[k]
                            /\ \A e \in T : \E k \in 1 .. Cardinality(T) : s[k] = e
           Listable(T) == /\ IsFiniteSet(T) /\ Cardinality(T) \in Nat
                          /\ \E s \in [1 .. Cardinality(T) -> T] : Ordered(T, s)
           reached == {m \in 0 .. n : \A T \in SUBSET (1 .. m) : Listable(T)}
<1>1. 0 \in reached
  <2>1. ASSUME NEW T \in SUBSET (1 .. 0)
        PROVE  Listable(T)
    <3>1. T = {} /\ IsFiniteSet(T) /\ Cardinality(T) = 0
      <4>1. T = {}
        OBVIOUS
      <4> HIDE DEF Listable
      <4> QED BY <4>1, FS_EmptySet
    <3>2. [k \in 1 .. 0 |-> 0] \in [1 .. Cardinality(T) -> T]
      BY <3>1
    <3>3. Ordered(T, [k \in 1 .. 0 |-> 0])
      BY <3>1
    <3>4. Cardinality(T) \in Nat
      BY <3>1
    <3> HIDE DEF Ordered
    <3> QED BY <3>1, <3>2, <3>3, <3>4
  <2> HIDE DEF Listable
  <2> QED BY <2>1
<1>2. ASSUME NEW m \in 1 .. n, m - 1 \in reached
      PROVE  m \in reached
  <2>1. ASSUME NEW T \in SUBSET (1 .. m)
        PROVE  Listable(T)
    <3> DEFINE U == T \ {m}
    <3>1. U \in SUBSET (1 .. m - 1)
      <4>1. \A e \in 1 .. m : e # m => e \in 1 .. m - 1
        OBVIOUS
      <4> QED BY <4>1
    <3>2. Listable(U)
      <4> HIDE DEF Listable, U
      <4> QED BY <1>2, <3>1
    <3>3. CASE m \notin T
      <4>1. U = T
        BY <3>3
      <4> HIDE DEF Listable, U
      <4> QED BY <3>2, <4>1
    <3>4. CASE m \in T
      <4> DEFINE c == Cardinality(U)
      <4>1. IsFiniteSet(U) /\ c \in Nat
        BY <3>2
      <4>2. IsFiniteSet(T) /\ Cardinality(T) = c + 1
        <5>1. m \notin U /\ T = U \cup {m}
          BY <3>4
        <5> HIDE DEF U
        <5> QED BY <4>1, <5>1, FS_AddElement
      <4>3. PICK u \in [1 .. c -> U] : Ordered(U, u)
        BY <3>2
      <4>4. /\ \A j, k \in 1 .. c : j < k => u[j] < u[k]
            /\ \A e \in U : \E k \in 1 .. c : u[k] = e
        BY <4>3
      <4>5. \A k \in 1 .. c : u[k] \in T /\ u[k] < m /\ u[k] \in Int
        <5>1. \A e \in U : e \in T /\ e < m /\ e \in Int
          BY <3>1
        <5> QED BY <5>1
      <4> DEFINE t == [k \in 1 .. c + 1 |-> IF k = c + 1 THEN m ELSE u[k]]
      <4>6. \A k \in 1 .. c + 1 : k = c + 1 \/ k \in 1 .. c
        BY <4>1
      <4> HIDE DEF c, U, Ordered
      <4>7. t \in [1 .. c + 1 -> T]
        BY <3>4, <4>5, <4>6
      <4>8. \A j, k \in 1 .. c + 1 : j < k => t[j] < t[k]
        <5> SUFFICES ASSUME NEW j \in 1 .. c + 1, NEW k \in 1 .. c + 1, j < k
                     PROVE  t[j] < t[k]
          OBVIOUS
        <5>1. j \in 1 .. c /\ t[j] = u[j]
          BY <4>1
        <5>2. CASE k = c + 1
          BY <4>5, <5>1, <5>2
        <5>3. CASE k # c + 1
          <6>1. k \in 1 .. c /\ t[k] = u[k]
            BY <4>6, <5>3
          <6> QED BY <4>4, <5>1, <6>1
        <5> QED BY <5>2, <5>3
      <4>9. ASSUME NEW e \in T
            PROVE  \E k \in 1 .. c + 1 : t[k] = e
        <5>1. CASE e = m
          <6>1. c + 1 \in 1 .. c + 1
            BY <4>1
          <6> QED BY <5>1, <6>1
        <5>2. CASE e # m
          <6>1. PICK k \in 1 .. c : u[k] = e
            BY <4>4, <5>2 DEF U
          <6>2. k \in 1 .. c + 1 /\ k # c + 1
            BY <4>1
          <6> QED BY <6>1, <6>2
        <5> QED BY <5>1, <5>2
      <4> HIDE DEF t
      <4>10. Ordered(T, t)
        BY <4>2, <4>8, <4>9 DEF Ordered
      <4> QED BY <4>1, <4>2, <4>7, <4>10
    <3> QED BY <3>3, <3>4
  <2> HIDE DEF Listable
  <2> QED BY <2>1
<1>3. n \in reached
  <2> HIDE DEF reached
  <2>1. \A k \in 0 .. n : k \in reached
    BY <1>1, <1>2, UpTo
  <2> QED BY <2>1
<1>4. Listable(S)
  <2> HIDE DEF Listable
  <2> QED BY <1>3
<1> QED BY <1>4

----------------------------------------------------------------------------
(* An element is put in at place q. *)
LEMMA InsertAtFacts ==
  ASSUME NEW S, NEW s \in Seq(S), NEW q \in 1 .. Len(s) + 1, NEW e \in S
  PROVE  /\ InsertAt(s, q, e) \in Seq(S) /\ Len(InsertAt(s, q, e)) = Len(s) + 1
         /\ \A j \in 1 .. Len(s) + 1 :
              InsertAt(s, q, e)[j] = IF j < q THEN s[j] ELSE IF j = q THEN e ELSE s[j - 1]
<1> DEFINE n == Len(s)
           left == SubSeq(s, 1, q - 1)
           right == SubSeq(s, q, n)
           mid == <<e>>
<1>1. n \in Nat /\ q \in Int /\ q >= 1 /\ q <= n + 1
  BY LenProperties
<1>2. \A j \in 1 .. n : s[j] \in S
  BY ElementOfSeq
<1>3. /\ left \in Seq(S) /\ Len(left) = q - 1
      /\ \A j \in 1 .. q - 1 : left[j] = s[j]
  <2>1. q - 1 \in Int /\ 1 \in Int /\ \A j \in 1 .. q - 1 : s[j] \in S
    BY <1>1, <1>2
  <2>2. /\ left \in Seq(S) /\ Len(left) = IF 1 <= q - 1 THEN q - 1 - 1 + 1 ELSE 0
        /\ \A j \in 1 .. q - 1 - 1 + 1 : left[j] = s[1 + j - 1]
    BY <2>1, SubSeqProperties
  <2> QED BY <1>1, <2>2
<1>4. /\ right \in Seq(S) /\ Len(right) = n - q + 1
      /\ \A j \in 1 .. n - q + 1 : right[j] = s[q + j - 1]
  <2>1. q \in Int /\ n \in Int /\ \A j \in q .. n : s[j] \in S
    BY <1>1, <1>2
  <2>2. /\ right \in Seq(S) /\ Len(right) = IF q <= n THEN n - q + 1 ELSE 0
        /\ \A j \in 1 .. n - q + 1 : right[j] = s[q + j - 1]
    BY <2>1, SubSeqProperties
  <2> QED BY <1>1, <2>2
<1>5. mid \in Seq(S) /\ Len(mid) = 1 /\ mid[1] = e
  OBVIOUS
<1> HIDE DEF left, right, mid
<1>6. /\ left \o mid \in Seq(S) /\ Len(left \o mid) = q
      /\ \A j \in 1 .. q : (left \o mid)[j] = IF j < q THEN s[j] ELSE e
  <2>1. /\ left \o mid \in Seq(S) /\ Len(left \o mid) = Len(left) + Len(mid)
        /\ \A j \in 1 .. Len(left) + Len(mid) :
             (left \o mid)[j] = IF j <= Len(left) THEN left[j] ELSE mid[j - Len(left)]
    BY <1>3, <1>5, ConcatProperties
  <2> QED BY <1>1, <1>3, <1>5, <2>1
<1> DEFINE first == left \o mid
<1> HIDE DEF first
<1>7. /\ first \o right \in Seq(S) /\ Len(first \o right) = n + 1
      /\ \A j \in 1 .. n + 1 :
           (first \o right)[j] = IF j < q THEN s[j] ELSE IF j = q THEN e ELSE s[j - 1]
  <2>1. first \in Seq(S) /\ Len(first) = q /\ \A j \in 1 .. q : first[j] = IF j < q THEN s[j] ELSE e
    BY <1>6 DEF first
  <2>2. /\ first \o right \in Seq(S) /\ Len(first \o right) = Len(first) + Len(right)
        /\ \A j \in 1 .. Len(first) + Len(right) :
             (first \o right)[j] = IF j <= Len(first) THEN first[j] ELSE right[j - Len(first)]
    BY <1>4, <2>1, ConcatProperties
  <2>3. Len(first) + Len(right) = n + 1
    BY <1>1, <1>4, <2>1
  <2>4. ASSUME NEW j \in 1 .. n + 1
        PROVE  (first \o right)[j] = IF j < q THEN s[j] ELSE IF j = q THEN e ELSE s[j - 1]
    <3>1. CASE j <= q
      BY <1>1, <2>1, <2>2, <2>3, <3>1
    <3>2. CASE j > q
      <4>1. (first \o right)[j] = right[j - q] /\ j - q \in 1 .. n - q + 1
        BY <1>1, <2>1, <2>2, <2>3, <3>2
      <4>2. right[j - q] = s[j - 1]
        <5>1. right[j - q] = s[q + (j - q) - 1] /\ q + (j - q) - 1 = j - 1
          BY <1>1, <1>4, <4>1
        <5> QED BY <5>1
      <4> QED BY <1>1, <3>2, <4>1, <4>2
    <3>3. j <= q \/ j > q
      BY <1>1
    <3> QED BY <3>1, <3>2, <3>3
  <2> QED BY <2>2, <2>3, <2>4
<1>8. InsertAt(s, q, e) = first \o right
  BY DEF InsertAt, first, left, mid, right
<1> QED BY <1>7, <1>8

(* An element is taken out of place q.                                     *)
LEMMA RemoveAtFacts ==
  ASSUME NEW S, NEW s \in Seq(S), NEW q \in 1 .. Len(s)
  PROVE  /\ RemoveAt(s, q) \in Seq(S) /\ Len(RemoveAt(s, q)) = Len(s) - 1
         /\ \A j \in 1 .. Len(s) - 1 : RemoveAt(s, q)[j] = IF j < q THEN s[j] ELSE s[j + 1]
<1> DEFINE n == Len(s)
           left == SubSeq(s, 1, q - 1)
           right == SubSeq(s, q + 1, n)
<1>1. n \in Nat /\ q \in Int /\ q >= 1 /\ q <= n
  BY LenProperties
<1>2. \A j \in 1 .. n : s[j] \in S
  BY ElementOfSeq
<1>3. /\ left \in Seq(S) /\ Len(left) = q - 1
      /\ \A j \in 1 .. q - 1 : left[j] = s[j]
  <2>1. q - 1 \in Int /\ 1 \in Int /\ \A j \in 1 .. q - 1 : s[j] \in S
    BY <1>1, <1>2
  <2>2. /\ left \in Seq(S) /\ Len(left) = IF 1 <= q - 1 THEN q - 1 - 1 + 1 ELSE 0
        /\ \A j \in 1 .. q - 1 - 1 + 1 : left[j] = s[1 + j - 1]
    BY <2>1, SubSeqProperties
  <2> QED
    BY <1>1, <2>2
<1>4. /\ right \in Seq(S) /\ Len(right) = n - q
      /\ \A j \in 1 .. n - q : right[j] = s[q + j]
  <2>1. q + 1 \in Int /\ n \in Int /\ \A j \in q + 1 .. n : s[j] \in S
    BY <1>1, <1>2
  <2>2. /\ right \in Seq(S) /\ Len(right) = IF q + 1 <= n THEN n - (q + 1) + 1 ELSE 0
        /\ \A j \in 1 .. n - (q + 1) + 1 : right[j] = s[(q + 1) + j - 1]
    BY <2>1, SubSeqProperties
  <2> QED
    BY <1>1, <2>2
<1> HIDE DEF left, right
<1>5. /\ left \o right \in Seq(S) /\ Len(left \o right) = n - 1
      /\ \A j \in 1 .. n - 1 : (left \o right)[j] = IF j < q THEN s[j] ELSE s[j + 1]
  <2>1. /\ left \o right \in Seq(S) /\ Len(left \o right) = Len(left) + Len(right)
        /\ \A j \in 1 .. Len(left) + Len(right) :
             (left \o right)[j] = IF j <= Len(left) THEN left[j] ELSE right[j - Len(left)]
    BY <1>3, <1>4, ConcatProperties
  <2>2. Len(left) + Len(right) = n - 1
    BY <1>1, <1>3, <1>4
  <2>3. ASSUME NEW j \in 1 .. n - 1
        PROVE  (left \o right)[j] = IF j < q THEN s[j] ELSE s[j + 1]
    <3>1. CASE j < q
      BY <1>1, <1>3, <2>1, <2>2, <3>1
    <3>2. CASE ~(j < q)
      <4>1. (left \o right)[j] = right[j - (q - 1)] /\ j - (q - 1) \in 1 .. n - q
        BY <1>1, <1>3, <2>1, <2>2, <3>2
      <4>2. right[j - (q - 1)] = s[q + (j - (q - 1))] /\ q + (j - (q - 1)) = j + 1
        BY <1>1, <1>4, <4>1
      <4> QED
        BY <3>2, <4>1, <4>2
    <3> QED
      BY <3>1, <3>2
  <2> QED
    BY <2>1, <2>2, <2>3
<1>6. RemoveAt(s, q) = left \o right
  BY DEF RemoveAt, left, right
<1> QED
  BY <1>5, <1>6

----------------------------------------------------------------------------
(* Rows with a position, which can be given another one.                   *)
HavePositions(R) ==
  \A r \in R, p \in Int :
    /\ r.position \in Int
    /\ [r EXCEPT !.position = p] \in R /\ [r EXCEPT !.position = p].position = p

(* Each row has a position of its own in 1 .. n.                           *)
Dense(tbl) ==
  /\ \A i \in DOMAIN tbl : tbl[i].position \in 1 .. Cardinality(DOMAIN tbl)
  /\ \A i, j \in DOMAIN tbl : tbl[i].position = tbl[j].position => i = j

(* The places the rows are to have: their order by position, with nothing  *)
(* between a row's position and its place that would be counted with one   *)
(* and not with the other, whether the other row has been renumbered yet   *)
(* or not.                                                                 *)
Ranks(tbl, rank) ==
  /\ rank \in [DOMAIN tbl -> 1 .. Cardinality(DOMAIN tbl)]
  /\ \A i, j \in DOMAIN tbl : rank[i] = rank[j] => i = j
  /\ \A i, j \in DOMAIN tbl : i # j =>
       /\ tbl[j].position < tbl[i].position <=> rank[j] < rank[i]
       /\ rank[j] < tbl[i].position <=> rank[j] < rank[i]

Renumberable(tbl) == \E rank \in [DOMAIN tbl -> 1 .. Cardinality(DOMAIN tbl)] : Ranks(tbl, rank)

----------------------------------------------------------------------------
(* Max is one of a bounded set of numbers, and none is above it.           *)
LEMMA MaxOf ==
  ASSUME NEW n \in Nat, NEW S \in SUBSET (0 .. n), S # {}
  PROVE  Max(S) \in S /\ \A k \in S : k <= Max(S)
<1>1. \E m \in S : \A k \in S : k <= m
  BY GreatestNatural
<1>2. \A m, k \in S : m >= k <=> k <= m
  OBVIOUS
<1>3. \E m \in S : \A k \in S : m >= k
  BY <1>1, <1>2
<1>4. Max(S) \in S /\ \A k \in S : Max(S) >= k
  BY <1>3, Zenon DEF Max
<1> QED BY <1>2, <1>4

(* So has the set of the positions in a table, which may be negative.      *)
LEMMA MaxOfPositions ==
  ASSUME NEW n \in Nat, NEW D \in SUBSET (1 .. n), NEW R, HavePositions(R), NEW tbl \in [D -> R],
         NEW k \in Int
  PROVE  /\ Highest(tbl, k) \in Int /\ k <= Highest(tbl, k)
         /\ \A j \in D : tbl[j].position <= Highest(tbl, k)
         /\ \A b \in Int : k <= b /\ (\A j \in D : tbl[j].position <= b) => Highest(tbl, k) <= b
<1> DEFINE S == {tbl[j].position : j \in D} \cup {k}
           Top(i, m) == m \in S /\ k <= m /\ \A j \in D : j <= i => tbl[j].position <= m
           bounded == {i \in 0 .. n : \E m \in Int : Top(i, m)}
<1>1. \A j \in D : j \in 1 .. n /\ tbl[j].position \in Int /\ tbl[j].position \in S
  BY DEF HavePositions
<1>2. Top(0, k)
  <2>1. k \in S /\ k <= k
    OBVIOUS
  <2>2. \A j \in D : ~(j <= 0)
    BY <1>1
  <2> QED
    BY <2>1, <2>2
<1>3. ASSUME NEW i \in 1 .. n, i - 1 \in bounded
      PROVE  i \in bounded
  <2>1. PICK m \in Int : Top(i - 1, m)
    BY <1>3
  <2>2. \A j \in D : j <= i => j <= i - 1 \/ j = i
    BY <1>1
  <2>3. CASE i \in D /\ m < tbl[i].position
    <3> DEFINE p == tbl[i].position
    <3>1. p \in Int /\ p \in S /\ m < p
      BY <1>1, <2>3
    <3>2. \A j \in D : j <= i => tbl[j].position <= p
      BY <1>1, <2>1, <2>2, <3>1
    <3>3. k <= p
      BY <2>1, <3>1
    <3> QED
      BY <3>1, <3>2, <3>3
  <2>4. CASE ~(i \in D /\ m < tbl[i].position)
    <3>1. \A j \in D : j <= i => tbl[j].position <= m
      BY <1>1, <2>1, <2>2, <2>4
    <3> QED
      BY <2>1, <3>1
  <2> QED
    BY <2>3, <2>4
<1>4. n \in bounded
  <2>1. 0 \in bounded
    BY <1>2
  <2> HIDE DEF bounded
  <2> QED
    BY <1>3, <2>1, UpTo
<1>5. PICK m \in Int : Top(n, m)
  BY <1>4
<1>6. \A x \in S : x \in Int /\ x <= m
  BY <1>1, <1>5
<1>7. \E x \in S : \A y \in S : x >= y
  BY <1>5, <1>6
<1>8. Max(S) \in S /\ \A y \in S : Max(S) >= y
  <2> HIDE DEF S
  <2> QED
    BY <1>7, Zenon DEF Max
<1>9. Max(S) \in Int /\ k \in S /\ \A y \in S : y <= Max(S)
  BY <1>6, <1>8
<1>10. Highest(tbl, k) = Max(S)
  BY DEF Highest
<1>11. Max(S) = k \/ \E j \in D : Max(S) = tbl[j].position
  BY <1>8
<1>12. \A b \in Int : k <= b /\ (\A j \in D : tbl[j].position <= b) => Max(S) <= b
  BY <1>11
<1> QED
  BY <1>1, <1>9, <1>10, <1>12

(* A new idx is not in the table.                                          *)
LEMMA NewIdxFacts ==
  ASSUME NEW n \in Nat, NEW tbl, DOMAIN tbl \subseteq 1 .. n
  PROVE  NewIdx(tbl) \in 1 .. n + 1 /\ \A i \in DOMAIN tbl : i < NewIdx(tbl)
<1> DEFINE S == DOMAIN tbl \cup {0}
<1>1. S \in SUBSET (0 .. n) /\ S # {}
  OBVIOUS
<1>2. Max(S) \in 0 .. n /\ \A k \in S : k <= Max(S)
  <2> HIDE DEF S
  <2> QED BY <1>1, MaxOf
<1>3. NewIdx(tbl) = 1 + Max(S)
  BY DEF NewIdx
<1> QED BY <1>2, <1>3

(* Where the UPDATE puts row i: it counts the rows before it at their new  *)
(* positions and the rows after it at their old ones.                      *)
PlaceOf(tbl, t, i) ==
  1 + Cardinality({j \in DOMAIN tbl : (IF j < i THEN t[j] ELSE tbl[j]).position < tbl[i].position})

(* The UPDATE does that to every row and nothing else.                     *)
LEMMA RenumberedRows ==
  ASSUME NEW n \in Nat, NEW D \in SUBSET (1 .. n), NEW R, HavePositions(R), NEW tbl \in [D -> R]
  PROVE  /\ Renumbered(tbl) \in [D -> R]
         /\ \A i \in D : Renumbered(tbl)[i] =
                          [tbl[i] EXCEPT !.position = PlaceOf(tbl, Renumbered(tbl), i)]
<1> DEFINE last == Max(D \cup {0})
           Before(t, i) == Cardinality({j \in D : t[j].position < t[i].position})
           Set(t, k) == IF k \in D THEN [t EXCEPT ![k].position = 1 + Before(t, k)] ELSE t
           Body(f) == [k \in 0 .. last |->
                         IF k = 0 THEN tbl
                         ELSE IF k \in D THEN [f[k - 1] EXCEPT ![k].position = 1 + Before(f[k - 1], k)]
                         ELSE f[k - 1]]
           S == [D -> R]
           step == [k \in 1 .. last |-> [t \in S |-> Set(t, k)]]
<1>1. last \in 0 .. n /\ \A i \in D : i <= last
  <2>1. D \cup {0} \in SUBSET (0 .. n) /\ D \cup {0} # {}
    OBVIOUS
  <2> QED BY <2>1, MaxOf
<1> HIDE DEF last
<1>2. ASSUME NEW t \in S, NEW i \in D
      PROVE  Before(t, i) \in Nat
  <2> DEFINE counted == {j \in D : t[j].position < t[i].position}
  <2>1. counted \in SUBSET (1 .. n)
    OBVIOUS
  <2>2. Cardinality(counted) \in Nat
    <3> HIDE DEF counted
    <3> QED BY <2>1, Enumeration
  <2> QED BY <2>2
<1> HIDE DEF Before
<1>3. ASSUME NEW t \in S, NEW k \in D
      PROVE  /\ Set(t, k) \in S /\ \A i \in D : i # k => Set(t, k)[i] = t[i]
             /\ Set(t, k)[k] = [t[k] EXCEPT !.position = 1 + Before(t, k)]
  <2>1. Before(t, k) \in Nat
    BY <1>2
  <2>2. [t[k] EXCEPT !.position = 1 + Before(t, k)] \in R
    <3> DEFINE r == t[k]
               p == 1 + Before(t, k)
    <3>1. r \in R /\ p \in Int
      BY <2>1
    <3> HIDE DEF r, p
    <3>2. [r EXCEPT !.position = p] \in R
      BY <3>1 DEF HavePositions
    <3> QED BY <3>2 DEF r, p
  <2> QED BY <2>2
<1>4. step \in [1 .. last -> [S -> S]]
  <2>1. ASSUME NEW t \in S, NEW k \in 1 .. last
        PROVE  Set(t, k) \in S
    <3>1. CASE k \in D
      BY <1>3, <3>1
    <3>2. CASE k \notin D
      BY <3>2
    <3> QED BY <3>1, <3>2
  <2> HIDE DEF Set, S
  <2> QED BY <2>1
<1>5. \E f : f = Body(f)
  <2> HIDE DEF Body, S, step
  <2>1. Iterations(last, S, tbl, step) # {}
    <3>1. last \in Nat /\ tbl \in S
      BY <1>1 DEF S
    <3> HIDE DEF Set
    <3> QED BY <1>4, <3>1, Recursion
  <2>2. PICK f \in [0 .. last -> S] : f[0] = tbl /\ \A k \in 1 .. last : f[k] = step[k][f[k - 1]]
    BY <2>1 DEF Iterations
  <2>3. ASSUME NEW k \in 1 .. last
        PROVE  f[k] = Set(f[k - 1], k)
    <3>1. k - 1 \in 0 .. last
      BY <1>1
    <3>2. f[k - 1] \in S
      BY <2>2, <3>1
    <3> HIDE DEF Set
    <3> QED BY <2>2, <3>2 DEF step
  <2>4. f = [k \in 0 .. last |-> f[k]]
    BY <2>2
  <2>5. ASSUME NEW k \in 0 .. last
        PROVE  f[k] = IF k = 0 THEN tbl
                      ELSE IF k \in D THEN [f[k - 1] EXCEPT ![k].position = 1 + Before(f[k - 1], k)]
                      ELSE f[k - 1]
    <3>1. k = 0 \/ k \in 1 .. last
      BY <1>1
    <3> QED BY <2>2, <2>3, <3>1
  <2>6. f = Body(f)
    BY <2>4, <2>5 DEF Body
  <2> QED BY <2>6
<1> DEFINE after == CHOOSE f : f = Body(f)
<1>6. Renumbered(tbl) = after[last]
  BY Zenon DEF Renumbered, last, Before
<1>7. after = Body(after)
  <2> HIDE DEF Body
  <2> QED BY <1>5, Zenon
<1> HIDE DEF after
<1>8. /\ after[0] = tbl
      /\ \A k \in 1 .. last : after[k] = Set(after[k - 1], k)
  <2>1. \A k \in 0 .. last :
          after[k] = IF k = 0 THEN tbl
                     ELSE IF k \in D THEN [after[k - 1] EXCEPT ![k].position = 1 + Before(after[k - 1], k)]
                     ELSE after[k - 1]
    BY <1>7
  <2>2. 0 \in 0 .. last /\ \A k \in 1 .. last : k \in 0 .. last /\ k # 0
    BY <1>1
  <2> QED BY <2>1, <2>2
<1> HIDE DEF Set
<1> DEFINE Position(t, i, j) == (IF j < i THEN t[j] ELSE tbl[j]).position
           Counted(t, i) == {j \in D : Position(t, i, j) < tbl[i].position}
           Done(k) == /\ after[k] \in S
                      /\ \A i \in D :
                           after[k][i] = IF i > k THEN tbl[i]
                                         ELSE [tbl[i] EXCEPT !.position =
                                                 1 + Cardinality(Counted(after[k], i))]
           done == {k \in 0 .. last : Done(k)}
<1>9. D \subseteq Int /\ last \in Nat
  BY <1>1
<1>10. 0 \in done
  <2>1. \A i \in D : i > 0
    OBVIOUS
  <2> QED BY <1>8, <1>9, <2>1
<1>11. ASSUME NEW k \in 1 .. last, k - 1 \in done
       PROVE  k \in done
  <2> DEFINE t == after[k - 1]
             u == after[k]
  <2>1. /\ t \in S
        /\ \A i \in D : t[i] = IF i > k - 1 THEN tbl[i]
                              ELSE [tbl[i] EXCEPT !.position = 1 + Cardinality(Counted(t, i))]
    BY <1>11
  <2>2. u = Set(t, k)
    BY <1>8
  <2> HIDE DEF t, u
  <2>3. CASE k \in D
    <3>1. /\ u \in S /\ \A i \in D : i # k => u[i] = t[i]
          /\ u[k] = [t[k] EXCEPT !.position = 1 + Before(t, k)]
      BY <1>3, <2>1, <2>2, <2>3
    <3>2. ASSUME NEW i \in D, i <= k
          PROVE  Counted(u, i) = Counted(t, i)
      <4>1. \A j \in D : j < i => j # k
        BY <1>9, <3>2
      <4>2. \A j \in D : Position(u, i, j) = Position(t, i, j)
        BY <3>1, <4>1
      <4> HIDE DEF Position
      <4> QED BY <4>2
    <3>3. Before(t, k) = Cardinality(Counted(t, k))
      <4>1. t[k] = tbl[k]
        <5>1. k > k - 1
          BY <1>9
        <5> QED BY <2>1, <2>3, <5>1
      <4>2. ASSUME NEW j \in D
            PROVE  t[j].position = Position(t, k, j)
        <5>1. CASE j < k
          BY <5>1
        <5>2. CASE ~(j < k)
          <6>1. j > k - 1
            BY <1>9, <5>2
          <6> QED BY <2>1, <5>2, <6>1
        <5> QED BY <5>1, <5>2
      <4>3. {j \in D : t[j].position < t[k].position} = Counted(t, k)
        <5> HIDE DEF Position
        <5> QED BY <4>1, <4>2
      <4> HIDE DEF Counted
      <4> QED BY <4>3 DEF Before
    <3> HIDE DEF Counted
    <3>4. ASSUME NEW i \in D
          PROVE  u[i] = IF i > k THEN tbl[i]
                        ELSE [tbl[i] EXCEPT !.position = 1 + Cardinality(Counted(u, i))]
      <4>1. CASE i > k
        <5>1. i # k /\ i > k - 1
          BY <1>9, <4>1
        <5> QED BY <2>1, <3>1, <4>1, <5>1
      <4>2. CASE i = k
        <5>1. ~(i > k) /\ i <= k /\ i > k - 1
          BY <1>9, <4>2
        <5>2. t[i] = tbl[i]
          BY <2>1, <5>1
        <5> QED BY <3>1, <3>2, <3>3, <4>2, <5>1, <5>2
      <4>3. CASE i < k
        <5>1. ~(i > k) /\ i <= k /\ ~(i > k - 1) /\ i # k
          BY <1>9, <4>3
        <5> QED BY <2>1, <3>1, <3>2, <5>1
      <4>4. i > k \/ i = k \/ i < k
        BY <1>9
      <4> QED BY <4>1, <4>2, <4>3, <4>4
    <3>5. Done(k)
      BY <3>1, <3>4 DEF u
    <3> QED BY <1>1, <3>5
  <2>4. CASE k \notin D
    <3>1. u = t
      BY <2>2, <2>4 DEF Set
    <3>2. \A i \in D : i > k <=> i > k - 1
      BY <1>9, <2>4
    <3> HIDE DEF Counted
    <3>3. Done(k)
      BY <2>1, <3>1, <3>2 DEF u
    <3> QED BY <1>1, <3>3
  <2> QED BY <2>3, <2>4
<1>12. last \in done
  <2> HIDE DEF done
  <2>1. \A k \in 0 .. last : k \in done
    BY <1>9, <1>10, <1>11, UpTo
  <2> QED BY <1>9, <2>1
<1>13. \A i \in D : ~(i > last)
  BY <1>1, <1>9
<1>14. after[last] \in S /\ \A i \in D :
         after[last][i] = [tbl[i] EXCEPT !.position = 1 + Cardinality(Counted(after[last], i))]
  BY <1>12, <1>13
<1>15. \A i \in D : 1 + Cardinality(Counted(after[last], i)) = PlaceOf(tbl, after[last], i)
  BY DEF PlaceOf
<1> HIDE DEF Counted
<1> QED BY <1>6, <1>14, <1>15
----------------------------------------------------------------------------
(* n places for n rows: every place is taken, and v - 1 of them are below  *)
(* the v-th.                                                               *)
LEMMA RankCount ==
  ASSUME NEW D, IsFiniteSet(D), NEW rank \in [D -> 1 .. Cardinality(D)],
         \A i, j \in D : rank[i] = rank[j] => i = j
  PROVE  \A v \in 1 .. Cardinality(D) :
           /\ \E i \in D : rank[i] = v
           /\ Cardinality({j \in D : rank[j] < v}) = v - 1
<1> DEFINE c == Cardinality(D)
           T(v) == {j \in D : rank[j] < v}
<1>1. c \in Nat
  BY FS_CardinalityType
<1> HIDE DEF c
<1>2. IsFiniteSet(1 .. c) /\ Cardinality(1 .. c) = c
  <2>1. 1 \in Int /\ c \in Int
    BY <1>1
  <2>2. IsFiniteSet(1 .. c) /\ Cardinality(1 .. c) = IF 1 > c THEN 0 ELSE c - 1 + 1
    BY <2>1, FS_Interval
  <2> QED BY <1>1, <2>2
<1>3. rank \in [D -> 1 .. c]
  BY DEF c
<1>4. rank \in Injection(D, 1 .. c)
  BY <1>3 DEF Injection, IsInjective
<1>5. rank \in Surjection(D, 1 .. c)
  <2>1. Cardinality(D) = Cardinality(1 .. c)
    BY <1>2 DEF c
  <2> QED BY <1>2, <1>4, <2>1, FS_Injection
<1>6. \A v \in 1 .. c : \E i \in D : rank[i] = v
  BY <1>5 DEF Surjection
<1>7. ASSUME NEW v \in 1 .. c
      PROVE  Cardinality(T(v)) = v - 1
  <2> DEFINE f == [j \in T(v) |-> rank[j]]
  <2>1. f \in [T(v) -> 1 .. v - 1]
    <3>1. \A j \in D : rank[j] < v => rank[j] \in 1 .. v - 1
      BY <1>1, <1>3
    <3> QED BY <3>1
  <2>2. \A a, b \in T(v) : f[a] = f[b] => a = b
    OBVIOUS
  <2>3. \A w \in 1 .. v - 1 : \E j \in T(v) : f[j] = w
    <3>1. \A w \in 1 .. v - 1 : w \in 1 .. c /\ w < v
      BY <1>1
    <3> QED BY <1>6, <3>1
  <2> DEFINE U == T(v)
  <2> HIDE DEF f, T
  <2>4. f \in Bijection(U, 1 .. v - 1)
    BY <2>1, <2>2, <2>3 DEF Bijection, Injection, Surjection, IsInjective
  <2>5. ExistsBijection(U, 1 .. v - 1)
    BY <2>4 DEF ExistsBijection
  <2>6. IsFiniteSet(U)
    <3>1. U \in SUBSET D
      BY DEF T
    <3> QED BY <3>1, FS_Subset
  <2>7. Cardinality(1 .. v - 1) = Cardinality(U)
    BY <2>5, <2>6, FS_Bijection
  <2>8. Cardinality(1 .. v - 1) = v - 1
    <3>1. 1 \in Int /\ v - 1 \in Int
      OBVIOUS
    <3>2. Cardinality(1 .. v - 1) = IF 1 > v - 1 THEN 0 ELSE v - 1 - 1 + 1
      BY <3>1, FS_Interval
    <3> QED BY <3>2
  <2> QED BY <2>7, <2>8
<1> QED BY <1>6, <1>7 DEF c

(* The renumbering gives the rows of an ordered table their places.        *)
LEMMA RenumberedRanks ==
  ASSUME NEW n \in Nat, NEW D \in SUBSET (1 .. n), NEW R, HavePositions(R), NEW tbl \in [D -> R],
         NEW rank, Ranks(tbl, rank)
  PROVE  \A i \in D : Renumbered(tbl)[i].position = rank[i]
<1> DEFINE c == Cardinality(D)
           t == Renumbered(tbl)
           Counted(i) == {j \in D : (IF j < i THEN t[j] ELSE tbl[j]).position < tbl[i].position}
           placed == {k \in 0 .. n : \A i \in D : i <= k => t[i].position = rank[i]}
<1>1. IsFiniteSet(D) /\ c \in Nat
  BY Enumeration
<1>2. \A i \in D : t[i] = [tbl[i] EXCEPT !.position = 1 + Cardinality(Counted(i))]
  <2>1. \A i \in D : t[i] = [tbl[i] EXCEPT !.position = PlaceOf(tbl, t, i)]
    BY RenumberedRows
  <2>2. \A i \in D : PlaceOf(tbl, t, i) = 1 + Cardinality(Counted(i))
    <3> HIDE DEF t
    <3> QED BY DEF PlaceOf
  <2> HIDE DEF t, Counted
  <2> QED BY <2>1, <2>2
<1>3. /\ rank \in [D -> 1 .. c] /\ DOMAIN tbl = D
      /\ \A i, j \in D : rank[i] = rank[j] => i = j
      /\ \A i, j \in D : i # j =>
           /\ tbl[j].position < tbl[i].position <=> rank[j] < rank[i]
           /\ rank[j] < tbl[i].position <=> rank[j] < rank[i]
  BY DEF Ranks
<1> HIDE DEF c, t
<1>4. \A i \in D : Cardinality({j \in D : rank[j] < rank[i]}) = rank[i] - 1
  <2>1. rank \in [D -> 1 .. Cardinality(D)] /\ \A i, j \in D : rank[i] = rank[j] => i = j
    BY <1>3 DEF c
  <2>2. \A v \in 1 .. Cardinality(D) :
          (\E i \in D : rank[i] = v) /\ Cardinality({j \in D : rank[j] < v}) = v - 1
    BY <1>1, <2>1, RankCount, Zenon
  <2> QED BY <2>1, <2>2
<1>5. \A i \in D : i \in Nat \ {0} /\ tbl[i].position \in Int /\ rank[i] \in Int
  <2>1. \A i \in D : i \in Nat \ {0} /\ tbl[i] \in R
    OBVIOUS
  <2>2. \A i \in D : rank[i] \in Int
    BY <1>1, <1>3
  <2> QED BY <2>1, <2>2 DEF HavePositions
<1>6. 0 \in placed
  BY <1>5
<1>7. ASSUME NEW k \in 1 .. n, k - 1 \in placed
      PROVE  k \in placed
  <2>1. ASSUME NEW i \in D, i <= k
        PROVE  t[i].position = rank[i]
    <3>1. \A j \in D : j < i => t[j].position = rank[j]
      <4>1. \A j \in D : j < i => j <= k - 1
        BY <1>5, <2>1
      <4> QED BY <1>7, <4>1
    <3>2. ASSUME NEW j \in D
          PROVE  (IF j < i THEN t[j] ELSE tbl[j]).position < tbl[i].position <=> rank[j] < rank[i]
      <4> DEFINE row == IF j < i THEN t[j] ELSE tbl[j]
      <4>1. row.position = tbl[j].position \/ (j # i /\ row.position = rank[j])
        <5>1. CASE j < i
          <6>1. row = t[j] /\ j # i
            BY <1>5, <5>1
          <6> QED BY <3>1, <5>1, <6>1
        <5>2. CASE ~(j < i)
          BY <5>2
        <5> QED BY <5>1, <5>2
      <4> HIDE DEF row
      <4>2. ASSUME j = i
            PROVE  row.position < tbl[i].position <=> rank[j] < rank[i]
        BY <1>5, <4>1, <4>2
      <4>3. ASSUME j # i
            PROVE  row.position < tbl[i].position <=> rank[j] < rank[i]
        BY <1>3, <4>1, <4>3
      <4>4. row.position < tbl[i].position <=> rank[j] < rank[i]
        BY <4>2, <4>3
      <4> QED BY <4>4 DEF row
    <3>3. Counted(i) = {j \in D : rank[j] < rank[i]}
      BY <3>2
    <3> HIDE DEF Counted
    <3>4. 1 + Cardinality(Counted(i)) = rank[i]
      BY <1>4, <1>5, <3>3
    <3>5. t[i] = [tbl[i] EXCEPT !.position = rank[i]]
      BY <1>2, <3>4
    <3>6. [tbl[i] EXCEPT !.position = rank[i]].position = rank[i]
      <4> DEFINE r == tbl[i]
                 p == rank[i]
      <4>1. r \in R /\ p \in Int
        BY <1>5
      <4> HIDE DEF r, p
      <4>2. [r EXCEPT !.position = p].position = p
        BY <4>1 DEF HavePositions
      <4> QED BY <4>2 DEF r, p
    <3> QED BY <3>5, <3>6
  <2> QED BY <2>1
<1>8. n \in placed
  <2> HIDE DEF placed
  <2>1. \A k \in 0 .. n : k \in placed
    BY <1>6, <1>7, UpTo
  <2> QED BY <2>1
<1>9. \A i \in D : i <= n
  BY <1>5
<1> QED BY <1>8, <1>9 DEF t

(* So it leaves a table whose positions are 1 .. n.                        *)
LEMMA RenumberedDense ==
  ASSUME NEW n \in Nat, NEW D \in SUBSET (1 .. n), NEW R, HavePositions(R), NEW tbl \in [D -> R],
         Renumberable(tbl)
  PROVE  /\ Renumbered(tbl) \in [D -> R] /\ Dense(Renumbered(tbl))
         /\ \E rank : Ranks(tbl, rank) /\ \A i \in D : Renumbered(tbl)[i].position = rank[i]
<1>1. PICK rank : Ranks(tbl, rank)
  BY DEF Renumberable
<1>2. Renumbered(tbl) \in [D -> R]
  BY RenumberedRows
<1>3. \A i \in D : Renumbered(tbl)[i].position = rank[i]
  BY <1>1, RenumberedRanks
<1>4. DOMAIN tbl = D
  OBVIOUS
<1> QED BY <1>1, <1>2, <1>3, <1>4 DEF Ranks, Dense

(* Which is what the pages and the matcher see.                            *)
LEMMA DensePositions ==
  ASSUME NEW tbl, IsFiniteSet(DOMAIN tbl), Dense(tbl)
  PROVE  {tbl[i].position : i \in DOMAIN tbl} = 1 .. Cardinality(DOMAIN tbl)
<1> DEFINE D == DOMAIN tbl
           rank == [i \in D |-> tbl[i].position]
<1>1. rank \in [D -> 1 .. Cardinality(D)] /\ \A i, j \in D : rank[i] = rank[j] => i = j
  BY DEF Dense
<1>2. \A i \in D : rank[i] = tbl[i].position
  OBVIOUS
<1> HIDE DEF D, rank
<1>3. \A v \in 1 .. Cardinality(D) : \E i \in D : rank[i] = v
  BY <1>1, RankCount DEF D
<1> QED BY <1>1, <1>2, <1>3 DEF D

(* A table in order stays so through the UPDATE.                           *)
LEMMA DenseRenumberable ==
  ASSUME NEW tbl, IsFiniteSet(DOMAIN tbl), Dense(tbl)
  PROVE  Renumberable(tbl)
<1> DEFINE D == DOMAIN tbl
           rank == [i \in D |-> tbl[i].position]
<1>1. rank \in [D -> 1 .. Cardinality(D)] /\ \A i, j \in D : rank[i] = rank[j] => i = j
  BY DEF Dense
<1>2. Ranks(tbl, rank)
  BY <1>1 DEF Ranks
<1> QED BY <1>1, <1>2 DEF Renumberable
----------------------------------------------------------------------------
(* Row j is one of those that make room, or close a gap.                   *)
Moves(tbl, lo, hi, but, j) == j # but /\ lo <= tbl[j].position /\ tbl[j].position <= hi

MovedBy(tbl, t, lo, hi, d, but) ==
  \A j \in DOMAIN tbl :
    /\ Moves(tbl, lo, hi, but, j) => /\ t[j] = [tbl[j] EXCEPT !.position = tbl[j].position + d]
                                     /\ t[j].position = tbl[j].position + d
    /\ ~Moves(tbl, lo, hi, but, j) => t[j] = tbl[j]

(* They move by d, and nothing else changes.                               *)
LEMMA ShiftedRows ==
  ASSUME NEW D, NEW R, HavePositions(R), NEW tbl \in [D -> R],
         NEW lo \in Int, NEW hi \in Int, NEW d \in Int, NEW but
  PROVE  /\ Shifted(tbl, lo, hi, d, but) \in [D -> R]
         /\ MovedBy(tbl, Shifted(tbl, lo, hi, d, but), lo, hi, d, but)
<1> DEFINE t == Shifted(tbl, lo, hi, d, but)
           M(j) == Moves(tbl, lo, hi, but, j)
<1>1. t = [j \in D |-> IF M(j) THEN [tbl[j] EXCEPT !.position = tbl[j].position + d] ELSE tbl[j]]
  BY DEF Shifted, Moves
<1> HIDE DEF t, M
<1>2. ASSUME NEW j \in D, M(j)
      PROVE  /\ t[j] = [tbl[j] EXCEPT !.position = tbl[j].position + d]
             /\ t[j].position = tbl[j].position + d /\ t[j] \in R
  <2> DEFINE r == tbl[j]
             p == tbl[j].position + d
  <2>1. r \in R
    OBVIOUS
  <2>2. p \in Int
    <3>1. 0 \in Int /\ tbl[j] \in R
      OBVIOUS
    <3>2. tbl[j].position \in Int
      BY <3>1 DEF HavePositions
    <3> QED BY <3>2
  <2>3. t[j] = [r EXCEPT !.position = p]
    BY <1>1, <1>2
  <2> HIDE DEF r, p
  <2>4. [r EXCEPT !.position = p] \in R /\ [r EXCEPT !.position = p].position = p
    BY <2>1, <2>2 DEF HavePositions
  <2> QED BY <2>3, <2>4 DEF r, p
<1>3. ASSUME NEW j \in D, ~M(j)
      PROVE  t[j] = tbl[j] /\ t[j] \in R
  BY <1>1, <1>3
<1>4. t \in [D -> R]
  BY <1>1, <1>2, <1>3
<1> QED BY <1>2, <1>3, <1>4 DEF t, M, MovedBy

(* Where a row put at position k of m gets in the end.                     *)
Clamped(k, m) == IF k = 0 THEN 1 ELSE IF k > m THEN m ELSE k

(* The other rows leave that place free.                                   *)
RoomFor(E, u, x, k) ==
  /\ \A j \in E \ {x} : /\ u[j].position \in 1 .. Cardinality(E)
                        /\ u[j].position # Clamped(k, Cardinality(E))
  /\ \A a, b \in E \ {x} : u[a].position = u[b].position => a = b

(* Then a row can be put anywhere.                                         *)
LEMMA PlacedRenumberable ==
  ASSUME NEW E, IsFiniteSet(E), NEW u, DOMAIN u = E, NEW x \in E, NEW k \in Nat, u[x].position = k,
         RoomFor(E, u, x, k)
  PROVE  Renumberable(u)
<1> DEFINE m == Cardinality(E)
           rank == [j \in E |-> IF j = x THEN Clamped(k, m) ELSE u[j].position]
<1>1. m \in Nat /\ m # 0
  BY FS_CardinalityType, FS_EmptySet
<1>2. /\ \A j \in E \ {x} : u[j].position \in 1 .. m /\ u[j].position # Clamped(k, m)
      /\ \A a, b \in E \ {x} : u[a].position = u[b].position => a = b
  BY DEF RoomFor
<1> HIDE DEF m
<1>3. rank[x] = Clamped(k, m) /\ \A j \in E \ {x} : rank[j] = u[j].position
  OBVIOUS
<1>4. Clamped(k, m) \in 1 .. m
  BY <1>1 DEF Clamped
<1>5. rank \in [E -> 1 .. m]
  BY <1>2, <1>4
<1> HIDE DEF rank
<1>6. ASSUME NEW j \in E \ {x}
      PROVE  /\ u[j].position < k <=> u[j].position < rank[x]
             /\ k < u[j].position <=> rank[x] < u[j].position
  <2> DEFINE v == u[j].position
             r == rank[x]
  <2>1. v \in 1 .. m /\ v # r /\ r = IF k = 0 THEN 1 ELSE IF k > m THEN m ELSE k
    BY <1>2, <1>3 DEF Clamped
  <2> HIDE DEF v, r
  <2>2. /\ v < k <=> v < r
        /\ k < v <=> r < v
    BY <1>1, <2>1
  <2> QED BY <2>2 DEF v, r
<1>7. \A a, b \in E : rank[a] = rank[b] => a = b
  BY <1>2, <1>3
<1>8. ASSUME NEW a \in E, NEW b \in E, a # b
      PROVE  /\ u[b].position < u[a].position <=> rank[b] < rank[a]
             /\ rank[b] < u[a].position <=> rank[b] < rank[a]
  <2>1. CASE a # x /\ b # x
    BY <1>3, <2>1
  <2>2. CASE a = x
    <3>1. b \in E \ {x}
      BY <1>8, <2>2
    <3> QED BY <1>3, <1>6, <2>2, <3>1
  <2>3. CASE b = x
    <3>1. a \in E \ {x}
      BY <1>8, <2>3
    <3> QED BY <1>3, <1>6, <2>3, <3>1
  <2> QED BY <2>1, <2>2, <2>3
<1>9. rank \in [DOMAIN u -> 1 .. Cardinality(DOMAIN u)] /\ Ranks(u, rank)
  BY <1>5, <1>7, <1>8 DEF Ranks, m
<1> QED BY <1>9 DEF Renumberable

(* A new row in front of, among or behind the others.                      *)
LEMMA AddRenumberable ==
  ASSUME NEW n \in Nat, NEW D \in SUBSET (1 .. n), NEW R, HavePositions(R), NEW tbl \in [D -> R],
         Dense(tbl), NEW k \in Nat, NEW top \in Int, \A j \in D : tbl[j].position <= top,
         NEW i \in Nat \ D, NEW row \in R, row.position = k
  PROVE  Renumberable(With(Shifted(tbl, k, top, 1, 0), i, row))
<1> DEFINE c == Cardinality(D)
           t == Shifted(tbl, k, top, 1, 0)
           u == With(t, i, row)
           E == D \cup {i}
<1>1. IsFiniteSet(D) /\ c \in Nat
  BY Enumeration
<1>2. IsFiniteSet(E) /\ Cardinality(E) = c + 1
  BY <1>1, FS_AddElement
<1>3. /\ \A j \in D : tbl[j].position \in 1 .. c
      /\ \A a, b \in D : tbl[a].position = tbl[b].position => a = b
  <2>1. DOMAIN tbl = D
    OBVIOUS
  <2> QED BY <2>1 DEF Dense
<1> HIDE DEF c
<1>4. k \in Int /\ 1 \in Int /\ \A j \in D : j # 0
  OBVIOUS
<1>5. t \in [D -> R] /\ MovedBy(tbl, t, k, top, 1, 0)
  <2> HIDE DEF u
  <2> QED BY <1>4, ShiftedRows
<1> HIDE DEF t
<1>6. ASSUME NEW j \in D
      PROVE  t[j].position = IF k <= tbl[j].position THEN tbl[j].position + 1 ELSE tbl[j].position
  <2>1. Moves(tbl, k, top, 0, j) <=> k <= tbl[j].position
    BY <1>4 DEF Moves
  <2> QED BY <1>5, <2>1 DEF MovedBy
<1>7. DOMAIN u = E /\ u[i].position = k /\ \A j \in D : u[j].position = t[j].position
  BY <1>5 DEF With
<1> HIDE DEF u
<1>8. ASSUME NEW j \in D
      PROVE  u[j].position \in 1 .. c + 1 /\ u[j].position # Clamped(k, c + 1)
  <2> DEFINE p == tbl[j].position
             v == u[j].position
  <2>1. p \in 1 .. c /\ v = IF k <= p THEN p + 1 ELSE p
    BY <1>3, <1>6, <1>7
  <2> HIDE DEF p, v
  <2>2. v \in 1 .. c + 1 /\ v # Clamped(k, c + 1)
    BY <1>1, <2>1 DEF Clamped
  <2> QED BY <2>2 DEF v
<1>9. ASSUME NEW a \in D, NEW b \in D, u[a].position = u[b].position
      PROVE  a = b
  <2> DEFINE p == tbl[a].position
             q == tbl[b].position
  <2>1. p \in 1 .. c /\ q \in 1 .. c /\ (p = q => a = b)
    BY <1>3
  <2>2. (IF k <= p THEN p + 1 ELSE p) = (IF k <= q THEN q + 1 ELSE q)
    BY <1>6, <1>7, <1>9
  <2> HIDE DEF p, q
  <2> QED BY <1>1, <2>1, <2>2
<1>10. i \in E /\ E \ {i} = D
  OBVIOUS
<1> HIDE DEF E
<1>11. RoomFor(E, u, i, k)
  BY <1>2, <1>8, <1>9, <1>10 DEF RoomFor
<1>12. Renumberable(u)
  BY <1>2, <1>7, <1>10, <1>11, PlacedRenumberable
<1> QED BY <1>12 DEF u, t

(* A row taken from its place and put at k, the rows between making room.  *)
LEMMA MoveRenumberable ==
  ASSUME NEW n \in Nat, NEW D \in SUBSET (1 .. n), NEW R, HavePositions(R), NEW tbl \in [D -> R],
         Dense(tbl), NEW k \in Nat, NEW x \in D, NEW row \in R, row.position = k
  PROVE  LET from == tbl[x].position
         IN  Renumberable(With(IF k < from THEN Shifted(tbl, k, from, 1, x)
                               ELSE Shifted(tbl, from, k, -1, x), x, row))
<1> DEFINE c == Cardinality(D)
           from == tbl[x].position
           t == IF k < from THEN Shifted(tbl, k, from, 1, x) ELSE Shifted(tbl, from, k, -1, x)
           u == With(t, x, row)
<1>1. IsFiniteSet(D) /\ c \in Nat
  BY Enumeration
<1>2. /\ \A j \in D : tbl[j].position \in 1 .. c
      /\ \A a, b \in D : tbl[a].position = tbl[b].position => a = b
  <2>1. DOMAIN tbl = D
    OBVIOUS
  <2> QED BY <2>1 DEF Dense
<1> HIDE DEF c
<1>3. from \in 1 .. c /\ from \in Int /\ k \in Int /\ 1 \in Int /\ -1 \in Int
  BY <1>1, <1>2
<1> HIDE DEF from
<1>4. /\ t \in [D -> R]
      /\ \A j \in D \ {x} :
           t[j].position = IF k < from
             THEN IF k <= tbl[j].position /\ tbl[j].position <= from
                    THEN tbl[j].position + 1 ELSE tbl[j].position
             ELSE IF from <= tbl[j].position /\ tbl[j].position <= k
                    THEN tbl[j].position - 1 ELSE tbl[j].position
  <2> HIDE DEF u
  <2>1. CASE k < from
    <3>1. t = Shifted(tbl, k, from, 1, x)
      BY <2>1
    <3> HIDE DEF t
    <3>2. t \in [D -> R] /\ MovedBy(tbl, t, k, from, 1, x)
      BY <1>3, <3>1, ShiftedRows
    <3>3. \A j \in D \ {x} :
            Moves(tbl, k, from, x, j) <=> k <= tbl[j].position /\ tbl[j].position <= from
      BY DEF Moves
    <3> QED BY <2>1, <3>2, <3>3 DEF MovedBy
  <2>2. CASE ~(k < from)
    <3>1. t = Shifted(tbl, from, k, -1, x)
      BY <2>2
    <3> HIDE DEF t
    <3>2. t \in [D -> R] /\ MovedBy(tbl, t, from, k, -1, x)
      BY <1>3, <3>1, ShiftedRows
    <3>3. \A j \in D \ {x} :
            Moves(tbl, from, k, x, j) <=> from <= tbl[j].position /\ tbl[j].position <= k
      BY DEF Moves
    <3>4. \A j \in D : tbl[j].position + (-1) = tbl[j].position - 1
      BY <1>1, <1>2
    <3> QED BY <2>2, <3>2, <3>3, <3>4 DEF MovedBy
  <2> QED BY <2>1, <2>2
<1> HIDE DEF t
<1>5. DOMAIN u = D /\ u[x].position = k /\ \A j \in D \ {x} : u[j].position = t[j].position
  BY <1>4 DEF With
<1> HIDE DEF u
<1> DEFINE After(p) == IF k < from THEN IF k <= p /\ p <= from THEN p + 1 ELSE p
                       ELSE IF from <= p /\ p <= k THEN p - 1 ELSE p
<1>6. \A j \in D \ {x} : /\ tbl[j].position \in 1 .. c /\ tbl[j].position # from
                        /\ u[j].position = After(tbl[j].position)
  BY <1>2, <1>4, <1>5 DEF from
<1>7. \A p \in 1 .. c : p # from => After(p) \in 1 .. c /\ After(p) # Clamped(k, c)
  BY <1>1, <1>3 DEF Clamped
<1>8. \A p, q \in 1 .. c : p # from /\ q # from /\ After(p) = After(q) => p = q
  BY <1>1, <1>3
<1> HIDE DEF After
<1>9. \A j \in D \ {x} : u[j].position \in 1 .. c /\ u[j].position # Clamped(k, c)
  BY <1>6, <1>7
<1>10. \A a, b \in D \ {x} : u[a].position = u[b].position => a = b
  BY <1>2, <1>6, <1>8
<1>11. RoomFor(D, u, x, k)
  BY <1>9, <1>10 DEF RoomFor, c
<1>12. Renumberable(u)
  BY <1>1, <1>5, <1>11, PlacedRenumberable
<1> QED BY <1>12 DEF u, t, from

(* A row taken out.                                                        *)
LEMMA DeleteRenumberable ==
  ASSUME NEW n \in Nat, NEW D \in SUBSET (1 .. n), NEW R, HavePositions(R), NEW tbl \in [D -> R],
         Dense(tbl), NEW x
  PROVE  Renumberable([j \in D \ {x} |-> tbl[j]])
<1> DEFINE c == Cardinality(D)
           E == D \ {x}
           u == [j \in E |-> tbl[j]]
           from == tbl[x].position
           rank == [j \in E |-> IF tbl[j].position < from THEN tbl[j].position
                                                         ELSE tbl[j].position - 1]
<1>1. IsFiniteSet(D) /\ c \in Nat
  BY Enumeration
<1>2. DOMAIN tbl = D
  OBVIOUS
<1>3. /\ \A j \in D : tbl[j].position \in 1 .. c
      /\ \A a, b \in D : tbl[a].position = tbl[b].position => a = b
  BY <1>2 DEF Dense
<1>4. CASE x \notin D
  <2>1. u = tbl
    BY <1>4
  <2> HIDE DEF u
  <2>2. Renumberable(tbl)
    BY <1>1, <1>2, DenseRenumberable
  <2> QED BY <2>1, <2>2 DEF u
<1>5. CASE x \in D
  <2>1. Cardinality(E) = c - 1
    BY <1>1, <1>5, FS_RemoveElement
  <2> HIDE DEF c
  <2>2. from \in 1 .. c /\ \A j \in E : tbl[j].position \in 1 .. c /\ tbl[j].position # from
    BY <1>3, <1>5
  <2>3. DOMAIN u = E /\ \A j \in E : u[j].position = tbl[j].position
    OBVIOUS
  <2> HIDE DEF from, u
  <2>4. \A j \in E : rank[j] = IF tbl[j].position < from THEN tbl[j].position
                                                        ELSE tbl[j].position - 1
    OBVIOUS
  <2>5. ASSUME NEW j \in E
        PROVE  rank[j] \in 1 .. c - 1
    <3> DEFINE p == tbl[j].position
    <3>1. p \in 1 .. c /\ p # from /\ rank[j] = IF p < from THEN p ELSE p - 1
      BY <2>2
    <3> HIDE DEF p, rank
    <3> QED BY <1>1, <2>2, <3>1
  <2>6. rank \in [E -> 1 .. c - 1]
    <3>1. rank = [j \in E |-> rank[j]]
      OBVIOUS
    <3> HIDE DEF rank
    <3> QED BY <2>5, <3>1
  <2> HIDE DEF rank, E
  <2>7. ASSUME NEW a \in E, NEW b \in E
        PROVE  /\ rank[a] = rank[b] => a = b
               /\ a # b => /\ u[b].position < u[a].position <=> rank[b] < rank[a]
                           /\ rank[b] < u[a].position <=> rank[b] < rank[a]
    <3> DEFINE p == tbl[a].position
               q == tbl[b].position
               r == rank[a]
               s == rank[b]
    <3>1. /\ p \in 1 .. c /\ q \in 1 .. c /\ p # from /\ q # from /\ (p = q => a = b)
          /\ r = IF p < from THEN p ELSE p - 1
          /\ s = IF q < from THEN q ELSE q - 1
          /\ u[a].position = p /\ u[b].position = q
      BY <1>3, <2>2, <2>3, <2>4 DEF E
    <3> HIDE DEF p, q, r, s
    <3>2. r = s => a = b
      BY <1>1, <2>2, <3>1
    <3>3. a # b => p # q
      BY <1>3 DEF p, q, E
    <3>4. p # q => /\ q < p <=> s < r
                   /\ s < p <=> s < r
      BY <1>1, <2>2, <3>1
    <3> QED BY <3>1, <3>2, <3>3, <3>4 DEF r, s
  <2>8. rank \in [DOMAIN u -> 1 .. Cardinality(DOMAIN u)] /\ Ranks(u, rank)
    BY <2>1, <2>3, <2>6, <2>7 DEF Ranks
  <2>9. Renumberable(u)
    BY <2>8 DEF Renumberable
  <2> QED BY <2>9 DEF u, E
<1> QED BY <1>4, <1>5
----------------------------------------------------------------------------
(* All this is a matter of the positions only.                             *)
SamePositions(t, u) ==
  DOMAIN t = DOMAIN u /\ \A i \in DOMAIN t : t[i].position = u[i].position

(* So is what follows from them.                                           *)
LEMMA SameOrder ==
  ASSUME NEW t, NEW u, SamePositions(t, u)
  PROVE  (Dense(t) => Dense(u)) /\ (Renumberable(t) => Renumberable(u))
<1>1. Dense(t) => Dense(u)
  BY DEF Dense, SamePositions
<1>2. ASSUME Renumberable(t)
      PROVE  Renumberable(u)
  <2>1. PICK rank : rank \in [DOMAIN t -> 1 .. Cardinality(DOMAIN t)] /\ Ranks(t, rank)
    BY <1>2 DEF Renumberable
  <2>2. Ranks(u, rank)
    BY <2>1 DEF Ranks, SamePositions
  <2> QED
    BY <2>2 DEF Renumberable, Ranks
<1> QED
  BY <1>1, <1>2

(* And one row may be written over.                                        *)
LEMMA SameOrderWith ==
  ASSUME NEW t, NEW u, SamePositions(t, u), NEW row
  PROVE  /\ NewIdx(t) = NewIdx(u)
         /\ \A i : Renumberable(With(t, i, row)) => Renumberable(With(u, i, row))
<1>1. NewIdx(t) = NewIdx(u)
  BY DEF NewIdx, SamePositions
<1>2. \A i : SamePositions(With(t, i, row), With(u, i, row))
  BY DEF With, SamePositions
<1> QED
  BY <1>1, <1>2, SameOrder

(* A row written over with one that has its position.                      *)
LEMMA DenseWith ==
  ASSUME NEW t, Dense(t), IsFiniteSet(DOMAIN t), NEW i \in DOMAIN t, NEW row,
         row.position = t[i].position
  PROVE  Renumberable(With(t, i, row))
<1>1. SamePositions(t, With(t, i, row))
  BY DEF With, SamePositions
<1> QED
  BY <1>1, SameOrder, DenseRenumberable
=============================================================================
