---------------------------- MODULE InboxProofs -----------------------------
(***************************************************************************)
(* Proofs about Inbox, for any number of boosts, sizes of pages, broken    *)
(* connections and changes of the filter, and any tie between two ids that *)
(* are as close to a third: the list, what is tracked of it, the effects.  *)
(***************************************************************************)
EXTENDS Inbox, OrderFacts, SequenceTheorems, FiniteSetTheorems, TLAPS

Boosts == Ids \ Others

Descending(s) == \A j, k \in DOMAIN s : j < k => s[j] > s[k]

(* What the page has and tracks, however many elements have been rendered. *)
PageOK(p) ==
  /\ p \in [shown : Seq(Boosts), ids : SUBSET Ids, played : [Ids -> 0 .. 2]]
  /\ Descending(p.shown) /\ ToSet(p.shown) \subseteq p.ids

Exact(p) == p.ids = ToSet(p.shown)

(* An effect that was played has its boost on the page, for good.          *)
Once(p) == \A i \in Ids : p.played[i] <= 1 /\ (p.played[i] = 1 => i \in p.ids)

----------------------------------------------------------------------------
(* Of the ids of a page one is the closest. *)
LEMMA ClosestExists ==
  ASSUME NEW ids \in SUBSET Ids, ids # {}, NEW i \in Ids
  PROVE  /\ Closest(ids, i) \in ids
         /\ \A d \in ids : Distance(Closest(ids, i), i) <= Distance(d, i)
<1> DEFINE distances == {Distance(c, i) : c \in ids}
<1>1. ids \subseteq Nat /\ i \in Nat
  BY InboxAssumption DEF Ids, InboxAssumption
<1>2. distances \in SUBSET Nat /\ distances # {}
  <2>1. \A c \in ids : Distance(c, i) \in Nat
    BY <1>1 DEF Distance
  <2> QED BY <2>1
<1>3. PICK m \in distances : \A k \in distances : m <= k
  <2> HIDE DEF distances
  <2> QED BY <1>2, LeastNatural
<1>4. \E c \in ids : \A d \in ids : Distance(c, i) <= Distance(d, i)
  BY <1>3
<1> QED BY <1>4, Zenon DEF Closest

(* A new element gets into a list in order at its place, next to the       *)
(* closest id, or nowhere if that is not on the page.                      *)
LEMMA PlacedFacts ==
  ASSUME NEW s \in Seq(Boosts), Descending(s), NEW ids \in SUBSET Ids, ToSet(s) \subseteq ids,
         NEW i \in Boosts, i \notin ids
  PROVE  /\ Placed(s, ids, i) \in Seq(Boosts) /\ Descending(Placed(s, ids, i))
         /\ ToSet(Placed(s, ids, i)) \subseteq ids \cup {i}
         /\ ids = ToSet(s) => ToSet(Placed(s, ids, i)) = ids \cup {i}
<1> DEFINE c == Closest(ids, i)
           n == Len(s)
           k == CHOOSE k \in DOMAIN s : s[k] = c
           q == IF i < c THEN k + 1 ELSE k
           t == InsertAt(s, q, i)
<1>1. /\ n \in Nat /\ DOMAIN s = 1 .. n /\ \A j \in 1 .. n : s[j] \in Boosts
      /\ \A j \in 1 .. n : s[j] \in ids
      /\ Boosts \subseteq Nat /\ Boosts \subseteq Ids /\ ids \subseteq Nat /\ i \in Nat
  BY LenProperties, ElementOfSeq, InboxAssumption DEF Boosts, Ids, InboxAssumption, ToSet
<1> HIDE DEF n
<1>2. CASE s = <<>>
  <2>1. Placed(s, ids, i) = <<i>> /\ ToSet(s) = {}
    BY <1>2 DEF Placed, ToSet
  <2>2. <<i>> \in Seq(Boosts) /\ DOMAIN <<i>> = {1} /\ <<i>>[1] = i
    OBVIOUS
  <2> QED BY <2>1, <2>2 DEF Descending, ToSet
<1>3. CASE s # <<>> /\ c \notin ToSet(s)
  <2>1. Placed(s, ids, i) = s
    BY <1>3 DEF Placed
  <2>2. ids # ToSet(s)
    <3>1. ids = {} \/ c \in ids
      BY <1>1, ClosestExists
    <3>2. ToSet(s) # {}
      <4>1. n \in Nat \ {0}
        BY <1>3, EmptySeq DEF n
      <4>2. 1 \in DOMAIN s
        BY <1>1, <4>1
      <4> QED BY <4>2 DEF ToSet
    <3> QED BY <1>3, <3>1, <3>2
  <2> QED BY <2>1, <2>2
<1>4. CASE s # <<>> /\ c \in ToSet(s)
  <2>1. Placed(s, ids, i) = t
    BY <1>4 DEF Placed
  <2>2. c \in ids /\ \A d \in ids : Distance(c, i) <= Distance(d, i)
    BY <1>1, <1>4, ClosestExists
  <2> HIDE DEF c
  <2>3. k \in 1 .. n /\ s[k] = c
    BY <1>1, <1>4 DEF ToSet
  <2> HIDE DEF k
  <2>4. q \in 1 .. n + 1
    BY <1>1, <2>3
  <2>5. \A j \in 1 .. n : (j < q => s[j] > i) /\ (j >= q => s[j] < i)
    <3> SUFFICES ASSUME NEW j \in 1 .. n
                 PROVE  (j < q => s[j] > i) /\ (j >= q => s[j] < i)
      OBVIOUS
    <3>1. s[j] \in Nat /\ s[j] # i /\ c \in Nat /\ c # i /\ k \in Nat /\ j \in Nat
      <4>1. s[j] \in ids /\ c \in ids
        BY <1>1, <2>2
      <4>2. k \in Nat /\ j \in Nat
        BY <1>1, <2>3
      <4> QED BY <1>1, <4>1, <4>2
    <3>2. (j < k => s[j] > c) /\ (j > k => s[j] < c) /\ (j = k => s[j] = c)
      BY <1>1, <2>3 DEF Descending
    <3>3. Distance(c, i) <= Distance(s[j], i)
      BY <1>1, <2>2
    <3>4. CASE i < c
      <4>1. j < q => s[j] > i
        BY <1>1, <3>1, <3>2, <3>4
      <4>2. j >= q => s[j] < i
        BY <1>1, <3>1, <3>2, <3>3, <3>4 DEF Distance
      <4> QED BY <4>1, <4>2
    <3>5. CASE i > c
      <4>1. j < q => s[j] > i
        BY <1>1, <3>1, <3>2, <3>3, <3>5 DEF Distance
      <4>2. j >= q => s[j] < i
        BY <1>1, <3>1, <3>2, <3>5
      <4> QED BY <4>1, <4>2
    <3> QED BY <1>1, <3>1, <3>4, <3>5
  <2>6. /\ t \in Seq(Boosts) /\ Len(t) = n + 1 /\ DOMAIN t = 1 .. n + 1
        /\ \A j \in 1 .. n + 1 : t[j] = IF j < q THEN s[j] ELSE IF j = q THEN i ELSE s[j - 1]
    <3> HIDE DEF q, t
    <3>1. /\ InsertAt(s, q, i) \in Seq(Boosts) /\ Len(InsertAt(s, q, i)) = n + 1
          /\ \A j \in 1 .. n + 1 :
               InsertAt(s, q, i)[j] = IF j < q THEN s[j] ELSE IF j = q THEN i ELSE s[j - 1]
      <4>1. q \in 1 .. Len(s) + 1
        BY <2>4 DEF n
      <4>2. /\ InsertAt(s, q, i) \in Seq(Boosts) /\ Len(InsertAt(s, q, i)) = Len(s) + 1
            /\ \A j \in 1 .. Len(s) + 1 :
                 InsertAt(s, q, i)[j] = IF j < q THEN s[j] ELSE IF j = q THEN i ELSE s[j - 1]
        BY <4>1, InsertAtFacts
      <4> QED BY <4>2 DEF n
    <3> QED BY <3>1, LenProperties DEF t
  <2> HIDE DEF q, t
  <2>7. Descending(t)
    <3> SUFFICES ASSUME NEW j \in 1 .. n + 1, NEW l \in 1 .. n + 1, j < l
                 PROVE  t[j] > t[l]
      BY <2>6 DEF Descending
    <3>1. /\ j \in Nat /\ l \in Nat /\ q \in Nat /\ q >= 1
          /\ \A m \in 1 .. n : s[m] \in Nat
          /\ \A a, b \in 1 .. n : a < b => s[a] > s[b]
      <4>1. j \in Nat /\ l \in Nat /\ q \in Nat /\ q >= 1
        BY <1>1, <2>4
      <4>2. \A a, b \in 1 .. n : a < b => s[a] > s[b]
        BY <1>1 DEF Descending
      <4>3. \A m \in 1 .. n : s[m] \in Nat
        BY <1>1
      <4> QED BY <4>1, <4>2, <4>3
    <3>2. CASE l < q
      BY <1>1, <2>4, <2>6, <3>1, <3>2
    <3>3. CASE l = q
      BY <1>1, <2>4, <2>5, <2>6, <3>1, <3>3
    <3>4. CASE l > q
      <4>1. t[l] = s[l - 1] /\ l - 1 \in 1 .. n /\ l - 1 >= q
        BY <1>1, <2>4, <2>6, <3>1, <3>4
      <4>2. s[l - 1] < i
        BY <2>5, <4>1
      <4>3. CASE j < q
        <5>1. t[j] = s[j] /\ j \in 1 .. n /\ s[j] > i
          BY <1>1, <2>4, <2>5, <2>6, <3>1, <4>3
        <5> QED BY <1>1, <3>1, <4>1, <4>2, <5>1
      <4>4. CASE j = q
        <5>1. t[j] = i
          BY <2>6, <4>4
        <5> QED BY <1>1, <3>1, <4>1, <4>2, <5>1
      <4>5. CASE j > q
        <5>1. t[j] = s[j - 1] /\ j - 1 \in 1 .. n /\ j - 1 < l - 1
          BY <1>1, <2>4, <2>6, <3>1, <3>4, <4>5
        <5> QED BY <3>1, <4>1, <5>1
      <4> QED BY <3>1, <4>3, <4>4, <4>5
    <3> QED BY <3>1, <3>2, <3>3, <3>4
  <2>8. ToSet(t) = ToSet(s) \cup {i}
    <3>1. ASSUME NEW j \in 1 .. n + 1
          PROVE  t[j] \in ToSet(s) \cup {i}
      <4>1. CASE j < q
        BY <1>1, <2>4, <2>6, <4>1 DEF ToSet
      <4>2. CASE j = q
        BY <2>6, <4>2
      <4>3. CASE j > q
        <5>1. t[j] = s[j - 1] /\ j - 1 \in 1 .. n
          BY <1>1, <2>4, <2>6, <4>3
        <5> QED BY <1>1, <5>1 DEF ToSet
      <4>4. j < q \/ j = q \/ j > q
        BY <1>1, <2>4
      <4> QED BY <4>1, <4>2, <4>3, <4>4
    <3>2. ASSUME NEW j \in 1 .. n
          PROVE  s[j] \in ToSet(t)
      <4>1. CASE j < q
        <5>1. t[j] = s[j] /\ j \in 1 .. n + 1
          BY <1>1, <2>4, <2>6, <4>1
        <5> QED BY <2>6, <5>1 DEF ToSet
      <4>2. CASE j >= q
        <5>1. t[j + 1] = s[j] /\ j + 1 \in 1 .. n + 1
          <6>1. j + 1 \in 1 .. n + 1 /\ j + 1 > q /\ (j + 1) - 1 = j
            BY <1>1, <2>4, <4>2
          <6>2. t[j + 1] = s[(j + 1) - 1]
            BY <1>1, <2>4, <2>6, <6>1
          <6> QED BY <6>1, <6>2
        <5> QED BY <2>6, <5>1 DEF ToSet
      <4>3. j < q \/ j >= q
        BY <1>1, <2>4
      <4> QED BY <4>1, <4>2, <4>3
    <3>3. i \in ToSet(t)
      <4>1. t[q] = i /\ q \in 1 .. n + 1
        BY <1>1, <2>4, <2>6
      <4> QED BY <2>6, <4>1 DEF ToSet
    <3> QED BY <1>1, <2>6, <3>1, <3>2, <3>3 DEF ToSet
  <2> QED BY <2>1, <2>6, <2>7, <2>8
<1> QED BY <1>2, <1>3, <1>4

----------------------------------------------------------------------------
(* One element keeps the page in order, what is tracked of it exact, and   *)
(* plays the effects of a boost only when it is new to the page.           *)
LEMMA RenderedFacts ==
  ASSUME NEW p, PageOK(p), NEW i \in Boosts, NEW pew \in BOOLEAN
  PROVE  LET r == Rendered(p, i, pew)
         IN  PageOK(r) /\ (Exact(p) => Exact(r)) /\ (Once(p) => Once(r))
<1>1. CASE i \in p.ids
  BY <1>1 DEF Rendered
<1>2. CASE i \notin p.ids
  <2> DEFINE shown2 == Placed(p.shown, p.ids, i)
             ids2 == p.ids \cup {i}
             played2 == Played(p.played, i, pew)
             r == [shown |-> shown2, ids |-> ids2, played |-> played2]
  <2>1. Rendered(p, i, pew) = r
    BY <1>2 DEF Rendered
  <2>2. /\ p.shown \in Seq(Boosts) /\ p.ids \in SUBSET Ids /\ p.played \in [Ids -> 0 .. 2]
        /\ Descending(p.shown) /\ ToSet(p.shown) \subseteq p.ids
    BY DEF PageOK
  <2>3. /\ shown2 \in Seq(Boosts) /\ Descending(shown2) /\ ToSet(shown2) \subseteq ids2
        /\ p.ids = ToSet(p.shown) => ToSet(shown2) = ids2
    <3> DEFINE a == p.shown
               b == p.ids
    <3>1. /\ a \in Seq(Boosts) /\ b \in SUBSET Ids /\ Descending(a) /\ ToSet(a) \subseteq b
          /\ i \notin b
      BY <1>2, <2>2
    <3> HIDE DEF a, b
    <3>2. /\ Placed(a, b, i) \in Seq(Boosts) /\ Descending(Placed(a, b, i))
          /\ ToSet(Placed(a, b, i)) \subseteq b \cup {i}
          /\ b = ToSet(a) => ToSet(Placed(a, b, i)) = b \cup {i}
      BY <3>1, PlacedFacts
    <3> QED BY <3>2 DEF a, b
  <2>4. i \in Ids /\ ids2 \in SUBSET Ids
    BY <2>2 DEF Boosts
  <2>5. /\ played2 \in [Ids -> 0 .. 2]
        /\ \A j \in Ids : j # i => played2[j] = p.played[j]
        /\ played2[i] = p.played[i] + IF pew /\ p.played[i] < 2 THEN 1 ELSE 0
    BY <2>2, <2>4 DEF Played
  <2>6. r.shown = shown2 /\ r.ids = ids2 /\ r.played = played2
    OBVIOUS
  <2>7. r \in [shown : Seq(Boosts), ids : SUBSET Ids, played : [Ids -> 0 .. 2]]
    BY <2>3, <2>4, <2>5
  <2> HIDE DEF shown2, played2, r
  <2>8. PageOK(r)
    BY <2>3, <2>6, <2>7 DEF PageOK
  <2>9. Exact(p) => Exact(r)
    BY <2>3, <2>6 DEF Exact
  <2>10. ASSUME Once(p), NEW j \in Ids
         PROVE  played2[j] <= 1 /\ (played2[j] = 1 => j \in ids2)
    <3>1. p.played[j] \in 0 .. 2 /\ p.played[j] <= 1 /\ (p.played[j] = 1 => j \in p.ids)
      BY <2>2, <2>10 DEF Once
    <3>2. CASE j # i
      BY <2>5, <3>1, <3>2
    <3>3. CASE j = i
      <4>1. p.played[j] = 0
        BY <1>2, <3>1, <3>3
      <4> QED BY <2>5, <3>3, <4>1
    <3> QED BY <3>2, <3>3
  <2>11. Once(p) => Once(r)
    BY <2>6, <2>10 DEF Once
  <2> QED BY <2>1, <2>8, <2>9, <2>11
<1> QED BY <1>1, <1>2

(* So does a whole list of them, read from the page and put back.          *)
LEMMA PagesFacts ==
  ASSUME NEW data \in Seq(Boosts), NEW pew \in BOOLEAN,
         PageOK([shown |-> shown, ids |-> messageIds, played |-> played])
  PROVE  LET before == [shown |-> shown, ids |-> messageIds, played |-> played]
             after  == Pages(data, pew)[Len(data)]
         IN  PageOK(after) /\ (Exact(before) => Exact(after)) /\ (Once(before) => Once(after))
<1> DEFINE n == Len(data)
           before == [shown |-> shown, ids |-> messageIds, played |-> played]
           Pages2 == {p \in [shown : Seq(Boosts), ids : SUBSET Ids, played : [Ids -> 0 .. 2]] :
                        PageOK(p)}
           Body(f) == [k \in 0 .. n |-> IF k = 0 THEN before ELSE Rendered(f[k - 1], data[k], pew)]
           step == [k \in 1 .. n |-> [p \in Pages2 |-> Rendered(p, data[k], pew)]]
           page == Pages(data, pew)
<1>1. n \in Nat /\ \A k \in 1 .. n : data[k] \in Boosts
  BY LenProperties, ElementOfSeq
<1>2. \A p : PageOK(p) <=> p \in Pages2
  BY DEF PageOK
<1> HIDE DEF n, Pages2
<1>3. before \in Pages2
  BY <1>2
<1>4. step \in [1 .. n -> [Pages2 -> Pages2]]
  <2>1. ASSUME NEW k \in 1 .. n, NEW p \in Pages2
        PROVE  Rendered(p, data[k], pew) \in Pages2
    BY <1>1, <1>2, RenderedFacts
  <2> QED BY <2>1
<1> HIDE DEF before
<1>5. \E f : f = Body(f)
  <2> HIDE DEF step
  <2>1. PICK f \in [0 .. n -> Pages2] :
          f[0] = before /\ \A k \in 1 .. n : f[k] = step[k][f[k - 1]]
    <3> HIDE DEF Body, page
    <3>1. Iterations(n, Pages2, before, step) # {}
      BY <1>1, <1>3, <1>4, Recursion
    <3> QED BY <3>1 DEF Iterations
  <2>2. ASSUME NEW k \in 1 .. n
        PROVE  f[k] = Rendered(f[k - 1], data[k], pew)
    <3>1. k - 1 \in 0 .. n /\ k \in 0 .. n
      BY <1>1
    <3>2. f[k - 1] \in Pages2
      BY <2>1, <3>1
    <3> QED BY <2>1, <3>2 DEF step
  <2>3. ASSUME NEW k \in 0 .. n
        PROVE  f[k] = IF k = 0 THEN before ELSE Rendered(f[k - 1], data[k], pew)
    <3>1. k = 0 \/ k \in 1 .. n
      BY <1>1
    <3> QED BY <2>1, <2>2, <3>1
  <2>4. f = Body(f)
    BY <2>1, <2>3
  <2> QED BY <2>4
<1>6. page = Body(page)
  <2>1. page = CHOOSE f : f = Body(f)
    BY Zenon DEF Pages, n, before
  <2> HIDE DEF Body, page
  <2> QED BY <1>5, <2>1, Zenon
<1> HIDE DEF page
<1>7. /\ page[0] = before
      /\ \A k \in 1 .. n : page[k] = Rendered(page[k - 1], data[k], pew)
  <2>1. \A k \in 0 .. n : page[k] = IF k = 0 THEN before ELSE Rendered(page[k - 1], data[k], pew)
    BY <1>6
  <2> QED BY <1>1, <2>1
<1> DEFINE Good(k) == /\ PageOK(page[k])
                      /\ Exact(before) => Exact(page[k])
                      /\ Once(before) => Once(page[k])
           good == {k \in 0 .. n : Good(k)}
<1>8. 0 \in good
  <2>1. Good(0)
    BY <1>2, <1>3, <1>7
  <2> QED BY <1>1, <2>1
<1>9. ASSUME NEW k \in 1 .. n, k - 1 \in good
      PROVE  k \in good
  <2>1. PageOK(page[k - 1])
    BY <1>9
  <2>2. LET r == Rendered(page[k - 1], data[k], pew)
        IN  PageOK(r) /\ (Exact(page[k - 1]) => Exact(r)) /\ (Once(page[k - 1]) => Once(r))
    BY <1>1, <2>1, RenderedFacts
  <2> QED BY <1>1, <1>7, <1>9, <2>2
<1>10. n \in good
  <2> HIDE DEF good
  <2>1. \A k \in 0 .. n : k \in good
    BY <1>1, <1>8, <1>9, UpTo
  <2> QED BY <1>1, <2>1
<1> QED BY <1>10 DEF before, page, n

----------------------------------------------------------------------------
(* A set of indexes has a greatest one, for the cursor and the index call. *)
LEMMA MaxFacts ==
  ASSUME NEW S \in SUBSET (0 .. MaxIndex), S # {}
  PROVE  Max(S) \in S
<1>1. MaxIndex \in Nat
  BY InboxAssumption DEF InboxAssumption
<1>2. \E m \in S : \A k \in S : k <= m
  BY <1>1, GreatestNatural
<1>3. \E m \in S : \A k \in S : m >= k
  <2>1. \A m, k \in S : k <= m <=> m >= k
    BY <1>1
  <2> QED BY <1>2, <2>1
<1> QED BY <1>3, Zenon DEF Max

(* An answer lists boosts of this list only.                               *)
LEMMA ListedFacts ==
  ASSUME stored \subseteq Ids, NEW q, q.max \in Nat
  PROVE  Listed(q) \in Seq(Boosts)
<1> DEFINE found == {i \in stored \ Others :
                       (IF q.old THEN i <= q.index ELSE i >= q.index)
                       /\ (q.filter => i \in Matching)}
           c == Cardinality(found)
           all == CHOOSE s \in [1 .. c -> found] : \A j, k \in DOMAIN s : j < k => s[j] > s[k]
           top == IF Len(all) < q.max THEN Len(all) ELSE q.max
<1>1. found \in SUBSET Boosts /\ found \in SUBSET (1 .. MaxIndex) /\ MaxIndex \in Nat
  <2>1. MaxIndex \in Nat
    BY InboxAssumption DEF InboxAssumption
  <2> QED BY <2>1 DEF Boosts, Ids
<1>2. Listed(q) = SubSeq(all, 1, top)
  BY DEF Listed
<1> HIDE DEF found
<1>3. PICK s \in [1 .. c -> found] : \A j, k \in 1 .. c : j < k => s[j] < s[k]
  BY <1>1, Enumeration
<1>4. c \in Nat
  BY <1>1, Enumeration
<1> HIDE DEF c
<1>5. \E t \in [1 .. c -> found] : \A j, k \in DOMAIN t : j < k => t[j] > t[k]
  <2> DEFINE t == [j \in 1 .. c |-> s[c + 1 - j]]
  <2>1. \A j \in 1 .. c : c + 1 - j \in 1 .. c
    BY <1>4
  <2>2. t \in [1 .. c -> found]
    BY <2>1
  <2>3. \A j, k \in 1 .. c : j < k => t[j] > t[k]
    <3> SUFFICES ASSUME NEW j \in 1 .. c, NEW k \in 1 .. c, j < k
                 PROVE  t[j] > t[k]
      OBVIOUS
    <3>1. c + 1 - k < c + 1 - j
      BY <1>4
    <3>2. s[c + 1 - k] < s[c + 1 - j]
      BY <1>3, <2>1, <3>1
    <3>3. found \subseteq Nat /\ \A l \in 1 .. c : s[l] \in found
      BY <1>1
    <3>4. s[c + 1 - k] \in Nat /\ s[c + 1 - j] \in Nat
      BY <2>1, <3>3
    <3> QED BY <3>2, <3>4
  <2> HIDE DEF t
  <2> QED BY <2>2, <2>3
<1>6. all \in [1 .. c -> found]
  BY <1>5
<1> HIDE DEF all
<1>7. all \in Seq(found) /\ Len(all) = c
  <2>1. all \in Seq(found)
    BY <1>4, <1>6, SeqDef
  <2>2. DOMAIN all = 1 .. c /\ DOMAIN all = 1 .. Len(all) /\ Len(all) \in Nat
    BY <1>6, <2>1, LenProperties
  <2> QED BY <1>4, <2>1, <2>2
<1>8. top \in 0 .. c
  BY <1>4, <1>7
<1> HIDE DEF top
<1>9. \A j \in 1 .. top : all[j] \in Boosts
  <2>1. \A j \in 1 .. c : all[j] \in found
    BY <1>6
  <2>2. \A j \in 1 .. top : j \in 1 .. c
    BY <1>4, <1>8
  <2> QED BY <1>1, <2>1, <2>2
<1>10. 1 \in Int /\ top \in Int
  BY <1>4, <1>8
<1>11. SubSeq(all, 1, top) \in Seq(Boosts)
  BY <1>9, <1>10, SubSeqProperties
<1> QED BY <1>2, <1>11

----------------------------------------------------------------------------
(* What the requests under way may be.                                     *)
RequestOK(q) ==
  /\ q.at = "sent" /\ q.kind # "index" => q.max \in Nat /\ q.pew \in BOOLEAN
  /\ q.at = "index" => q.data \in 0 .. MaxIndex
  /\ q.at = "list" => q.data \in Seq(Boosts) /\ q.pew \in BOOLEAN

RequestsOK == DOMAIN requests = Askers /\ \A who \in Askers : RequestOK(requests[who])

(* The list and what is tracked of it.  Before getBoosts has read the page *)
(* again the array may hold more than the page, and never less.            *)
TrackingOK ==
  /\ Descending(shown) /\ ToSet(shown) \subseteq messageIds
  /\ ~emptied => messageIds = ToSet(shown)
  /\ changes = 0 =>
       ~emptied /\ \A i \in Ids : played[i] <= 1 /\ (played[i] = 1 => i \in messageIds)

IInv ==
  /\ TypeOK /\ TrackingOK /\ RequestsOK
  /\ unsent \subseteq Boosts /\ changes \in Nat

(* A page is opened with nothing on it.                                    *)
LEMMA InitIInv == Init => IInv
<1> SUFFICES ASSUME Init
             PROVE  IInv
  OBVIOUS
<1>1. MaxIndex \in Nat /\ 1 \in Ids /\ 2 \in Ids
  BY InboxAssumption DEF InboxAssumption, Ids
<1>2. TypeOK
  <2>1. stored \subseteq Ids /\ missed \subseteq Ids /\ unsent \subseteq stored
    BY <1>1 DEF Init
  <2>2. played \in [Ids -> 0 .. 2]
    BY DEF Init
  <2>3. currentInvoiceIndex \in 0 .. MaxIndex
    BY <1>1 DEF Init
  <2>4. shown \in Seq(Ids \ Others) /\ messageIds \subseteq Ids
    BY DEF Init
  <2> QED BY <2>1, <2>2, <2>3, <2>4 DEF Init, TypeOK, Cursor
<1>3. TrackingOK
  <2>1. ToSet(<<>>) = {} /\ Descending(<<>>)
    BY DEF ToSet, Descending
  <2> QED BY <2>1 DEF Init, TrackingOK
<1>4. RequestsOK
  BY DEF Init, RequestsOK, RequestOK, None, Index, Askers
<1> QED BY <1>2, <1>3, <1>4 DEF Init, IInv

(* What rendering a list does to the page.                                 *)
LEMMA RenderStep ==
  ASSUME IInv, NEW data \in Seq(Boosts), NEW max, NEW pew \in BOOLEAN,
         RenderBoosts(data, max, pew), emptied' = emptied, changes' = changes
  PROVE  /\ TrackingOK'
         /\ shown' \in Seq(Boosts) /\ messageIds' \subseteq Ids /\ played' \in [Ids -> 0 .. 2]
         /\ nodata' \in BOOLEAN /\ more' \in BOOLEAN
<1> DEFINE before == [shown |-> shown, ids |-> messageIds, played |-> played]
           after  == Pages(data, pew)[Len(data)]
<1>1. PageOK(before)
  BY DEF IInv, TypeOK, TrackingOK, PageOK, Boosts
<1>2. PageOK(after) /\ (Exact(before) => Exact(after)) /\ (Once(before) => Once(after))
  BY <1>1, PagesFacts
<1>3. ~emptied => Exact(before)
  BY DEF IInv, TrackingOK, Exact
<1>4. changes = 0 => ~emptied /\ Once(before)
  BY DEF IInv, TrackingOK, Once
<1>5. /\ shown' = after.shown /\ messageIds' = after.ids /\ played' = after.played
      /\ nodata' \in BOOLEAN /\ more' \in BOOLEAN
  BY DEF RenderBoosts
<1> HIDE DEF before, after
<1>6. /\ shown' \in Seq(Boosts) /\ messageIds' \subseteq Ids /\ played' \in [Ids -> 0 .. 2]
      /\ Descending(shown') /\ ToSet(shown') \subseteq messageIds'
  BY <1>2, <1>5 DEF PageOK
<1>7. ~emptied' => messageIds' = ToSet(shown')
  BY <1>2, <1>3, <1>5 DEF Exact
<1>8. changes' = 0 =>
        ~emptied' /\ \A i \in Ids : played'[i] <= 1 /\ (played'[i] = 1 => i \in messageIds')
  BY <1>2, <1>4, <1>5 DEF Once
<1> QED BY <1>5, <1>6, <1>7, <1>8 DEF TrackingOK, Descending, ToSet

(* getBoosts only takes from the array what is no longer on the page.      *)
LEMMA GetBoostsStep ==
  ASSUME IInv, NEW who \in Askers, NEW index, NEW max \in Nat, NEW old, NEW pew \in BOOLEAN,
         GetBoosts(who, index, max, old, pew), UNCHANGED <<shown, played, changes>>
  PROVE  TrackingOK' /\ RequestsOK' /\ messageIds' \subseteq Ids /\ emptied' \in BOOLEAN
<1>1. messageIds' = ToSet(shown) /\ emptied' = FALSE
  BY DEF GetBoosts
<1>2. ToSet(shown) \subseteq messageIds /\ messageIds \subseteq Ids
  BY DEF IInv, TypeOK, TrackingOK
<1>3. TrackingOK'
  <2>1. changes = 0 => messageIds' = messageIds
    BY <1>1 DEF IInv, TrackingOK
  <2> QED BY <1>1, <2>1 DEF IInv, TrackingOK, Descending, ToSet
<1>4. RequestsOK'
  <2> DEFINE q == List(IF index = 0 THEN shown[1] ELSE index, max, old, pew)
  <2>1. requests' = [requests EXCEPT ![who] = q]
    BY DEF GetBoosts
  <2>2. q.at = "sent" /\ q.kind = "list" /\ q.max = max /\ q.pew \in BOOLEAN
    BY DEF List, IInv, TypeOK
  <2> HIDE DEF q
  <2>3. RequestOK(q)
    BY <2>2 DEF RequestOK
  <2> QED BY <2>1, <2>3 DEF IInv, RequestsOK
<1> QED BY <1>1, <1>2, <1>3, <1>4

(* So does getIndex, which asks for less.                                  *)
LEMMA GetIndexStep ==
  ASSUME IInv, NEW who \in Askers, GetIndex(who)
  PROVE  RequestsOK'
<1>1. RequestOK(Index)
  BY DEF RequestOK, Index
<1> QED BY <1>1 DEF IInv, RequestsOK, GetIndex

(* A request under way is dropped.                                         *)
LEMMA DropStep ==
  ASSUME IInv, NEW who \in Askers, requests' = [requests EXCEPT ![who] = None]
  PROVE  RequestsOK'
<1>1. RequestOK(None)
  BY DEF RequestOK, None
<1> QED BY <1>1 DEF IInv, RequestsOK

(* Every handler keeps the invariant.                                      *)
LEMMA NextIInv == IInv /\ [Next]_vars => IInv'
<1> SUFFICES ASSUME IInv, [Next]_vars
             PROVE  IInv'
  OBVIOUS
<1> USE DEF Cursor
<1>0. /\ MaxIndex \in Nat /\ 1 \in Ids /\ FirstPage \in Nat /\ PollPage \in Nat
      /\ Boosts = Ids \ Others
  BY InboxAssumption DEF InboxAssumption, Ids, Boosts
<1>1. ASSUME NEW i \in Ids \ stored, Store(i)
      PROVE  IInv'
  <2>1. TypeOK' /\ unsent' \subseteq Boosts
    BY <1>0, <1>1 DEF Store, IInv, TypeOK, listVars, histVars
  <2>2. TrackingOK' /\ RequestsOK'
    BY <1>1 DEF Store, IInv, TrackingOK, RequestsOK, RequestOK, listVars, histVars, ToSet, Descending
  <2> QED BY <1>1, <2>1, <2>2 DEF IInv, Store, histVars
<1>2. ASSUME NEW i \in unsent, Publish(i)
      PROVE  IInv'
  <2>1. i \in Boosts /\ i \in Ids
    BY <1>0 DEF IInv
  <2>2. /\ TrackingOK'
        /\ shown' \in Seq(Boosts) /\ messageIds' \subseteq Ids /\ played' \in [Ids -> 0 .. 2]
        /\ nodata' \in BOOLEAN /\ more' \in BOOLEAN
    <3>1. CASE open
      <4>1. <<i>> \in Seq(Boosts) /\ RenderBoosts(<<i>>, 0, TRUE)
        <5>1. <<i>> \in Seq(Boosts)
          BY <2>1
        <5>2. RenderBoosts(<<i>>, 0, TRUE)
          BY <1>2, <3>1 DEF Publish
        <5> QED BY <5>1, <5>2
      <4>2. emptied' = emptied /\ changes' = changes
        BY <1>2 DEF Publish
      <4> QED BY <4>1, <4>2, RenderStep
    <3>2. CASE ~open
      BY <1>0, <1>2, <3>2 DEF Publish, IInv, TypeOK, TrackingOK, listVars, ToSet, Descending
    <3> QED BY <3>1, <3>2
  <2>3. TypeOK' /\ unsent' \subseteq Boosts
    BY <1>0, <1>2, <2>1, <2>2 DEF Publish, IInv, TypeOK
  <2>4. RequestsOK'
    BY <1>2 DEF Publish, IInv, RequestsOK, RequestOK
  <2> QED BY <1>2, <2>2, <2>3, <2>4 DEF IInv, Publish
<1>3. ASSUME BreakSocket \/ Connect
      PROVE  IInv'
  <2>1. TypeOK' /\ unsent' \subseteq Boosts
    BY <1>3 DEF BreakSocket, Connect, IInv, TypeOK, listVars, histVars
  <2>2. TrackingOK' /\ RequestsOK'
    BY <1>3 DEF BreakSocket, Connect, IInv, TrackingOK, RequestsOK, RequestOK, listVars, histVars,
                ToSet, Descending
  <2> QED BY <1>3, <2>1, <2>2 DEF IInv, BreakSocket, Connect, histVars
<1>4. ASSUME Tick
      PROVE  IInv'
  <2>1. "timer" \in Askers
    BY DEF Askers
  <2>2. CASE shown = <<>>
    <3>1. GetIndex("timer") /\ UNCHANGED <<messageIds, emptied>>
      BY <1>4, <2>2 DEF Tick
    <3>2. RequestsOK'
      BY <2>1, <3>1, GetIndexStep
    <3> QED BY <1>4, <3>1, <3>2 DEF Tick, IInv, TypeOK, TrackingOK, serverVars, ToSet, Descending
  <2>3. CASE shown # <<>>
    <3>1. GetBoosts("timer", Cursor, PollPage, FALSE, TRUE) /\ UNCHANGED <<shown, played, changes>>
      BY <1>4, <2>3 DEF Tick
    <3>2. TrackingOK' /\ RequestsOK' /\ messageIds' \subseteq Ids /\ emptied' \in BOOLEAN
      BY <1>0, <2>1, <3>1, GetBoostsStep
    <3> QED BY <1>4, <3>2 DEF Tick, IInv, TypeOK, serverVars
  <2> QED BY <2>2, <2>3
<1>5. ASSUME LoadMore
      PROVE  IInv'
  <2>1. "user" \in Askers
    BY DEF Askers
  <2>2. GetBoosts("user", Last(shown), FirstPage, TRUE, FALSE) /\ UNCHANGED <<shown, played, changes>>
    BY <1>5 DEF LoadMore
  <2>3. TrackingOK' /\ RequestsOK' /\ messageIds' \subseteq Ids /\ emptied' \in BOOLEAN
    BY <1>0, <2>1, <2>2, GetBoostsStep
  <2> QED BY <1>5, <2>3 DEF LoadMore, IInv, TypeOK, serverVars
<1>6. ASSUME ChangeFilter
      PROVE  IInv'
  <2>1. RequestsOK'
    BY <1>6, GetIndexStep DEF ChangeFilter, Askers
  <2>2. TrackingOK'
    <3>1. shown' = <<>> /\ emptied' = TRUE /\ changes' # 0
      BY <1>6 DEF ChangeFilter, IInv
    <3>2. ToSet(<<>>) = {} /\ Descending(<<>>)
      BY DEF ToSet, Descending
    <3> QED BY <3>1, <3>2 DEF TrackingOK, Descending, ToSet
  <2>3. TypeOK'
    <3>1. missed' \subseteq Ids
      BY <1>6 DEF ChangeFilter, IInv, TypeOK
    <3>2. shown' \in Seq(Ids \ Others) /\ emptied' \in BOOLEAN /\ filter' \in BOOLEAN
      BY <1>6 DEF ChangeFilter, IInv, TypeOK
    <3>3. nodata' \in BOOLEAN /\ more' \in BOOLEAN
      BY <1>6 DEF ChangeFilter
    <3> QED BY <1>6, <3>1, <3>2, <3>3 DEF ChangeFilter, IInv, TypeOK, serverVars
  <2> QED BY <1>6, <2>1, <2>2, <2>3 DEF IInv, ChangeFilter, serverVars
<1>7. ASSUME NEW who \in Askers, Answer(who)
      PROVE  IInv'
  <2> DEFINE q == requests[who]
             index == [at |-> "index", data |-> Max(stored \cup {0})]
             list == [at |-> "list", data |-> Listed(q), max |-> q.max, pew |-> q.pew]
  <2>1. RequestOK(q)
    BY <1>7 DEF IInv, RequestsOK
  <2>2. q.at = "sent" /\ requests' = [requests EXCEPT ![who] = IF q.kind = "index" THEN index ELSE list]
    BY <1>7 DEF Answer
  <2>3. RequestOK(index)
    <3>1. stored \cup {0} \in SUBSET (0 .. MaxIndex)
      BY <1>0 DEF IInv, TypeOK, Ids
    <3>2. Max(stored \cup {0}) \in 0 .. MaxIndex
      BY <3>1, MaxFacts
    <3> QED BY <3>2 DEF RequestOK
  <2>4. CASE q.kind # "index"
    <3>1. q.max \in Nat /\ q.pew \in BOOLEAN
      BY <2>1, <2>2, <2>4 DEF RequestOK
    <3>2. Listed(q) \in Seq(Boosts)
      <4> HIDE DEF q
      <4> QED BY <3>1, ListedFacts DEF IInv, TypeOK
    <3>3. list.at = "list" /\ list.data = Listed(q) /\ list.pew = q.pew
      OBVIOUS
    <3> HIDE DEF q, list
    <3>4. RequestOK(list)
      BY <3>1, <3>2, <3>3 DEF RequestOK
    <3>5. RequestsOK'
      BY <1>7, <2>2, <2>4, <3>4 DEF IInv, RequestsOK
    <3> QED BY <1>7, <3>5 DEF Answer, IInv, TypeOK, TrackingOK, serverVars, listVars, histVars,
                              ToSet, Descending
  <2>5. CASE q.kind = "index"
    <3> HIDE DEF q, index, list
    <3>1. RequestsOK'
      BY <1>7, <2>2, <2>3, <2>5 DEF IInv, RequestsOK
    <3> QED BY <1>7, <3>1 DEF Answer, IInv, TypeOK, TrackingOK, serverVars, listVars, histVars,
                              ToSet, Descending
  <2> QED BY <2>4, <2>5
<1>8. ASSUME NEW who \in Askers, ReceiveIndex(who)
      PROVE  IInv'
  <2> DEFINE n == Max({requests[who].data, 1})
  <2>1. n \in 0 .. MaxIndex
    <3>1. requests[who].data \in 0 .. MaxIndex
      BY <1>8 DEF ReceiveIndex, IInv, RequestsOK, RequestOK
    <3>2. {requests[who].data, 1} \in SUBSET (0 .. MaxIndex)
      BY <1>0, <3>1 DEF Ids
    <3> QED BY <3>2, MaxFacts
  <2>2. GetBoosts(who, n, FirstPage, TRUE, FALSE) /\ UNCHANGED <<shown, played, changes>>
    BY <1>8 DEF ReceiveIndex
  <2>3. currentInvoiceIndex' = n
    BY <1>8 DEF ReceiveIndex
  <2> HIDE DEF n
  <2>4. TrackingOK' /\ RequestsOK' /\ messageIds' \subseteq Ids /\ emptied' \in BOOLEAN
    BY <1>0, <2>2, GetBoostsStep
  <2> QED BY <1>8, <2>1, <2>3, <2>4 DEF ReceiveIndex, IInv, TypeOK, serverVars
<1>9. ASSUME NEW who \in Askers, ReceiveList(who)
      PROVE  IInv'
  <2> DEFINE q == requests[who]
             n == Max({currentInvoiceIndex} \cup ToSet(q.data))
  <2>1. /\ RenderBoosts(q.data, q.max, q.pew) /\ emptied' = emptied /\ changes' = changes
        /\ currentInvoiceIndex' = n
    BY <1>9 DEF ReceiveList, histVars
  <2>2. q.data \in Seq(Boosts) /\ q.pew \in BOOLEAN
    BY <1>9 DEF ReceiveList, IInv, RequestsOK, RequestOK
  <2>3. n \in 0 .. MaxIndex
    <3>1. ToSet(q.data) \subseteq Boosts
      <4> HIDE DEF q
      <4> QED BY <2>2, ElementOfSeq, LenProperties DEF ToSet
    <3> HIDE DEF q
    <3>2. {currentInvoiceIndex} \cup ToSet(q.data) \in SUBSET (0 .. MaxIndex)
      BY <1>0, <3>1 DEF IInv, TypeOK, Ids
    <3> QED BY <3>2, MaxFacts
  <2> HIDE DEF q, n
  <2>4. /\ TrackingOK'
        /\ shown' \in Seq(Boosts) /\ messageIds' \subseteq Ids /\ played' \in [Ids -> 0 .. 2]
        /\ nodata' \in BOOLEAN /\ more' \in BOOLEAN
    BY <2>1, <2>2, RenderStep
  <2>5. RequestsOK'
    BY <1>9, DropStep DEF ReceiveList
  <2> QED BY <1>0, <1>9, <2>1, <2>3, <2>4, <2>5 DEF ReceiveList, IInv, TypeOK, serverVars, histVars
<1>10. ASSUME NEW who \in Askers, RequestFails(who)
       PROVE  IInv'
  <2>1. RequestsOK'
    BY <1>10, DropStep DEF RequestFails
  <2> QED BY <1>10, <2>1 DEF RequestFails, IInv, TypeOK, TrackingOK, serverVars, listVars, ToSet,
                            Descending
<1>11. CASE UNCHANGED vars
  <2>1. TypeOK' /\ unsent' \subseteq Boosts /\ changes' \in Nat
    BY <1>11 DEF vars, serverVars, listVars, histVars, IInv, TypeOK
  <2>2. TrackingOK' /\ RequestsOK'
    BY <1>11 DEF vars, serverVars, listVars, histVars, IInv, TrackingOK, RequestsOK, RequestOK, ToSet,
                 Descending
  <2> QED BY <2>1, <2>2 DEF IInv
<1> QED BY <1>1, <1>2, <1>3, <1>4, <1>5, <1>6, <1>7, <1>8, <1>9, <1>10, <1>11 DEF Next, Receive

(* Whatever arrives in whatever order, the list is in order and shows      *)
(* nothing twice.                                                          *)
THEOREM ListStaysOrdered == Spec => []ListIsOrdered
<1>1. IInv => ListIsOrdered
  BY DEF IInv, TrackingOK, Descending, ListIsOrdered
<1> QED BY <1>1, InitIInv, NextIInv, PTL DEF Spec

(* messageIds is right about the page, but for the window of the filter.   *)
THEOREM TrackingStaysExact == Spec => []TrackingIsExact
<1>1. IInv => TrackingIsExact
  BY DEF IInv, TrackingOK, TrackingIsExact
<1> QED BY <1>1, InitIInv, NextIInv, PTL DEF Spec

(* Until the filter is changed no boost sets off its effects twice.        *)
THEOREM EffectsStayOnce == Spec => []EffectsPlayOnce
<1>1. IInv => EffectsPlayOnce
  BY DEF IInv, TrackingOK, EffectsPlayOnce
<1> QED BY <1>1, InitIInv, NextIInv, PTL DEF Spec
=============================================================================
