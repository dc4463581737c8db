--------------------------- MODULE PlanTabs_proofs ---------------------------
(* Proofs about the tabs of PlanTabs: what is on screen and in storage was  *)
(* made in its own plan, nothing unreadable is overwritten before a copy of *)
(* it was made or refused, and plans of older versions are adopted or kept; *)
(* plans that are gone stay gone, no tab is moved off a plan that was not   *)
(* deleted, and a tab on the plan it wrote last shows what is stored.       *)
(* Lemmas about lists come first, then what each write changes, then what   *)
(* each handler keeps, then the actions; then the same handlers and actions *)
(* for the lists of the tabs, and for the keys they write.                  *)
EXTENDS PlanTabs, SequenceTheorems, WellFoundedInduction, TLAPS

-----------------------------------------------------------------------------
(* Sets of numbers and lists of plans. *)

LEMMA LeastExists ==
    ASSUME NEW S \in SUBSET Nat, S # {}
    PROVE  \E n \in S : \A m \in S : n <= m
<1>1. PICK n \in S : \A m \in Nat : <<m, n>> \in OpToRel(<, Nat) => m \notin S
  <2>1. IsWellFoundedOn(OpToRel(<, Nat), Nat)
    BY NatLessThanWellFounded
  <2> QED
    BY <2>1, WFMin
<1>2. ASSUME NEW m \in S
      PROVE  n <= m
  <2>1. m \in Nat /\ n \in Nat
    OBVIOUS
  <2>2. ~(m < n)
    BY <1>1, <2>1 DEF OpToRel
  <2> QED
    BY <2>1, <2>2
<1> QED
  BY <1>2

(* Induction up to L, over a set. *)
LEMMA UpTo ==
    ASSUME NEW L \in Nat, NEW S, 0 \in S, \A n \in 1..L : n - 1 \in S => n \in S
    PROVE  0..L \subseteq S
<1> SUFFICES ASSUME NEW k \in 0..L, k \notin S
             PROVE  FALSE
  OBVIOUS
<1> DEFINE bad == {n \in 0..L : n \notin S}
<1>1. bad \in SUBSET Nat /\ bad # {}
  OBVIOUS
<1>2. PICK n \in bad : \A m \in bad : n <= m
  BY <1>1, LeastExists
<1>3. n \in 0..L /\ n \notin S /\ n # 0
  OBVIOUS
<1>4. n \in 1..L /\ n - 1 \in 0..L /\ ~(n <= n - 1)
  BY <1>3
<1>5. n - 1 \in S
  BY <1>2, <1>4
<1> QED
  BY <1>3, <1>4, <1>5

LEMMA MaxOf ==
    ASSUME NEW n \in Nat, NEW S \in SUBSET (1..n), S # {}
    PROVE  Max(S) \in S /\ \A i \in S : Max(S) >= i
<1> DEFINE left == {n - i : i \in S}
<1>1. left \in SUBSET Nat /\ left # {}
  <2>1. ASSUME NEW i \in S
        PROVE  n - i \in Nat
    <3>1. i \in 1..n
      OBVIOUS
    <3> QED
      BY <3>1
  <2> QED
    BY <2>1
<1>2. PICK k \in left : \A m \in left : k <= m
  BY <1>1, LeastExists
<1>3. PICK x \in S : k = n - x
  OBVIOUS
<1>4. ASSUME NEW i \in S
      PROVE  x >= i
  <2>1. n - i \in left /\ i \in Int /\ x \in Int
    OBVIOUS
  <2> QED
    BY <1>2, <1>3, <2>1
<1>5. \E y \in S : \A i \in S : y >= i
  BY <1>4
<1> QED
  BY <1>5 DEF Max

LEMMA MinOf ==
    ASSUME NEW S \in SUBSET Nat, S # {}
    PROVE  Min(S) \in S
<1>1. \E y \in S : \A i \in S : y <= i
  BY LeastExists
<1> QED
  BY <1>1 DEF Min

(* A list of plans that is not empty. *)
Lists == {l \in Seq(Plans) : l # <<>>}

LEMMA PositionFound ==
    ASSUME NEW l \in Seq(Plans), NEW p, Contains(l, p)
    PROVE  PositionOf(l, p) \in DOMAIN l /\ l[PositionOf(l, p)] = p
<1>1. \E i \in DOMAIN l : l[i] = p
  BY DEF Contains
<1> QED
  BY <1>1 DEF PositionOf

LEMMA ContainsInSet ==
    ASSUME NEW l \in Seq(Plans), NEW p
    PROVE  Contains(l, p) <=> p \in ToSet(l)
BY DEF Contains, ToSet

(* No plan is in the list twice. *)
Distinct(l) == \A i, j \in DOMAIN l : l[i] = l[j] => i = j

LEMMA InsertType ==
    ASSUME NEW l \in Seq(Plans), NEW i \in 1..(Len(l) + 1), NEW p \in Plans
    PROVE  /\ InsertAt(l, i, p) \in Lists
           /\ ToSet(InsertAt(l, i, p)) = ToSet(l) \cup {p}
           /\ Distinct(l) /\ p \notin ToSet(l) => Distinct(InsertAt(l, i, p))
<1> DEFINE m == InsertAt(l, i, p)
           front == SubSeq(l, 1, i - 1)
           back == SubSeq(l, i, Len(l))
           n == Len(l)
<1>0. n \in Nat /\ DOMAIN l = 1..n /\ i \in Int
  BY LenProperties
<1>1. /\ front \in Seq(Plans) /\ Len(front) = i - 1
      /\ \A k \in 1..(i - 1) : front[k] = l[k]
  <2>1. \A k \in 1..(i - 1) : l[k] \in Plans
    BY <1>0, ElementOfSeq
  <2>2. /\ front \in Seq(Plans)
        /\ Len(front) = IF 1 <= i - 1 THEN (i - 1) - 1 + 1 ELSE 0
        /\ \A k \in 1..((i - 1) - 1 + 1) : front[k] = l[1 + k - 1]
    BY <1>0, <2>1, SubSeqProperties
  <2>3. \A k \in 1..(i - 1) : 1 + k - 1 = k
    BY <1>0
  <2>4. ((i - 1) - 1 + 1) = i - 1 /\ (~(1 <= i - 1) => i - 1 = 0)
    BY <1>0
  <2> QED
    BY <2>2, <2>3, <2>4
<1>2. /\ back \in Seq(Plans) /\ Len(back) = n - i + 1
      /\ \A k \in 1..(n - i + 1) : back[k] = l[i + k - 1]
  <2>1. \A k \in i..n : l[k] \in Plans
    BY <1>0, ElementOfSeq
  <2>2. ~(i <= n) => n - i + 1 = 0
    BY <1>0
  <2> QED
    BY <1>0, <2>1, <2>2, SubSeqProperties
<1>3. <<p>> \in Seq(Plans) /\ Len(<<p>>) = 1 /\ <<p>>[1] = p
  OBVIOUS
<1>4. /\ front \o <<p>> \in Seq(Plans) /\ Len(front \o <<p>>) = i
      /\ \A k \in 1..i : (front \o <<p>>)[k] = IF k < i THEN l[k] ELSE p
  <2>1. /\ front \o <<p>> \in Seq(Plans) /\ Len(front \o <<p>>) = (i - 1) + 1
        /\ \A k \in 1..((i - 1) + 1) :
              (front \o <<p>>)[k] = IF k <= i - 1 THEN front[k] ELSE <<p>>[k - (i - 1)]
    BY <1>1, <1>3, ConcatProperties
  <2>2. ASSUME NEW k \in 1..i
        PROVE  (front \o <<p>>)[k] = IF k < i THEN l[k] ELSE p
    <3>1. CASE k < i
      <4>1. k \in 1..(i - 1) /\ k <= i - 1 /\ k \in 1..((i - 1) + 1)
        BY <1>0, <3>1
      <4> QED
        BY <1>1, <2>1, <3>1, <4>1
    <3>2. CASE ~(k < i)
      <4>1. k = i /\ ~(k <= i - 1) /\ k \in 1..((i - 1) + 1) /\ k - (i - 1) = 1
        BY <1>0, <3>2
      <4> QED
        BY <1>3, <2>1, <3>2, <4>1
    <3> QED
      BY <3>1, <3>2
  <2> QED
    BY <1>0, <2>1, <2>2
<1>5. /\ m \in Seq(Plans) /\ Len(m) = n + 1
      /\ \A k \in 1..(n + 1) : m[k] = IF k < i THEN l[k] ELSE IF k = i THEN p ELSE l[k - 1]
  <2>1. m = (front \o <<p>>) \o back
    BY DEF InsertAt
  <2>2. /\ m \in Seq(Plans) /\ Len(m) = i + (n - i + 1)
        /\ \A k \in 1..(i + (n - i + 1)) :
              m[k] = IF k <= i THEN (front \o <<p>>)[k] ELSE back[k - i]
    <3> DEFINE lead == front \o <<p>>
    <3>1. lead \in Seq(Plans) /\ Len(lead) = i /\ back \in Seq(Plans) /\ Len(back) = n - i + 1
      BY <1>2, <1>4
    <3>2. m = lead \o back
      BY <2>1
    <3> HIDE DEF lead, back, m
    <3>3. /\ lead \o back \in Seq(Plans) /\ Len(lead \o back) = Len(lead) + Len(back)
          /\ \A k \in 1..(Len(lead) + Len(back)) :
                (lead \o back)[k] = IF k <= Len(lead) THEN lead[k] ELSE back[k - Len(lead)]
      BY <3>1, ConcatProperties
    <3>4. /\ m \in Seq(Plans) /\ Len(m) = i + (n - i + 1)
          /\ \A k \in 1..(i + (n - i + 1)) : m[k] = IF k <= i THEN lead[k] ELSE back[k - i]
      BY <3>1, <3>2, <3>3
    <3> QED
      BY <3>4 DEF lead
  <2>3. ASSUME NEW k \in 1..(n + 1)
        PROVE  m[k] = IF k < i THEN l[k] ELSE IF k = i THEN p ELSE l[k - 1]
    <3>1. k \in 1..(i + (n - i + 1)) /\ k \in Int
      BY <1>0
    <3>2. CASE k <= i
      <4>1. k \in 1..i
        BY <1>0, <3>2
      <4>2. ~(k < i) => k = i
        BY <1>0, <3>2
      <4> QED
        BY <1>4, <2>2, <3>1, <3>2, <4>1, <4>2
    <3>3. CASE ~(k <= i)
      <4>1. k - i \in 1..(n - i + 1) /\ i + (k - i) - 1 = k - 1 /\ ~(k < i) /\ k # i
        BY <1>0, <3>3
      <4> QED
        BY <1>2, <2>2, <3>1, <3>3, <4>1
    <3> QED
      BY <3>2, <3>3
  <2> QED
    BY <1>0, <2>2, <2>3
<1> HIDE DEF m
<1>6. DOMAIN m = 1..(n + 1)
  BY <1>5
<1>7. ToSet(m) = ToSet(l) \cup {p}
  <2>1. ASSUME NEW k \in DOMAIN m
        PROVE  m[k] \in ToSet(l) \cup {p}
    <3>1. k < i => k \in DOMAIN l
      BY <1>0, <1>6
    <3>2. ~(k < i) /\ k # i => k - 1 \in DOMAIN l
      BY <1>0, <1>6
    <3> QED
      BY <1>5, <1>6, <3>1, <3>2 DEF ToSet
  <2>2. ASSUME NEW k \in DOMAIN l
        PROVE  l[k] \in ToSet(m)
    <3>1. k < i => k \in DOMAIN m
      BY <1>0, <1>6
    <3>2. ~(k < i) => k + 1 \in DOMAIN m /\ ~(k + 1 < i) /\ k + 1 # i /\ (k + 1) - 1 = k
      BY <1>0, <1>6
    <3> QED
      BY <1>5, <1>6, <3>1, <3>2 DEF ToSet
  <2>3. p \in ToSet(m)
    <3>1. i \in DOMAIN m /\ ~(i < i)
      BY <1>0, <1>6
    <3> QED
      BY <1>5, <1>6, <3>1 DEF ToSet
  <2> QED
    BY <2>1, <2>2, <2>3 DEF ToSet
<1>8. ASSUME Distinct(l), p \notin ToSet(l), NEW j \in DOMAIN m, NEW k \in DOMAIN m, m[j] = m[k]
      PROVE  j = k
  <2>1. \A a \in DOMAIN l : l[a] # p
    BY <1>8 DEF ToSet
  <2>2. \A a \in DOMAIN l, b \in DOMAIN l : l[a] = l[b] => a = b
    BY <1>8 DEF Distinct
  <2> DEFINE old(x) == IF x < i THEN x ELSE x - 1
  <2>3. \A x \in DOMAIN m \ {i} : old(x) \in DOMAIN l /\ m[x] = l[old(x)]
    <3> TAKE x \in DOMAIN m \ {i}
    <3>1. x \in 1..(n + 1) /\ x # i
      BY <1>6
    <3>2. m[x] = IF x < i THEN l[x] ELSE l[x - 1]
      BY <1>5, <3>1
    <3>3. old(x) \in DOMAIN l
      BY <1>0, <3>1
    <3> QED
      BY <3>2, <3>3
  <2>4. \A x, y \in DOMAIN m \ {i} : old(x) = old(y) => x = y
    <3> SUFFICES ASSUME NEW x \in 1..(n + 1), NEW y \in 1..(n + 1), x # i, y # i, old(x) = old(y)
                 PROVE  x = y
      BY <1>6
    <3>1. x \in Int /\ y \in Int
      BY <1>0
    <3> QED
      BY <1>0, <3>1
  <2>5. m[i] = p
    <3>1. i \in 1..(n + 1) /\ ~(i < i)
      BY <1>0
    <3> QED
      BY <1>5, <3>1
  <2> HIDE DEF old
  <2>6. CASE j = i \/ k = i
    BY <1>8, <2>1, <2>3, <2>5, <2>6
  <2>7. CASE j # i /\ k # i
    BY <1>8, <2>2, <2>3, <2>4, <2>7
  <2> QED
    BY <2>6, <2>7
<1>9. m \in Lists
  BY <1>0, <1>5, EmptySeq DEF Lists
<1> QED
  BY <1>7, <1>8, <1>9 DEF m, Distinct

LEMMA AppendType ==
    ASSUME NEW l \in Seq(Plans), NEW p \in Plans
    PROVE  /\ Append(l, p) \in Lists
           /\ ToSet(Append(l, p)) = ToSet(l) \cup {p}
           /\ Distinct(l) /\ p \notin ToSet(l) => Distinct(Append(l, p))
<1>0. Len(l) \in Nat
  BY LenProperties
<1>1. Append(l, p) = InsertAt(l, Len(l) + 1, p)
  <2>1. /\ SubSeq(l, 1, Len(l) + 1 - 1) = l
        /\ SubSeq(l, Len(l) + 1, Len(l)) = <<>>
    <3>1. Len(l) + 1 - 1 = Len(l) /\ Len(l) < Len(l) + 1
      BY <1>0
    <3> QED
      BY <1>0, <3>1, SubSeqFull, SubSeqEmpty
  <2>2. l \o <<p>> \o <<>> = l \o <<p>>
    BY ConcatEmptySeq, ConcatProperties
  <2>3. Append(l, p) = l \o <<p>>
    BY AppendIsConcat
  <2> QED
    BY <2>1, <2>2, <2>3 DEF InsertAt
<1>2. Len(l) + 1 \in 1..(Len(l) + 1)
  BY <1>0
<1> QED
  BY <1>1, <1>2, InsertType

LEMMA PlaceType ==
    ASSUME NEW plans \in Seq(Plans), NEW list \in Seq(Plans), NEW n \in DOMAIN list
    PROVE  /\ Place(plans, list, n) \in Lists
           /\ ToSet(Place(plans, list, n)) = ToSet(plans) \cup {list[n]}
           /\ Distinct(plans) /\ list[n] \notin ToSet(plans) => Distinct(Place(plans, list, n))
<1> DEFINE before == {i \in 1..(n - 1) : Contains(plans, list[i])}
           at == PositionOf(plans, list[Max(before)])
<1>0. /\ n \in 1..Len(list) /\ Len(list) \in Nat /\ n - 1 \in Nat
      /\ list[n] \in Plans /\ Len(plans) \in Nat /\ DOMAIN plans = 1..Len(plans)
  BY LenProperties, ElementOfSeq
<1>1. CASE before = {}
  <2>1. Place(plans, list, n) = Append(plans, list[n])
    BY <1>1 DEF Place
  <2> QED
    BY <1>0, <2>1, AppendType
<1>2. CASE before # {}
  <2>1. Max(before) \in before
    BY <1>0, <1>2, MaxOf
  <2>2. at \in DOMAIN plans
    BY <2>1, PositionFound
  <2>3. at + 1 \in 1..(Len(plans) + 1)
    BY <1>0, <2>2
  <2>4. Place(plans, list, n) = InsertAt(plans, at + 1, list[n])
    BY <1>2 DEF Place
  <2> HIDE DEF at
  <2> QED
    BY <1>0, <2>3, <2>4, InsertType
<1> QED
  BY <1>1, <1>2

(* The plans of a merged list: the stored ones and the kept ones.           *)
LEMMA MergeType ==
    ASSUME NEW stored \in Lists, NEW list \in Seq(Plans), NEW kept
    PROVE  /\ MergeLists(stored, list, kept) \in Lists
           /\ ToSet(MergeLists(stored, list, kept)) = ToSet(stored) \cup (kept \cap ToSet(list))
           /\ Distinct(stored) /\ Distinct(list) /\ kept \cap ToSet(stored) = {}
                => Distinct(MergeLists(stored, list, kept))
<1> DEFINE L == Len(list)
           Step(n, v) == IF list[n] \in kept THEN Place(v, list, n) ELSE v
           Upto(k, g) == g = [n \in 0..k |-> IF n = 0 THEN stored ELSE Step(n, g[n - 1])]
           Merge == CHOOSE g : Upto(L, g)
           Placed(n) == {list[i] : i \in {i \in 1..n : list[i] \in kept}}
           Good(n, v) == /\ v \in Lists
                         /\ ToSet(v) = ToSet(stored) \cup Placed(n)
                         /\ Distinct(stored) /\ Distinct(list) /\ kept \cap ToSet(stored) = {} => Distinct(v)
<1>0. L \in Nat /\ DOMAIN list = 1..L /\ stored \in Seq(Plans)
  BY LenProperties DEF Lists
<1>1. \E g : Upto(L, g)
  <2> DEFINE D == {k \in 0..L : \E g : Upto(k, g)}
  <2>1. 0 \in D
    <3>1. Upto(0, [n \in 0..0 |-> stored])
      OBVIOUS
    <3> HIDE DEF Upto
    <3>2. \E g : Upto(0, g)
      BY <3>1
    <3> QED
      BY <1>0, <3>2
  <2>2. ASSUME NEW k \in 1..L, k - 1 \in D
        PROVE  k \in D
    <3>1. PICK g : Upto(k - 1, g)
      BY <2>2
    <3> DEFINE h == [n \in 0..k |-> IF n = k THEN Step(k, g[k - 1]) ELSE g[n]]
    <3>2. ASSUME NEW n \in 0..k
          PROVE  h[n] = IF n = 0 THEN stored ELSE Step(n, h[n - 1])
      <4>1. CASE n = k
        <5>1. n # 0 /\ n - 1 \in 0..k /\ n - 1 # k /\ n - 1 = k - 1
          BY <4>1
        <5>2. h[n - 1] = g[k - 1] /\ h[n] = Step(k, g[k - 1])
          BY <4>1, <5>1
        <5> HIDE DEF Step, h
        <5> QED
          BY <4>1, <5>1, <5>2
      <4>2. CASE n # k
        <5>1. n \in 0..(k - 1) /\ h[n] = g[n]
          BY <4>2
        <5>2. n # 0 => h[n - 1] = g[n - 1]
          BY <4>2
        <5>3. g[n] = IF n = 0 THEN stored ELSE Step(n, g[n - 1])
          BY <3>1, <5>1
        <5> HIDE DEF Step, h
        <5> QED
          BY <5>1, <5>2, <5>3
      <4> QED
        BY <4>1, <4>2
    <3>3. h = [n \in 0..k |-> h[n]]
      OBVIOUS
    <3> HIDE DEF Step, h
    <3>4. Upto(k, h)
      BY <3>2, <3>3
    <3> QED
      BY <3>4
  <2>3. 0..L \subseteq D
    <3> HIDE DEF D
    <3> QED
      BY <1>0, <2>1, <2>2, UpTo
  <2> QED
    BY <1>0, <2>3
<1>2. MergeLists(stored, list, kept) = Merge[L]
  BY DEF MergeLists
<1>3. Upto(L, Merge)
  <2> HIDE DEF Upto
  <2> QED
    BY <1>1
<1>4. /\ Merge[0] = stored
      /\ \A n \in 1..L : Merge[n] = Step(n, Merge[n - 1])
  <2> HIDE DEF Merge, Step
  <2>1. \A n \in 0..L : Merge[n] = IF n = 0 THEN stored ELSE Step(n, Merge[n - 1])
    BY <1>3
  <2>2. 0 \in 0..L /\ \A n \in 1..L : n \in 0..L /\ n # 0
    BY <1>0
  <2> QED
    BY <2>1, <2>2
<1> HIDE DEF Merge
<1>5. Good(0, Merge[0])
  <2>1. Placed(0) = {}
    OBVIOUS
  <2> QED
    BY <1>4, <2>1
<1>6. ASSUME NEW n \in 1..L, Good(n - 1, Merge[n - 1])
      PROVE  Good(n, Merge[n])
  <2> DEFINE v == Merge[n - 1]
  <2>1. 1..n = (1..(n - 1)) \cup {n}
    BY <1>0
  <2>2. n \in DOMAIN list /\ v \in Seq(Plans)
    BY <1>0, <1>6 DEF Lists
  <2>3. CASE list[n] \in kept
    <3>1. Merge[n] = Place(v, list, n)
      BY <1>4, <2>3
    <3>2. Placed(n) = Placed(n - 1) \cup {list[n]}
      BY <2>1, <2>3
    <3>3. ASSUME Distinct(list), kept \cap ToSet(stored) = {}
          PROVE  list[n] \notin ToSet(v)
      <4>1. list[n] \notin ToSet(stored)
        BY <2>3, <3>3
      <4>2. \A i \in 1..(n - 1) : i \in DOMAIN list /\ i # n
        BY <1>0
      <4>3. list[n] \notin Placed(n - 1)
        BY <2>2, <3>3, <4>2 DEF Distinct
      <4> QED
        BY <1>6, <4>1, <4>3
    <3>4. /\ Merge[n] \in Lists
          /\ ToSet(Merge[n]) = ToSet(v) \cup {list[n]}
          /\ Distinct(v) /\ list[n] \notin ToSet(v) => Distinct(Merge[n])
      BY <2>2, <3>1, PlaceType
    <3>5. ToSet(Merge[n]) = ToSet(stored) \cup Placed(n)
      <4>1. ToSet(v) = ToSet(stored) \cup Placed(n - 1)
        BY <1>6
      <4> HIDE DEF Placed
      <4> QED
        BY <3>2, <3>4, <4>1
    <3> QED
      BY <1>6, <3>3, <3>4, <3>5
  <2>4. CASE list[n] \notin kept
    <3>1. Merge[n] = v
      BY <1>4, <2>4
    <3>2. Placed(n) = Placed(n - 1)
      BY <2>1, <2>4
    <3> QED
      BY <1>6, <3>1, <3>2
  <2> QED
    BY <2>3, <2>4
<1>7. Good(L, Merge[L])
  <2> DEFINE D == {n \in 0..L : Good(n, Merge[n])}
  <2>1. 0 \in D /\ \A n \in 1..L : n - 1 \in D => n \in D
    <3> HIDE DEF Good
    <3>1. 0 \in 0..L /\ \A n \in 1..L : n \in 0..L
      BY <1>0
    <3> QED
      BY <1>5, <1>6, <3>1
  <2>2. 0..L \subseteq D
    <3> HIDE DEF D
    <3> QED
      BY <1>0, <2>1, UpTo
  <2> QED
    BY <1>0, <2>2
<1>8. Placed(L) = kept \cap ToSet(list)
  BY <1>0 DEF ToSet
<1> QED
  <2> HIDE DEF Placed
  <2> QED
    BY <1>2, <1>7, <1>8

LEMMA RemoveType ==
    ASSUME NEW l \in Seq(Plans), NEW i \in DOMAIN l
    PROVE  /\ RemoveAt(l, i) \in Seq(Plans)
           /\ Len(RemoveAt(l, i)) = Len(l) - 1
           /\ ToSet(RemoveAt(l, i)) \subseteq ToSet(l)
           /\ Distinct(l) => /\ Distinct(RemoveAt(l, i))
                             /\ ToSet(RemoveAt(l, i)) = ToSet(l) \ {l[i]}
<1> DEFINE m == RemoveAt(l, i)
           front == SubSeq(l, 1, i - 1)
           back == SubSeq(l, i + 1, Len(l))
           n == Len(l)
           old(x) == IF x < i THEN x ELSE x + 1
<1>0. n \in Nat /\ DOMAIN l = 1..n /\ i \in 1..n /\ i \in Int
  BY LenProperties
<1>1. /\ front \in Seq(Plans) /\ Len(front) = i - 1
      /\ \A k \in 1..(i - 1) : front[k] = l[k]
  <2>1. \A k \in 1..(i - 1) : l[k] \in Plans
    BY <1>0, ElementOfSeq
  <2>2. /\ front \in Seq(Plans)
        /\ Len(front) = IF 1 <= i - 1 THEN (i - 1) - 1 + 1 ELSE 0
        /\ \A k \in 1..((i - 1) - 1 + 1) : front[k] = l[1 + k - 1]
    BY <1>0, <2>1, SubSeqProperties
  <2>3. \A k \in 1..(i - 1) : 1 + k - 1 = k
    BY <1>0
  <2>4. ((i - 1) - 1 + 1) = i - 1 /\ (~(1 <= i - 1) => i - 1 = 0)
    BY <1>0
  <2> QED
    BY <2>2, <2>3, <2>4
<1>2. /\ back \in Seq(Plans) /\ Len(back) = n - i
      /\ \A k \in 1..(n - i) : back[k] = l[i + k]
  <2>1. \A k \in (i + 1)..n : l[k] \in Plans
    BY <1>0, ElementOfSeq
  <2>2. /\ back \in Seq(Plans)
        /\ Len(back) = IF i + 1 <= n THEN n - (i + 1) + 1 ELSE 0
        /\ \A k \in 1..(n - (i + 1) + 1) : back[k] = l[(i + 1) + k - 1]
    BY <1>0, <2>1, SubSeqProperties
  <2>3. \A k \in 1..(n - i) : (i + 1) + k - 1 = i + k
    BY <1>0
  <2>4. n - (i + 1) + 1 = n - i /\ (~(i + 1 <= n) => n - i = 0)
    BY <1>0
  <2> QED
    BY <2>2, <2>3, <2>4
<1>3. /\ m \in Seq(Plans) /\ Len(m) = n - 1
      /\ \A k \in 1..(n - 1) : m[k] = l[old(k)]
  <2>1. m = front \o back
    BY DEF RemoveAt
  <2>2. /\ m \in Seq(Plans) /\ Len(m) = (i - 1) + (n - i)
        /\ \A k \in 1..((i - 1) + (n - i)) :
              m[k] = IF k <= i - 1 THEN front[k] ELSE back[k - (i - 1)]
    <3> HIDE DEF front, back
    <3>1. /\ front \o back \in Seq(Plans) /\ Len(front \o back) = Len(front) + Len(back)
          /\ \A k \in 1..(Len(front) + Len(back)) :
                (front \o back)[k] = IF k <= Len(front) THEN front[k] ELSE back[k - Len(front)]
      BY <1>1, <1>2, ConcatProperties
    <3> QED
      BY <1>1, <1>2, <2>1, <3>1
  <2>3. ASSUME NEW k \in 1..(n - 1)
        PROVE  m[k] = l[old(k)]
    <3>1. k \in 1..((i - 1) + (n - i)) /\ k \in Int
      BY <1>0
    <3>2. CASE k < i
      <4>1. k \in 1..(i - 1) /\ k <= i - 1
        BY <1>0, <3>1, <3>2
      <4> QED
        BY <1>1, <2>2, <3>1, <3>2, <4>1
    <3>3. CASE ~(k < i)
      <4>1. k - (i - 1) \in 1..(n - i) /\ i + (k - (i - 1)) = k + 1 /\ ~(k <= i - 1)
        BY <1>0, <3>1, <3>3
      <4> QED
        BY <1>2, <2>2, <3>1, <3>3, <4>1
    <3> QED
      BY <3>2, <3>3
  <2> QED
    BY <1>0, <2>2, <2>3
<1> HIDE DEF m
<1>4. DOMAIN m = 1..(n - 1)
  BY <1>3
<1>5. \A x \in DOMAIN m : old(x) \in DOMAIN l /\ old(x) # i
  <2> SUFFICES ASSUME NEW x \in 1..(n - 1)
               PROVE  old(x) \in DOMAIN l /\ old(x) # i
    BY <1>4
  <2>1. x \in Int
    BY <1>0
  <2> QED
    BY <1>0, <2>1
<1>6. \A x, y \in DOMAIN m : old(x) = old(y) => x = y
  <2> SUFFICES ASSUME NEW x \in 1..(n - 1), NEW y \in 1..(n - 1), old(x) = old(y)
               PROVE  x = y
    BY <1>4
  <2>1. x \in Int /\ y \in Int
    BY <1>0
  <2> QED
    BY <1>0, <2>1
<1>7. \A j \in DOMAIN l \ {i} : \E x \in DOMAIN m : old(x) = j
  <2> SUFFICES ASSUME NEW j \in 1..n, j # i
               PROVE  \E x \in 1..(n - 1) : old(x) = j
    BY <1>0, <1>4
  <2>1. CASE j < i
    <3>1. j \in 1..(n - 1) /\ old(j) = j
      BY <1>0, <2>1
    <3> QED
      BY <3>1
  <2>2. CASE ~(j < i)
    <3>1. j - 1 \in 1..(n - 1) /\ old(j - 1) = j
      BY <1>0, <2>2
    <3> QED
      BY <3>1
  <2> QED
    BY <2>1, <2>2
<1> HIDE DEF old
<1>8. ToSet(m) \subseteq ToSet(l)
  BY <1>3, <1>4, <1>5 DEF ToSet
<1>9. ASSUME Distinct(l)
      PROVE  Distinct(m) /\ ToSet(m) = ToSet(l) \ {l[i]}
  <2>1. \A a, b \in DOMAIN l : l[a] = l[b] => a = b
    BY <1>9 DEF Distinct
  <2>2. \A x \in DOMAIN m : m[x] = l[old(x)]
    BY <1>3, <1>4
  <2>3. Distinct(m)
    BY <1>5, <1>6, <2>1, <2>2 DEF Distinct
  <2>4. l[i] \notin ToSet(m)
    BY <1>5, <2>1, <2>2 DEF ToSet
  <2>5. ToSet(l) \ {l[i]} \subseteq ToSet(m)
    BY <1>7, <2>2 DEF ToSet
  <2> QED
    BY <1>8, <2>3, <2>4, <2>5
<1> QED
  BY <1>3, <1>8, <1>9 DEF m

(* The plan a tab moves to is one of the merged list.                       *)
LEMMA NeighbourType ==
    ASSUME NEW list \in Seq(Plans), NEW active, NEW plans \in Lists
    PROVE  Neighbour(list, active, plans) \in ToSet(plans)
<1> DEFINE alive == {i \in DOMAIN list : Contains(plans, list[i])}
           after == {i \in alive : i > PositionOf(list, active)}
<1>0. /\ Len(list) \in Nat /\ DOMAIN list = 1..Len(list)
      /\ plans \in Seq(Plans) /\ Len(plans) \in Nat \ {0} /\ DOMAIN plans = 1..Len(plans)
  BY LenProperties, EmptySeq DEF Lists
<1>1. after \in SUBSET Nat /\ alive \in SUBSET (1..Len(list))
  BY <1>0
<1>2. CASE after # {}
  <2>1. Min(after) \in after
    BY <1>1, <1>2, MinOf
  <2>2. Neighbour(list, active, plans) = list[Min(after)]
    BY <1>2 DEF Neighbour
  <2> HIDE DEF after
  <2>3. Contains(plans, list[Min(after)])
    BY <2>1 DEF after
  <2> QED
    BY <1>0, <2>2, <2>3, ContainsInSet
<1>3. CASE after = {} /\ alive # {}
  <2>1. Max(alive) \in alive
    BY <1>0, <1>1, <1>3, MaxOf
  <2>2. Neighbour(list, active, plans) = list[Max(alive)]
    BY <1>3 DEF Neighbour
  <2> HIDE DEF alive
  <2>3. Contains(plans, list[Max(alive)])
    BY <2>1 DEF alive
  <2> QED
    BY <1>0, <2>2, <2>3, ContainsInSet
<1>4. CASE after = {} /\ alive = {}
  <2>1. Neighbour(list, active, plans) = plans[1]
    BY <1>4 DEF Neighbour
  <2>2. 1 \in DOMAIN plans
    BY <1>0
  <2> QED
    BY <2>1, <2>2 DEF ToSet
<1> QED
  BY <1>2, <1>3, <1>4

(* A rebuilt index lists the plans found, each once.                        *)
LEMMA RecoverType ==
    ASSUME NEW S, NEW s
    PROVE  /\ RecoverIndex(S, s) \in Seq(Plans)
           /\ ToSet(RecoverIndex(S, s)) = {p \in Plans : S.docs[s][p] # Absent}
           /\ Distinct(RecoverIndex(S, s))
<1> DEFINE L == MaxPlans
           Step(n, v) == IF S.docs[s][n] # Absent THEN Append(v, n) ELSE v
           Upto(k, g) == g = [n \in 0..k |-> IF n = 0 THEN <<>> ELSE Step(n, g[n - 1])]
           Found == CHOOSE g : Upto(L, g)
           Good(n, v) == /\ v \in Seq(Plans)
                         /\ ToSet(v) = {p \in 1..n : S.docs[s][p] # Absent}
                         /\ Distinct(v)
<1>0. L \in Nat
  BY PlanStoreAssumption
<1>1. \E g : Upto(L, g)
  <2> DEFINE D == {k \in 0..L : \E g : Upto(k, g)}
  <2>1. 0 \in D
    <3>1. Upto(0, [n \in 0..0 |-> <<>>])
      OBVIOUS
    <3> HIDE DEF Upto
    <3>2. \E g : Upto(0, g)
      BY <3>1
    <3> QED
      BY <1>0, <3>2
  <2>2. ASSUME NEW k \in 1..L, k - 1 \in D
        PROVE  k \in D
    <3>1. PICK g : Upto(k - 1, g)
      BY <2>2
    <3> DEFINE h == [n \in 0..k |-> IF n = k THEN Step(k, g[k - 1]) ELSE g[n]]
    <3>2. ASSUME NEW n \in 0..k
          PROVE  h[n] = IF n = 0 THEN <<>> ELSE Step(n, h[n - 1])
      <4>1. CASE n = k
        <5>1. n # 0 /\ n - 1 \in 0..k /\ n - 1 # k /\ n - 1 = k - 1
          BY <4>1
        <5>2. h[n - 1] = g[k - 1] /\ h[n] = Step(k, g[k - 1])
          BY <4>1, <5>1
        <5> HIDE DEF Step, h
        <5> QED
          BY <4>1, <5>1, <5>2
      <4>2. CASE n # k
        <5>1. n \in 0..(k - 1) /\ h[n] = g[n]
          BY <4>2
        <5>2. n # 0 => h[n - 1] = g[n - 1]
          BY <4>2
        <5>3. g[n] = IF n = 0 THEN <<>> ELSE Step(n, g[n - 1])
          BY <3>1, <5>1
        <5> HIDE DEF Step, h
        <5> QED
          BY <5>1, <5>2, <5>3
      <4> QED
        BY <4>1, <4>2
    <3>3. h = [n \in 0..k |-> h[n]]
      OBVIOUS
    <3> HIDE DEF Step, h
    <3>4. Upto(k, h)
      BY <3>2, <3>3
    <3> QED
      BY <3>4
  <2>3. 0..L \subseteq D
    <3> HIDE DEF D
    <3> QED
      BY <1>0, <2>1, <2>2, UpTo
  <2>4. L \in D
    <3> HIDE DEF D
    <3> QED
      BY <1>0, <2>3
  <2> HIDE DEF Upto
  <2> QED
    BY <2>4
<1>2. RecoverIndex(S, s) = Found[L]
  BY DEF RecoverIndex
<1>3. Upto(L, Found)
  <2> HIDE DEF Upto
  <2> QED
    BY <1>1
<1>4. /\ Found[0] = <<>>
      /\ \A n \in 1..L : Found[n] = Step(n, Found[n - 1])
  <2> HIDE DEF Found, Step
  <2>1. \A n \in 0..L : Found[n] = IF n = 0 THEN <<>> ELSE Step(n, Found[n - 1])
    BY <1>3
  <2>2. 0 \in 0..L /\ \A n \in 1..L : n \in 0..L /\ n # 0
    BY <1>0
  <2> QED
    BY <2>1, <2>2
<1> HIDE DEF Found
<1>5. Good(0, Found[0])
  <2>1. <<>> \in Seq(Plans) /\ DOMAIN <<>> = {}
    OBVIOUS
  <2> QED
    BY <1>4, <2>1 DEF ToSet, Distinct
<1>6. ASSUME NEW n \in 1..L, Good(n - 1, Found[n - 1])
      PROVE  Good(n, Found[n])
  <2> DEFINE v == Found[n - 1]
  <2>1. 1..n = (1..(n - 1)) \cup {n} /\ n \in Plans /\ n \notin 1..(n - 1)
    BY <1>0 DEF Plans
  <2>2. CASE S.docs[s][n] # Absent
    <3>1. Found[n] = Append(v, n)
      BY <1>4, <2>2
    <3>2. n \notin ToSet(v)
      BY <1>6, <2>1
    <3>3. /\ Found[n] \in Seq(Plans)
          /\ ToSet(Found[n]) = ToSet(v) \cup {n}
          /\ Distinct(Found[n])
      BY <1>6, <2>1, <3>1, <3>2, AppendType DEF Lists
    <3>4. {p \in 1..n : S.docs[s][p] # Absent} = {p \in 1..(n - 1) : S.docs[s][p] # Absent} \cup {n}
      BY <2>1, <2>2
    <3> QED
      BY <1>6, <3>3, <3>4
  <2>3. CASE S.docs[s][n] = Absent
    <3>1. Found[n] = v
      BY <1>4, <2>3
    <3>2. {p \in 1..n : S.docs[s][p] # Absent} = {p \in 1..(n - 1) : S.docs[s][p] # Absent}
      BY <2>1, <2>3
    <3> QED
      BY <1>6, <3>1, <3>2
  <2> QED
    BY <2>2, <2>3
<1>7. Good(L, Found[L])
  <2> DEFINE D == {n \in 0..L : Good(n, Found[n])}
  <2>1. 0 \in D /\ \A n \in 1..L : n - 1 \in D => n \in D
    <3> HIDE DEF Good
    <3>1. 0 \in 0..L /\ \A n \in 1..L : n \in 0..L
      BY <1>0
    <3> QED
      BY <1>5, <1>6, <3>1
  <2>2. 0..L \subseteq D
    <3> HIDE DEF D
    <3> QED
      BY <1>0, <2>1, UpTo
  <2> QED
    BY <1>0, <2>2
<1> QED
  BY <1>2, <1>7 DEF Plans

-----------------------------------------------------------------------------
(* The type of a view. *)

Contents == {Absent, Corrupt} \cup [kind : {"plan"}, plan : Plans \cup {0}, edit : Nat]
Indexes == {Absent, Corrupt} \cup [kind : {"index"}, plans : Lists, active : Plans]
OldValues == {Absent, OldContent, Corrupt}
Keys == Sources \X (0..MaxPlans)
Statuses == [kind : {"loading", "loaded", "error"}, id : Sources]
TabViews ==
    [source : Sources \cup {NoSource}, list : Seq(Plans), active : Plans \cup {0},
     shown : Contents, pending : SUBSET Plans, synced : Indexes, removed : BOOLEAN,
     status : Statuses, told : BOOLEAN, unwritten : BOOLEAN]
Kinds == {"index", "plan", "copy"}
Views ==
    [index : [Sources -> Indexes], docs : [Sources -> [Plans -> Contents]],
     legacy : [Sources \cup {NoSource} -> OldValues], copies : SUBSET Keys,
     next : Nat, uncopied : SUBSET Keys, writer : [Plans -> Tabs \cup {0}],
     deleted : SUBSET Plans, gone : SUBSET Plans, unlisted : SUBSET Plans,
     tab : TabViews, me : Tabs, refuses : SUBSET Kinds]

(* All fields of a view, or a tab, but the changed ones are the same.       *)
ViewFields ==
    {"index", "docs", "legacy", "copies", "next", "uncopied", "writer", "deleted",
     "gone", "unlisted", "tab", "me", "refuses"}
TabFields ==
    {"source", "list", "active", "shown", "pending", "synced", "removed", "status",
     "told", "unwritten"}
Only(S, T, changed) == \A f \in ViewFields \ changed : T[f] = S[f]
OnlyTab(t, u, changed) == \A f \in TabFields \ changed : u[f] = t[f]

LEMMA ContentKinds ==
    ASSUME NEW c \in Contents
    PROVE  /\ c.kind = "plan" => c \in [kind : {"plan"}, plan : Plans \cup {0}, edit : Nat]
           /\ c.kind # "plan" => c = Absent \/ c = Corrupt
           /\ c = Absent => c.kind = "absent"
           /\ c = Corrupt => c.kind = "corrupt"
           /\ Absent # Corrupt
BY DEF Contents, Absent, Corrupt

LEMMA IndexKinds ==
    ASSUME NEW raw \in Indexes
    PROVE  /\ Readable(raw) => /\ raw \in [kind : {"index"}, plans : Lists, active : Plans]
                               /\ raw # Absent /\ raw # Corrupt
                               /\ raw.plans \in Lists /\ raw.active \in Plans
                               /\ Listed(raw) = ToSet(raw.plans)
           /\ ~Readable(raw) => (raw = Absent \/ raw = Corrupt) /\ Listed(raw) = {}
BY DEF Indexes, Absent, Corrupt, Readable, Listed

LEMMA ContentTypes ==
    /\ \A p \in Plans, e \in Nat : Content(p, e) \in Contents /\ Content(p, e).kind = "plan" /\ Content(p, e).plan = p
    /\ OldContent \in Contents /\ OldContent.kind = "plan" /\ OldContent.plan = 0
    /\ Absent \in Contents /\ Corrupt \in Contents
    /\ OldValues \subseteq Contents
BY DEF Content, Contents, OldContent, OldValues

LEMMA ListedPlans ==
    ASSUME NEW l \in Lists
    PROVE  /\ l \in Seq(Plans) /\ l[1] \in ToSet(l) /\ Head(l) = l[1]
           /\ \A p \in ToSet(l) : p \in Plans
<1>1. l \in Seq(Plans) /\ Len(l) \in Nat \ {0} /\ DOMAIN l = 1..Len(l)
  BY LenProperties, EmptySeq DEF Lists
<1>2. 1 \in DOMAIN l
  BY <1>1
<1>3. Head(l) = l[1]
  BY <1>1, HeadTailProperties DEF Lists
<1> QED
  BY <1>1, <1>2, <1>3, ElementOfSeq DEF ToSet

-----------------------------------------------------------------------------
(* What each write changes. *)

LEMMA QuarantineFacts ==
    ASSUME NEW S \in Views, NEW s \in Sources, NEW p \in Plans
    PROVE  LET T == QuarantinePlan(S, s, p)
           IN  /\ T \in Views /\ Only(S, T, {"docs", "copies", "uncopied"})
               /\ T.docs = S.docs \/ T.docs = [S.docs EXCEPT ![s][p] = Absent]
               /\ S.copies \subseteq T.copies /\ S.uncopied \subseteq T.uncopied
               /\ PlanKey(s, p) \in T.copies \cup T.uncopied
<1> DEFINE refused == [S EXCEPT !.uncopied = @ \cup {PlanKey(s, p)}]
           moved == [S EXCEPT !.copies = @ \cup {PlanKey(s, p)}, !.docs[s][p] = Absent]
<1>0. PlanKey(s, p) \in Keys
  BY DEF PlanKey, Keys, Plans
<1>1. /\ refused \in Views /\ Only(S, refused, {"docs", "copies", "uncopied"})
      /\ refused.docs = S.docs /\ refused.copies = S.copies
      /\ refused.uncopied = S.uncopied \cup {PlanKey(s, p)}
  BY <1>0 DEF Views, Only, ViewFields
<1>2. [S.docs EXCEPT ![s][p] = Absent] \in [Sources -> [Plans -> Contents]]
  BY ContentTypes DEF Views
<1>3. /\ moved \in Views /\ Only(S, moved, {"docs", "copies", "uncopied"})
      /\ moved.docs = [S.docs EXCEPT ![s][p] = Absent] /\ moved.uncopied = S.uncopied
      /\ moved.copies = S.copies \cup {PlanKey(s, p)}
  BY <1>0, <1>2 DEF Views, Only, ViewFields
<1> HIDE DEF refused, moved
<1>4. QuarantinePlan(S, s, p) = refused \/ QuarantinePlan(S, s, p) = moved
  BY DEF QuarantinePlan, refused, moved
<1> QED
  BY <1>1, <1>3, <1>4

(* A view whose tab has a plan list. *)
Opens(S) == S.tab.source \in Sources /\ S.tab.list \in Lists /\ S.tab.active \in ToSet(S.tab.list)

LEMMA TabType ==
    ASSUME NEW S \in Views
    PROVE  S.tab \in TabViews
BY DEF Views

LEMMA OpenType ==
    ASSUME NEW S \in Views, Opens(S)
    PROVE  S.tab.active \in Plans /\ S.tab.list \in Seq(Plans) /\ ToSet(S.tab.list) \subseteq Plans
BY ListedPlans DEF Opens

LEMMA StoredFacts ==
    ASSUME NEW S \in Views, S.tab.source \in Sources, S.tab.active \in Plans
    PROVE  LET T == Stored(S)
           IN  /\ T \in Views /\ Only(S, T, {"docs", "writer"})
               /\ \/ T.docs = S.docs
                  \/ /\ ~S.tab.removed
                     /\ T.docs = [S.docs EXCEPT ![S.tab.source][S.tab.active] = S.tab.shown]
<1> DEFINE s == S.tab.source
           p == S.tab.active
           refused == [S EXCEPT !.writer[p] = 0]
           stored == [S EXCEPT !.docs[s][p] = S.tab.shown, !.writer[p] = S.me]
<1>0. S.tab.shown \in Contents /\ S.me \in Tabs
  BY DEF Views, TabViews
<1>1. Only(S, S, {"docs", "writer"})
  BY DEF Only
<1>2. /\ refused \in Views /\ Only(S, refused, {"docs", "writer"}) /\ refused.docs = S.docs
  <2>1. [S.writer EXCEPT ![p] = 0] \in [Plans -> Tabs \cup {0}]
    BY DEF Views
  <2> QED
    BY <2>1 DEF Views, Only, ViewFields
<1>3. /\ stored \in Views /\ Only(S, stored, {"docs", "writer"})
      /\ stored.docs = [S.docs EXCEPT ![s][p] = S.tab.shown]
  <2>1. [S.writer EXCEPT ![p] = S.me] \in [Plans -> Tabs \cup {0}]
    BY <1>0 DEF Views
  <2>2. [S.docs EXCEPT ![s][p] = S.tab.shown] \in [Sources -> [Plans -> Contents]]
    BY <1>0 DEF Views
  <2> QED
    BY <2>1, <2>2 DEF Views, Only, ViewFields
<1> HIDE DEF refused, stored
<1>4. /\ S.tab.removed => Stored(S) = S
      /\ ~S.tab.removed => Stored(S) = refused \/ Stored(S) = stored
  BY DEF Stored, refused, stored
<1> QED
  BY <1>1, <1>2, <1>3, <1>4

(* The tab after its plan on screen, or its lists, were replaced.           *)
LEMMA ShownFacts ==
    ASSUME NEW S \in Views, NEW c \in Contents
    PROVE  LET T == [S EXCEPT !.tab.shown = c]
           IN  /\ T \in Views /\ Only(S, T, {"tab"}) /\ OnlyTab(S.tab, T.tab, {"shown"})
               /\ T.tab.shown = c
<1> DEFINE u == [S.tab EXCEPT !.shown = c]
           T == [S EXCEPT !.tab = u]
<1>1. u \in TabViews /\ OnlyTab(S.tab, u, {"shown"}) /\ u.shown = c
  BY TabType DEF TabViews, OnlyTab, TabFields
<1> HIDE DEF u
<1>2. T \in Views /\ Only(S, T, {"tab"}) /\ T.tab = u
  BY <1>1 DEF Views, Only, ViewFields
<1>3. T = [S EXCEPT !.tab.shown = c]
  BY DEF u
<1> QED
  BY <1>1, <1>2, <1>3

LEMMA OpenedFacts ==
    ASSUME NEW S \in Views, NEW raw \in Contents, S.tab.source \in Sources, S.tab.active \in Plans
    PROVE  LET T == Opened(S, raw)
           IN  /\ T \in Views /\ Only(S, T, {"docs", "copies", "uncopied", "tab"})
               /\ OnlyTab(S.tab, T.tab, {"shown"})
               /\ T.tab.shown = IF raw.kind = "plan" THEN raw ELSE Blank(S.tab.active)
               /\ \/ T.docs = S.docs
                  \/ T.docs = [S.docs EXCEPT ![S.tab.source][S.tab.active] = Absent]
               /\ S.copies \subseteq T.copies /\ S.uncopied \subseteq T.uncopied
               /\ raw = Corrupt => PlanKey(S.tab.source, S.tab.active) \in T.copies \cup T.uncopied
               /\ raw # Corrupt => T.docs = S.docs
<1> DEFINE Q == IF raw = Corrupt THEN QuarantinePlan(S, S.tab.source, S.tab.active) ELSE S
           c == IF raw.kind = "plan" THEN raw ELSE Blank(S.tab.active)
           T == [Q EXCEPT !.tab.shown = c]
<1>1. /\ Q \in Views /\ Only(S, Q, {"docs", "copies", "uncopied"})
      /\ \/ Q.docs = S.docs
         \/ Q.docs = [S.docs EXCEPT ![S.tab.source][S.tab.active] = Absent]
      /\ S.copies \subseteq Q.copies /\ S.uncopied \subseteq Q.uncopied
      /\ raw = Corrupt => PlanKey(S.tab.source, S.tab.active) \in Q.copies \cup Q.uncopied
      /\ raw # Corrupt => Q.docs = S.docs
  <2>1. CASE raw = Corrupt
    BY <2>1, QuarantineFacts
  <2>2. CASE raw # Corrupt
    BY <2>2 DEF Only
  <2> QED
    BY <2>1, <2>2
<1>2. c \in Contents
  BY ContentTypes DEF Blank
<1>3. Opened(S, raw) = T
  BY DEF Opened
<1> HIDE DEF Q, c
<1>4. /\ T \in Views /\ Only(Q, T, {"tab"}) /\ OnlyTab(Q.tab, T.tab, {"shown"})
      /\ T.tab.shown = c
  BY <1>1, <1>2, ShownFacts
<1> HIDE DEF T
<1>5. Q.tab = S.tab
  BY <1>1 DEF Only, ViewFields
<1>6. T.docs = Q.docs /\ T.copies = Q.copies /\ T.uncopied = Q.uncopied
  BY <1>4 DEF Only, ViewFields
<1>7. Only(S, T, {"docs", "copies", "uncopied", "tab"})
  BY <1>1, <1>4 DEF Only, ViewFields
<1> QED
  BY <1>1, <1>3, <1>4, <1>5, <1>6, <1>7 DEF c

(* The index was written, or what it lacks is in memory only.               *)
Written(S, T, list, hint) ==
    /\ ~S.tab.removed
    /\ T.index = [S.index EXCEPT ![S.tab.source] = Index(list, hint)]
    /\ T.tab.synced = Index(list, hint) /\ T.tab.pending = {} /\ ~T.tab.unwritten
    /\ T.unlisted = S.unlisted
Unwritten(S, T, list) ==
    /\ T.index = S.index /\ T.tab.synced = S.tab.synced /\ T.tab.unwritten
    /\ T.tab.pending = ToSet(list) \ Listed(S.index[S.tab.source])
    /\ T.unlisted = S.unlisted \cup T.tab.pending

LEMMA MarkFacts ==
    ASSUME NEW S \in Views, S.tab.source \in Sources
    PROVE  LET T == MarkUnwritten(S)
           IN  /\ T \in Views /\ Only(S, T, {"tab", "unlisted"})
               /\ OnlyTab(S.tab, T.tab, {"pending", "unwritten"})
               /\ Unwritten(S, T, S.tab.list)
<1> DEFINE lacks == ToSet(S.tab.list) \ Listed(S.index[S.tab.source])
           u == [S.tab EXCEPT !.pending = lacks, !.unwritten = TRUE]
           T == [S EXCEPT !.tab = u, !.unlisted = @ \cup lacks]
<1>0. ToSet(S.tab.list) \subseteq Plans
  <2>1. S.tab.list \in Seq(Plans)
    BY DEF Views, TabViews
  <2> QED
    BY <2>1, ElementOfSeq DEF ToSet
<1>1. lacks \subseteq Plans
  BY <1>0
<1> HIDE DEF lacks
<1>2. /\ u \in TabViews /\ OnlyTab(S.tab, u, {"pending", "unwritten"})
      /\ u.pending = lacks /\ u.unwritten = TRUE
  BY <1>1, TabType DEF TabViews, OnlyTab, TabFields
<1>3. MarkUnwritten(S) = T
  BY DEF MarkUnwritten, lacks
<1> HIDE DEF u
<1>4. /\ T \in Views /\ Only(S, T, {"tab", "unlisted"})
      /\ T.tab = u /\ T.unlisted = S.unlisted \cup lacks
  BY <1>1, <1>2 DEF Views, Only, ViewFields
<1>5. T.index = S.index
  BY <1>4 DEF Only, ViewFields
<1>6. u.synced = S.tab.synced
  BY <1>2 DEF OnlyTab, TabFields
<1> HIDE DEF T
<1> QED
  BY <1>2, <1>3, <1>4, <1>5, <1>6 DEF Unwritten, lacks

LEMMA PersistFacts ==
    ASSUME NEW S \in Views, S.tab.source \in Sources, S.tab.list \in Lists, NEW hint \in Plans
    PROVE  LET T == PersistIndex(S, hint)
           IN  /\ T \in Views /\ Only(S, T, {"index", "tab", "unlisted"})
               /\ OnlyTab(S.tab, T.tab, {"pending", "synced", "unwritten"})
               /\ Written(S, T, S.tab.list, hint) \/ Unwritten(S, T, S.tab.list)
               /\ ~S.tab.removed /\ "index" \notin S.refuses => Written(S, T, S.tab.list, hint)
<1> DEFINE written == Index(S.tab.list, hint)
           u == [S.tab EXCEPT !.synced = written, !.pending = {}, !.unwritten = FALSE]
           T == [S EXCEPT !.index[S.tab.source] = written, !.tab = u]
<1>1. written \in Indexes
  BY DEF Index, Indexes
<1> HIDE DEF written
<1>2. /\ u \in TabViews /\ OnlyTab(S.tab, u, {"pending", "synced", "unwritten"})
      /\ u.pending = {} /\ u.synced = written /\ u.unwritten = FALSE
  BY <1>1, TabType DEF TabViews, OnlyTab, TabFields
<1>3. [S.index EXCEPT ![S.tab.source] = written] \in [Sources -> Indexes]
  BY <1>1 DEF Views
<1> HIDE DEF u
<1>4. /\ T \in Views /\ Only(S, T, {"index", "tab", "unlisted"})
      /\ T.tab = u /\ T.index = [S.index EXCEPT ![S.tab.source] = written]
      /\ T.unlisted = S.unlisted
  BY <1>2, <1>3 DEF Views, Only, ViewFields
<1>5. PersistIndex(S, hint) = IF S.tab.removed \/ "index" \in S.refuses THEN MarkUnwritten(S) ELSE T
  BY DEF PersistIndex, u, written
<1> HIDE DEF T
<1>6. CASE S.tab.removed \/ "index" \in S.refuses
  <2>1. PersistIndex(S, hint) = MarkUnwritten(S)
    BY <1>5, <1>6
  <2>2. \A u1, T1 : OnlyTab(S.tab, u1, {"pending", "unwritten"}) => OnlyTab(S.tab, u1, {"pending", "synced", "unwritten"})
    BY DEF OnlyTab
  <2>3. \A T1 : Only(S, T1, {"tab", "unlisted"}) => Only(S, T1, {"index", "tab", "unlisted"})
    BY DEF Only
  <2> QED
    BY <1>6, <2>1, <2>2, <2>3, MarkFacts
<1>7. CASE ~S.tab.removed /\ "index" \notin S.refuses
  <2>1. PersistIndex(S, hint) = T
    BY <1>5, <1>7
  <2>2. Written(S, T, S.tab.list, hint)
    BY <1>2, <1>4, <1>7 DEF Written, written
  <2> QED
    BY <1>2, <1>4, <2>1, <2>2
<1> QED
  BY <1>6, <1>7

LEMMA CommitFacts ==
    ASSUME NEW S \in Views, S.tab.source \in Sources, NEW list \in Lists, NEW active \in ToSet(list),
           NEW changed \in BOOLEAN
    PROVE  LET T == CommitIndex(S, list, active, changed)
           IN  /\ T \in Views /\ Only(S, T, {"index", "tab", "unlisted"})
               /\ OnlyTab(S.tab, T.tab, {"list", "active", "pending", "synced", "unwritten"})
               /\ T.tab.list = list /\ T.tab.active = active
               /\ \/ \E hint \in ToSet(list) : Written(S, T, list, hint)
                  \/ Unwritten(S, T, list)
<1> DEFINE u == [S.tab EXCEPT !.list = list, !.active = active]
           A == [S EXCEPT !.tab = u]
           hint == IF ~changed /\ Contains(list, StoredActive(S)) THEN StoredActive(S) ELSE active
           T == PersistIndex(A, hint)
<1>0. list \in Seq(Plans) /\ active \in Plans /\ ToSet(list) \subseteq Plans
  BY ListedPlans
<1>1. /\ u \in TabViews /\ OnlyTab(S.tab, u, {"list", "active"})
      /\ u.list = list /\ u.active = active
  BY <1>0, TabType DEF TabViews, OnlyTab, TabFields
<1>2. CommitIndex(S, list, active, changed) = T
  BY DEF CommitIndex
<1>3. hint \in ToSet(list)
  BY <1>0, ContainsInSet
<1> HIDE DEF hint, u
<1>4. A \in Views /\ Only(S, A, {"tab"}) /\ A.tab = u
  BY <1>1 DEF Views, Only, ViewFields
<1> HIDE DEF A
<1>5. A.tab.source = S.tab.source /\ A.index = S.index /\ A.unlisted = S.unlisted
  BY <1>1, <1>4 DEF OnlyTab, TabFields, Only, ViewFields
<1>6. u.removed = S.tab.removed /\ u.synced = S.tab.synced
  BY <1>1 DEF OnlyTab, TabFields
<1>7. /\ T \in Views /\ Only(A, T, {"index", "tab", "unlisted"})
      /\ OnlyTab(u, T.tab, {"pending", "synced", "unwritten"})
      /\ Written(A, T, list, hint) \/ Unwritten(A, T, list)
  BY <1>0, <1>1, <1>3, <1>4, <1>5, PersistFacts
<1> HIDE DEF T
<1>8. /\ Only(S, T, {"index", "tab", "unlisted"})
      /\ OnlyTab(S.tab, T.tab, {"list", "active", "pending", "synced", "unwritten"})
      /\ T.tab.list = list /\ T.tab.active = active
  BY <1>1, <1>4, <1>7 DEF OnlyTab, TabFields, Only, ViewFields
<1>9. Written(A, T, list, hint) => Written(S, T, list, hint)
  <2>1. A.tab.removed => S.tab.removed
    BY <1>4, <1>6
  <2>2. S.tab.removed => A.tab.removed
    BY <1>4, <1>6
  <2> QED
    BY <1>5, <2>1, <2>2 DEF Written
<1>10. Unwritten(A, T, list) => Unwritten(S, T, list)
  BY <1>4, <1>5, <1>6 DEF Unwritten
<1> QED
  BY <1>2, <1>3, <1>7, <1>8, <1>9, <1>10

(* The plans of the uploads whose keys are removed.                         *)
Replaced(keep) == Uploads \ {keep}
ListedIn(S, sources) == UNION {Listed(S.index[s]) : s \in sources}

LEMMA RemoveFacts ==
    ASSUME NEW S \in Views, NEW keep
    PROVE  LET T == RemoveCustomPlans(S, keep)
           IN  /\ T \in Views
               /\ Only(S, T, {"index", "docs", "legacy", "copies", "writer", "deleted", "gone"})
               /\ \A s \in Sources :
                     /\ T.index[s] = IF s \in Replaced(keep) THEN Absent ELSE S.index[s]
                     /\ \A p \in Plans : T.docs[s][p] = IF s \in Replaced(keep) THEN Absent ELSE S.docs[s][p]
               /\ \A s \in Sources \cup {NoSource} :
                     T.legacy[s] = IF s \in Replaced(keep) THEN Absent ELSE S.legacy[s]
               /\ T.copies = {k \in S.copies : k[1] \notin Replaced(keep)}
               /\ T.deleted = S.deleted \cup ListedIn(S, Replaced(keep))
               /\ T.gone = S.gone \cup ListedIn(S, Replaced(keep))
<1> DEFINE stale == Uploads \ {keep}
           listed == UNION {Listed(S.index[u]) : u \in stale}
           newIndex == [s \in Sources |-> IF s \in stale THEN Absent ELSE S.index[s]]
           newDocs == [s \in Sources |-> IF s \in stale THEN [p \in Plans |-> Absent] ELSE S.docs[s]]
           newLegacy == [s \in DOMAIN S.legacy |-> IF s \in stale THEN Absent ELSE S.legacy[s]]
           newCopies == {k \in S.copies : k[1] \notin stale}
           newWriter == [p \in Plans |-> IF \E u \in stale : S.docs[u][p] # Absent THEN 0 ELSE S.writer[p]]
           T == [S EXCEPT !.index = newIndex, !.docs = newDocs, !.legacy = newLegacy, !.copies = newCopies,
                          !.writer = newWriter, !.deleted = @ \cup listed, !.gone = @ \cup listed]
<1>1. newIndex \in [Sources -> Indexes]
  BY DEF Views, Indexes
<1>2. newDocs \in [Sources -> [Plans -> Contents]]
  BY DEF Views, Contents
<1>3. newLegacy \in [Sources \cup {NoSource} -> OldValues] /\ DOMAIN S.legacy = Sources \cup {NoSource}
  BY DEF Views, OldValues
<1>4. newCopies \in SUBSET Keys
  BY DEF Views
<1>5. newWriter \in [Plans -> Tabs \cup {0}]
  BY DEF Views
<1>6. listed \subseteq Plans
  <2> SUFFICES ASSUME NEW u \in stale
               PROVE  Listed(S.index[u]) \subseteq Plans
    OBVIOUS
  <2>1. S.index[u] \in Indexes
    BY DEF Views, Sources
  <2> QED
    BY <2>1, IndexKinds, ListedPlans
<1>7. RemoveCustomPlans(S, keep) = T
  BY DEF RemoveCustomPlans
<1> HIDE DEF newIndex, newDocs, newLegacy, newCopies, newWriter, listed
<1>8. /\ T \in Views
      /\ Only(S, T, {"index", "docs", "legacy", "copies", "writer", "deleted", "gone"})
      /\ T.index = newIndex /\ T.docs = newDocs /\ T.legacy = newLegacy /\ T.copies = newCopies
      /\ T.deleted = S.deleted \cup listed /\ T.gone = S.gone \cup listed
  BY <1>1, <1>2, <1>3, <1>4, <1>5, <1>6 DEF Views, Only, ViewFields
<1> HIDE DEF T
<1>9. /\ \A s \in Sources :
            /\ newIndex[s] = IF s \in stale THEN Absent ELSE S.index[s]
            /\ \A p \in Plans : newDocs[s][p] = IF s \in stale THEN Absent ELSE S.docs[s][p]
      /\ \A s \in Sources \cup {NoSource} : newLegacy[s] = IF s \in stale THEN Absent ELSE S.legacy[s]
  BY <1>3 DEF newIndex, newDocs, newLegacy
<1> QED
  BY <1>7, <1>8, <1>9 DEF Replaced, ListedIn, listed, newCopies

(* readIndex: an unreadable index may be moved away.                        *)
LEMMA ReadFacts ==
    ASSUME NEW S \in Views, NEW s \in Sources
    PROVE  LET T == ReadIndex(S, s)
           IN  /\ T \in Views /\ Only(S, T, {"index", "copies", "uncopied"})
               /\ \/ T.index = S.index
                  \/ S.index[s] = Corrupt /\ T.index = [S.index EXCEPT ![s] = Absent]
               /\ S.copies \subseteq T.copies /\ S.uncopied \subseteq T.uncopied
               /\ S.index[s] = Corrupt => IndexKey(s) \in T.copies \cup T.uncopied
<1> DEFINE refused == [S EXCEPT !.uncopied = @ \cup {IndexKey(s)}]
           moved == [S EXCEPT !.copies = @ \cup {IndexKey(s)}, !.index[s] = Absent]
<1>0. IndexKey(s) \in Keys
  BY PlanStoreAssumption DEF IndexKey, Keys
<1>1. /\ refused \in Views /\ Only(S, refused, {"index", "copies", "uncopied"})
      /\ refused.index = S.index /\ refused.copies = S.copies
      /\ refused.uncopied = S.uncopied \cup {IndexKey(s)}
  BY <1>0 DEF Views, Only, ViewFields
<1>2. [S.index EXCEPT ![s] = Absent] \in [Sources -> Indexes]
  BY DEF Views, Indexes
<1>3. /\ moved \in Views /\ Only(S, moved, {"index", "copies", "uncopied"})
      /\ moved.index = [S.index EXCEPT ![s] = Absent] /\ moved.uncopied = S.uncopied
      /\ moved.copies = S.copies \cup {IndexKey(s)}
  BY <1>0, <1>2 DEF Views, Only, ViewFields
<1>4. Only(S, S, {"index", "copies", "uncopied"})
  BY DEF Only
<1> HIDE DEF refused, moved
<1>5. /\ S.index[s] = Corrupt => ReadIndex(S, s) = refused \/ ReadIndex(S, s) = moved
      /\ S.index[s] # Corrupt => ReadIndex(S, s) = S
  BY DEF ReadIndex, QuarantineIndex, refused, moved
<1> QED
  BY <1>1, <1>3, <1>4, <1>5

LEMMA DrawnFacts ==
    ASSUME NEW S \in Views
    PROVE  Drawn(S) \in Views /\ Only(S, Drawn(S), {"next"}) /\ Drawn(S).next = S.next + 1
BY DEF Drawn, Views, Only, ViewFields

(* The plan and the list of a migration, when storage takes them.           *)
LEMMA MigrateFacts ==
    ASSUME NEW S \in Views, NEW s \in Sources, NEW list \in Seq(Plans), S.next \in Plans
    PROVE  LET T == Migrate(S, s, list)
               key == LegacyKey(S, s, list)
               l == Append(list, S.next)
           IN  /\ T \in Views /\ Only(S, T, {"next", "docs", "index", "legacy"})
               /\ T.next = S.next + 1
               /\ \/ /\ {"plan", "index"} \cap S.refuses # {}
                     /\ T.docs = S.docs /\ T.index = S.index /\ T.legacy = S.legacy
                  \/ /\ {"plan", "index"} \cap S.refuses = {}
                     /\ T.docs = [S.docs EXCEPT ![s][S.next] = S.legacy[key]]
                     /\ T.index = [S.index EXCEPT ![s] = Index(l, S.next)]
                     /\ T.legacy = [S.legacy EXCEPT ![key] = Absent]
<1> DEFINE key == LegacyKey(S, s, list)
           l == Append(list, S.next)
           D == Drawn(S)
           T == [D EXCEPT !.docs[s][S.next] = S.legacy[key], !.index[s] = Index(l, S.next),
                          !.legacy[key] = Absent]
<1>1. D \in Views /\ Only(S, D, {"next"}) /\ D.next = S.next + 1
  BY DrawnFacts
<1>2. D.docs = S.docs /\ D.index = S.index /\ D.legacy = S.legacy
  BY <1>1 DEF Only, ViewFields
<1>3. key \in Sources \cup {NoSource} /\ S.legacy[key] \in Contents
  <2>1. key \in Sources \cup {NoSource}
    BY DEF LegacyKey
  <2> QED
    BY <2>1, ContentTypes DEF Views
<1>4. Index(l, S.next) \in Indexes
  BY AppendType DEF Index, Indexes
<1>5. Migrate(S, s, list) = IF {"plan", "index"} \cap S.refuses # {} THEN D ELSE T
  BY DEF Migrate, Fresh
<1> HIDE DEF D, key, l
<1>6. /\ T \in Views /\ Only(S, T, {"next", "docs", "index", "legacy"})
      /\ T.next = S.next + 1
      /\ T.docs = [S.docs EXCEPT ![s][S.next] = S.legacy[key]]
      /\ T.index = [S.index EXCEPT ![s] = Index(l, S.next)]
      /\ T.legacy = [S.legacy EXCEPT ![key] = Absent]
  <2>1. [S.docs EXCEPT ![s][S.next] = S.legacy[key]] \in [Sources -> [Plans -> Contents]]
    BY <1>3 DEF Views
  <2>2. [S.index EXCEPT ![s] = Index(l, S.next)] \in [Sources -> Indexes]
    BY <1>4 DEF Views
  <2>3. [S.legacy EXCEPT ![key] = Absent] \in [Sources \cup {NoSource} -> OldValues]
    BY DEF Views, OldValues
  <2>4. T = [D EXCEPT !.docs = [S.docs EXCEPT ![s][S.next] = S.legacy[key]],
                      !.index = [S.index EXCEPT ![s] = Index(l, S.next)],
                      !.legacy = [S.legacy EXCEPT ![key] = Absent]]
    BY <1>2
  <2> HIDE DEF T
  <2> QED
    BY <1>1, <1>2, <2>1, <2>2, <2>3, <2>4 DEF Views, Only, ViewFields
<1> HIDE DEF T
<1>7. Only(S, D, {"next", "docs", "index", "legacy"})
  BY <1>1 DEF Only
<1> QED
  BY <1>1, <1>2, <1>5, <1>6, <1>7 DEF key, l


-----------------------------------------------------------------------------
(* What every handler needs and keeps: the views a tab may be in.           *)

Seen(S) == S.copies \cup S.uncopied
OwnDocs(S) ==
    \A s \in Sources, p \in Plans : S.docs[s][p].kind = "plan" => S.docs[s][p].plan \in {p, 0}
Drew(S) ==
    /\ \A s \in Sources, p \in Plans : S.docs[s][p] # Absent => p < S.next
    /\ \A s \in Sources : \A p \in Listed(S.index[s]) : p < S.next
    /\ \A s \in Sources : Readable(S.index[s]) => S.index[s].active \in ToSet(S.index[s].plans)
Stocked(S) == S \in Views /\ OwnDocs(S) /\ Drew(S)

(* The tab has a list of plans drawn, and no unreadable index without copy. *)
Ready(S) ==
    /\ Stocked(S) /\ Opens(S)
    /\ \A p \in ToSet(S.tab.list) : p < S.next
    /\ S.index[S.tab.source] = Corrupt => IndexKey(S.tab.source) \in Seen(S)

OnScreen(S) == S.tab.shown.kind = "plan" /\ S.tab.shown.plan \in {S.tab.active, 0}
ActiveKept(S) ==
    S.docs[S.tab.source][S.tab.active] = Corrupt => PlanKey(S.tab.source, S.tab.active) \in Seen(S)
Fit(S) == Ready(S) /\ OnScreen(S) /\ ActiveKept(S)

(* What a handler may do to the storage past the data set's own choice: it  *)
(* stays with the data set of the tab, writes nothing unreadable but under  *)
(* a new plan, and takes no unreadable value away before its copy.          *)
Confined(s, S, T) ==
    /\ T.me = S.me /\ S.next <= T.next
    /\ \A r \in Sources \ {s} : T.index[r] = S.index[r] /\ T.docs[r] = S.docs[r]
    /\ Seen(S) \subseteq Seen(T)
    /\ \A r \in Sources : S.index[r] = Corrupt /\ T.index[r] # Corrupt => IndexKey(r) \in Seen(T)
    /\ \A r \in Sources, p \in Plans :
          S.docs[r][p] = Corrupt /\ T.docs[r][p] # Corrupt => PlanKey(r, p) \in Seen(T)
    /\ \A r \in Sources : T.index[r] = Corrupt => S.index[r] = Corrupt
    /\ \A r \in Sources, p \in Plans :
          T.docs[r][p] = Corrupt => S.docs[r][p] = Corrupt \/ S.next <= p
Within(S, T) == T.tab.source = S.tab.source /\ Confined(S.tab.source, S, T)

LEMMA WithinItself ==
    ASSUME NEW S \in Views
    PROVE  Within(S, S)
BY DEF Within, Confined, Views

LEMMA ConfinedBoth ==
    ASSUME NEW S \in Views, NEW T \in Views, NEW U \in Views,
           NEW s, Confined(s, S, T), Confined(s, T, U)
    PROVE  Confined(s, S, U)
<1>1. S.next \in Nat /\ T.next \in Nat /\ U.next \in Nat /\ Plans \subseteq Nat
  BY DEF Views, Plans
<1>2. U.me = S.me /\ S.next <= U.next /\ Seen(S) \subseteq Seen(U)
  BY <1>1 DEF Confined
<1>3. \A r \in Sources \ {s} : U.index[r] = S.index[r] /\ U.docs[r] = S.docs[r]
  BY DEF Confined
<1>4. \A r \in Sources : S.index[r] = Corrupt /\ U.index[r] # Corrupt => IndexKey(r) \in Seen(U)
  BY DEF Confined
<1>5. \A r \in Sources, p \in Plans :
        S.docs[r][p] = Corrupt /\ U.docs[r][p] # Corrupt => PlanKey(r, p) \in Seen(U)
  BY DEF Confined
<1>6. \A r \in Sources : U.index[r] = Corrupt => S.index[r] = Corrupt
  BY DEF Confined
<1>7. ASSUME NEW r \in Sources, NEW p \in Plans, U.docs[r][p] = Corrupt, S.docs[r][p] # Corrupt
      PROVE  S.next <= p
  <2>1. T.docs[r][p] = Corrupt \/ T.next <= p
    BY <1>7 DEF Confined
  <2>2. T.docs[r][p] = Corrupt => S.next <= p
    BY <1>7 DEF Confined
  <2>3. S.next <= T.next
    BY DEF Confined
  <2> QED
    BY <1>1, <2>1, <2>2, <2>3
<1> QED
  BY <1>2, <1>3, <1>4, <1>5, <1>6, <1>7 DEF Confined

LEMMA WithinBoth ==
    ASSUME NEW S \in Views, NEW T \in Views, NEW U \in Views, Within(S, T), Within(T, U)
    PROVE  Within(S, U)
BY ConfinedBoth DEF Within

(* A change of the tab alone that leaves its list and screen as they are.   *)
LEMMA TabFit ==
    ASSUME NEW S, Fit(S), NEW T \in Views, Only(S, T, {"tab"}),
           OnlyTab(S.tab, T.tab, {"told", "removed", "status", "pending", "synced", "unwritten"})
    PROVE  Fit(T) /\ Within(S, T)
<1>1. /\ T.index = S.index /\ T.docs = S.docs /\ T.next = S.next /\ T.me = S.me
      /\ T.copies = S.copies /\ T.uncopied = S.uncopied
      /\ T.tab.source = S.tab.source /\ T.tab.list = S.tab.list
      /\ T.tab.active = S.tab.active /\ T.tab.shown = S.tab.shown
  BY DEF Only, ViewFields, OnlyTab, TabFields
<1>2. S \in Views
  BY DEF Fit, Ready, Stocked
<1>3. Seen(T) = Seen(S)
  BY <1>1 DEF Seen
<1>4. Within(S, T)
  BY <1>1, <1>2, <1>3, WithinItself DEF Within, Confined
<1> QED
  BY <1>1, <1>3, <1>4 DEF Fit, Ready, Stocked, OwnDocs, Drew, Opens, OnScreen, ActiveKept

LEMMA StoredFit ==
    ASSUME NEW S, Fit(S)
    PROVE  /\ Fit(Stored(S)) /\ Within(S, Stored(S))
           /\ Only(S, Stored(S), {"docs", "writer"})
<1> DEFINE T == Stored(S)
           s == S.tab.source
           p == S.tab.active
<1>1. S \in Views /\ s \in Sources /\ p \in Plans /\ p < S.next
  BY OpenType DEF Fit, Ready, Stocked, Opens
<1>2. /\ T \in Views /\ Only(S, T, {"docs", "writer"})
      /\ T.docs = S.docs \/ T.docs = [S.docs EXCEPT ![s][p] = S.tab.shown]
  BY <1>1, StoredFacts
<1> HIDE DEF T
<1>3. /\ T.index = S.index /\ T.next = S.next /\ T.me = S.me /\ T.tab = S.tab
      /\ T.copies = S.copies /\ T.uncopied = S.uncopied
  BY <1>2 DEF Only, ViewFields
<1>4. Seen(T) = Seen(S)
  BY <1>3 DEF Seen
<1>5. S.tab.shown \in Contents /\ S.tab.shown.kind = "plan" /\ S.tab.shown.plan \in {p, 0}
  BY <1>1 DEF Views, TabViews, Fit, OnScreen
<1>6. S.tab.shown # Corrupt /\ S.tab.shown # Absent
  BY <1>5, ContentKinds
<1> DEFINE shown == S.tab.shown
<1> HIDE DEF s, p, shown
<1>7. \A r \in Sources, q \in Plans :
        \/ T.docs[r][q] = S.docs[r][q]
        \/ r = s /\ q = p /\ T.docs[r][q] = shown
  BY <1>1, <1>2 DEF Views, shown
<1>8. \A r \in Sources \ {s} : T.docs[r] = S.docs[r]
  BY <1>1, <1>2 DEF Views
<1>9. OwnDocs(S) /\ Drew(S) /\ ActiveKept(S) /\ Ready(S) /\ OnScreen(S)
  BY DEF Fit, Ready, Stocked
<1>10. OwnDocs(T)
  BY <1>5, <1>7, <1>9 DEF OwnDocs, shown
<1>11. Drew(T)
  BY <1>1, <1>3, <1>7, <1>9 DEF Drew
<1>12. Ready(T)
  BY <1>2, <1>3, <1>4, <1>9, <1>10, <1>11 DEF Ready, Stocked, Opens
<1>13. ActiveKept(T)
  BY <1>1, <1>3, <1>4, <1>6, <1>7, <1>9 DEF ActiveKept, s, p, shown
<1>14. Within(S, T)
  <2>1. \A r \in Sources, q \in Plans :
          S.docs[r][q] = Corrupt /\ T.docs[r][q] # Corrupt => PlanKey(r, q) \in Seen(T)
    BY <1>4, <1>7, <1>9 DEF ActiveKept, s, p
  <2>2. \A r \in Sources, q \in Plans :
          T.docs[r][q] = Corrupt => S.docs[r][q] = Corrupt \/ S.next <= q
    BY <1>6, <1>7 DEF shown
  <2>3. S.next <= T.next
    BY <1>1, <1>3 DEF Views
  <2> QED
    BY <1>3, <1>4, <1>8, <2>1, <2>2, <2>3 DEF Within, Confined, s
<1> QED
  BY <1>2, <1>3, <1>9, <1>12, <1>13, <1>14 DEF Fit, OnScreen, T

(* Showing a value as the active plan, an unreadable one moved away.        *)
LEMMA OpenedOther ==
    ASSUME NEW S, Ready(S), NEW raw \in Contents,
           raw.kind = "plan" => raw.plan \in {S.tab.active, 0},
           S.docs[S.tab.source][S.tab.active] = Corrupt => raw = Corrupt
    PROVE  LET T == Opened(S, raw)
           IN  /\ Fit(T) /\ Within(S, T)
               /\ Only(S, T, {"docs", "copies", "uncopied", "tab"})
               /\ OnlyTab(S.tab, T.tab, {"shown"})
               /\ T.tab.shown = IF raw.kind = "plan" THEN raw ELSE Blank(S.tab.active)
               /\ raw = Corrupt => PlanKey(S.tab.source, S.tab.active) \in Seen(T)
               /\ raw # Corrupt => T.docs = S.docs
<1> DEFINE T == Opened(S, raw)
           s == S.tab.source
           p == S.tab.active
<1>1. /\ S \in Views /\ s \in Sources /\ p \in Plans /\ p < S.next
      /\ OwnDocs(S) /\ Drew(S)
  BY OpenType DEF Ready, Stocked, Opens
<1>2. S.docs[s][p] = Corrupt => raw = Corrupt
  OBVIOUS
<1>3. /\ T \in Views /\ Only(S, T, {"docs", "copies", "uncopied", "tab"})
      /\ OnlyTab(S.tab, T.tab, {"shown"})
      /\ T.tab.shown = IF raw.kind = "plan" THEN raw ELSE Blank(p)
      /\ T.docs = S.docs \/ T.docs = [S.docs EXCEPT ![s][p] = Absent]
      /\ S.copies \subseteq T.copies /\ S.uncopied \subseteq T.uncopied
      /\ raw = Corrupt => PlanKey(s, p) \in T.copies \cup T.uncopied
      /\ raw # Corrupt => T.docs = S.docs
  BY <1>1, <1>2, OpenedFacts
<1> HIDE DEF T
<1>4. /\ T.index = S.index /\ T.next = S.next /\ T.me = S.me
      /\ T.tab.source = s /\ T.tab.active = p /\ T.tab.list = S.tab.list
  BY <1>3 DEF Only, ViewFields, OnlyTab, TabFields
<1>5. Seen(S) \subseteq Seen(T)
  BY <1>3 DEF Seen
<1> HIDE DEF s, p
<1>6. \A r \in Sources, q \in Plans :
        \/ T.docs[r][q] = S.docs[r][q]
        \/ r = s /\ q = p /\ T.docs[r][q] = Absent /\ raw = Corrupt
  BY <1>1, <1>3 DEF Views
<1>7. \A r \in Sources \ {s} : T.docs[r] = S.docs[r]
  BY <1>1, <1>3 DEF Views
<1>8. Absent.kind # "plan" /\ Absent # Corrupt
  BY DEF Absent, Corrupt
<1>9. OwnDocs(T)
  BY <1>1, <1>6, <1>8 DEF OwnDocs
<1>10. Drew(T)
  BY <1>1, <1>4, <1>6 DEF Drew
<1>11. Ready(T)
  BY <1>3, <1>4, <1>5, <1>9, <1>10 DEF Ready, Stocked, Opens, s, p
<1>12. OnScreen(T)
  <2>1. raw.kind = "plan" => raw.plan \in {p, 0}
    BY DEF p
  <2>2. Blank(p).kind = "plan" /\ Blank(p).plan = p
    BY DEF Blank, Content
  <2> QED
    BY <1>3, <1>4, <2>1, <2>2 DEF OnScreen
<1>13. ActiveKept(T)
  BY <1>1, <1>2, <1>3, <1>4, <1>6, <1>8 DEF ActiveKept, Seen
<1>14. Within(S, T)
  <2>1. \A r \in Sources, q \in Plans :
          S.docs[r][q] = Corrupt /\ T.docs[r][q] # Corrupt => PlanKey(r, q) \in Seen(T)
    BY <1>3, <1>6 DEF Seen
  <2>2. \A r \in Sources, q \in Plans :
          T.docs[r][q] = Corrupt => S.docs[r][q] = Corrupt \/ S.next <= q
    BY <1>6, <1>8
  <2>3. S.next <= T.next
    BY <1>1, <1>4 DEF Views
  <2> QED
    BY <1>4, <1>5, <1>7, <2>1, <2>2, <2>3 DEF Within, Confined, s
<1> QED
  BY <1>3, <1>11, <1>12, <1>13, <1>14 DEF Fit, T, Seen, s, p


(* Showing the active plan as it is stored.                                 *)
LEMMA OpenedFit ==
    ASSUME NEW S, Ready(S)
    PROVE  LET T == Opened(S, ActiveDoc(S))
           IN  /\ Fit(T) /\ Within(S, T)
               /\ Only(S, T, {"docs", "copies", "uncopied", "tab"})
               /\ OnlyTab(S.tab, T.tab, {"shown"})
<1>1. S \in Views /\ S.tab.source \in Sources /\ S.tab.active \in Plans /\ OwnDocs(S)
  BY OpenType DEF Ready, Stocked, Opens
<1>2. ActiveDoc(S) \in Contents /\ ActiveDoc(S) = S.docs[S.tab.source][S.tab.active]
  BY <1>1 DEF ActiveDoc, Views
<1>3. ActiveDoc(S).kind = "plan" => ActiveDoc(S).plan \in {S.tab.active, 0}
  BY <1>1, <1>2 DEF OwnDocs
<1> QED
  BY <1>2, <1>3, OpenedOther

-----------------------------------------------------------------------------
(* Merging the shared list.                                                 *)

Listing(S, stored, plans, kept, active) ==
    [S EXCEPT !.tab.list = plans, !.tab.active = active, !.tab.pending = kept,
              !.tab.synced = stored, !.tab.unwritten = FALSE]

LEMMA ListingFacts ==
    ASSUME NEW S \in Views, NEW stored \in Indexes, NEW plans \in Seq(Plans),
           NEW kept \in SUBSET Plans, NEW active \in Plans
    PROVE  LET T == Listing(S, stored, plans, kept, active)
           IN  /\ T \in Views /\ Only(S, T, {"tab"})
               /\ OnlyTab(S.tab, T.tab, {"list", "active", "pending", "synced", "unwritten"})
               /\ T.tab.list = plans /\ T.tab.active = active /\ T.tab.pending = kept
               /\ T.tab.synced = stored /\ ~T.tab.unwritten
<1> DEFINE u == [S.tab EXCEPT !.list = plans, !.active = active, !.pending = kept,
                              !.synced = stored, !.unwritten = FALSE]
           T == [S EXCEPT !.tab = u]
<1>1. /\ u \in TabViews
      /\ OnlyTab(S.tab, u, {"list", "active", "pending", "synced", "unwritten"})
      /\ u.list = plans /\ u.active = active /\ u.pending = kept /\ u.synced = stored
      /\ u.unwritten = FALSE
  BY TabType DEF TabViews, OnlyTab, TabFields
<1>2. T = Listing(S, stored, plans, kept, active)
  BY DEF Listing
<1> HIDE DEF u
<1>3. T \in Views /\ Only(S, T, {"tab"}) /\ T.tab = u
  BY <1>1 DEF Views, Only, ViewFields
<1> HIDE DEF T
<1> QED
  BY <1>1, <1>2, <1>3

(* A list that changed leaves the screen, or the plan it shows is stored.   *)
LEMMA ReopenedFit ==
    ASSUME NEW S, Ready(S)
    PROVE  LET T == Reopened(S)
           IN  /\ Fit(T) /\ Within(S, T)
               /\ Only(S, T, {"docs", "writer", "copies", "uncopied", "tab"})
               /\ OnlyTab(S.tab, T.tab, {"shown"})
<1> DEFINE O == Opened(S, ActiveDoc(S))
           T == Stored(O)
<1>1. /\ Fit(O) /\ Within(S, O) /\ Only(S, O, {"docs", "copies", "uncopied", "tab"})
      /\ OnlyTab(S.tab, O.tab, {"shown"})
  BY OpenedFit
<1>2. Reopened(S) = T
  BY DEF Reopened
<1> HIDE DEF O
<1>3. Fit(T) /\ Within(O, T) /\ Only(O, T, {"docs", "writer"})
  BY <1>1, StoredFit
<1> HIDE DEF T
<1>4. S \in Views /\ O \in Views /\ T \in Views
  BY <1>1, <1>3 DEF Fit, Ready, Stocked
<1>5. Within(S, T)
  BY <1>1, <1>3, <1>4, WithinBoth
<1>6. T.tab = O.tab
  BY <1>3 DEF Only, ViewFields
<1>7. Only(S, T, {"docs", "writer", "copies", "uncopied", "tab"})
  BY <1>1, <1>3 DEF Only, ViewFields
<1> QED
  BY <1>1, <1>2, <1>3, <1>5, <1>6, <1>7

(* A step empties plan keys, and writes but the key of the plan on screen.  *)
Rewrites(S, T) ==
    \A r \in Sources, p \in Plans :
        \/ T.docs[r][p] = S.docs[r][p] \/ T.docs[r][p] = Absent
        \/ r = T.tab.source /\ p = T.tab.active /\ ~T.tab.removed

LEMMA StoredRewrites ==
    ASSUME NEW S \in Views, Opens(S)
    PROVE  Rewrites(S, Stored(S)) /\ Only(S, Stored(S), {"docs", "writer"})
<1> DEFINE T == Stored(S)
           s == S.tab.source
           p == S.tab.active
<1>1. s \in Sources /\ p \in Plans
  BY OpenType DEF Opens
<1>2. /\ Only(S, T, {"docs", "writer"})
      /\ \/ T.docs = S.docs
         \/ ~S.tab.removed /\ T.docs = [S.docs EXCEPT ![s][p] = S.tab.shown]
  BY <1>1, StoredFacts
<1> HIDE DEF T
<1>3. T.tab = S.tab
  BY <1>2 DEF Only, ViewFields
<1>4. S.docs \in [Sources -> [Plans -> Contents]]
  BY DEF Views
<1>5. T.docs = S.docs => Rewrites(S, T)
  BY DEF Rewrites
<1>6. ~S.tab.removed /\ T.docs = [S.docs EXCEPT ![s][p] = S.tab.shown] => Rewrites(S, T)
  BY <1>3, <1>4 DEF Rewrites
<1> QED
  BY <1>2, <1>5, <1>6 DEF T

LEMMA OpenedRewrites ==
    ASSUME NEW S \in Views, Opens(S), NEW raw \in Contents
    PROVE  LET T == Opened(S, raw)
           IN  \A r \in Sources, p \in Plans :
                   T.docs[r][p] = S.docs[r][p] \/ T.docs[r][p] = Absent
<1> DEFINE T == Opened(S, raw)
           s == S.tab.source
           p == S.tab.active
<1>1. s \in Sources /\ p \in Plans
  BY OpenType DEF Opens
<1>2. T.docs = S.docs \/ T.docs = [S.docs EXCEPT ![s][p] = Absent]
  BY <1>1, OpenedFacts
<1>3. S.docs \in [Sources -> [Plans -> Contents]]
  BY DEF Views
<1> HIDE DEF T
<1>4. \A r \in Sources, q \in Plans : T.docs[r][q] = S.docs[r][q] \/ T.docs[r][q] = Absent
  BY <1>2, <1>3
<1> QED
  BY <1>4 DEF T

LEMMA ReopenedRewrites ==
    ASSUME NEW S, Ready(S)
    PROVE  Rewrites(S, Reopened(S))
<1> DEFINE O == Opened(S, ActiveDoc(S))
           T == Stored(O)
<1>1. S \in Views /\ Opens(S) /\ ActiveDoc(S) \in Contents
  <2>1. S \in Views /\ Opens(S) /\ S.tab.source \in Sources /\ S.tab.active \in Plans
    BY OpenType DEF Ready, Stocked, Opens
  <2> QED
    BY <2>1 DEF ActiveDoc, Views
<1>2. \A r \in Sources, p \in Plans : O.docs[r][p] = S.docs[r][p] \/ O.docs[r][p] = Absent
  BY <1>1, OpenedRewrites
<1>3. O \in Views /\ Opens(O)
  BY OpenedFit DEF Fit, Ready, Stocked
<1>4. Reopened(S) = T
  BY DEF Reopened
<1> HIDE DEF O
<1>5. Rewrites(O, T) /\ Only(O, T, {"docs", "writer"})
  BY <1>3, StoredRewrites
<1> HIDE DEF T
<1>6. \A r \in Sources, p \in Plans :
        \/ T.docs[r][p] = S.docs[r][p] \/ T.docs[r][p] = Absent
        \/ r = T.tab.source /\ p = T.tab.active /\ ~T.tab.removed
  BY <1>2, <1>5 DEF Rewrites
<1> QED
  BY <1>4, <1>6 DEF Rewrites

(* A tab on the plan it wrote last shows what is stored.                    *)
Autosaved(S) ==
    S.tab.source # NoSource /\ ~S.tab.removed /\ S.writer[S.tab.active] = S.me
        => S.docs[S.tab.source][S.tab.active] = S.tab.shown

(* A plan's key changes under the name of the tab that changes it, or of    *)
(* nobody, unless it held no plan.                                          *)
Signed(S, T) ==
    /\ T.me = S.me
    /\ \A p \in Plans : T.writer[p] \in {S.writer[p], S.me, 0}
    /\ \A r \in Sources, p \in Plans :
          T.docs[r][p] = S.docs[r][p] \/ T.writer[p] \in {S.me, 0} \/ S.docs[r][p].kind # "plan"
Keeps(S, T) == Signed(S, T) /\ (Autosaved(S) => Autosaved(T))

LEMMA SignedBoth ==
    ASSUME NEW S, NEW T, NEW U, Signed(S, T), Signed(T, U)
    PROVE  Signed(S, U)
<1>1. U.me = S.me /\ \A p \in Plans : U.writer[p] \in {S.writer[p], S.me, 0}
  BY DEF Signed
<1>2. ASSUME NEW r \in Sources, NEW p \in Plans
      PROVE  U.docs[r][p] = S.docs[r][p] \/ U.writer[p] \in {S.me, 0} \/ S.docs[r][p].kind # "plan"
  BY DEF Signed
<1> QED
  BY <1>1, <1>2 DEF Signed

LEMMA KeepsBoth ==
    ASSUME NEW S, NEW T, NEW U, Keeps(S, T), Keeps(T, U)
    PROVE  Keeps(S, U)
BY SignedBoth DEF Keeps

(* The keys are as they were, and the plan on screen, too.                  *)
LEMMA SameKeeps ==
    ASSUME NEW S, NEW T, T.me = S.me, T.docs = S.docs, T.writer = S.writer
    PROVE  /\ Signed(S, T)
           /\ (/\ T.tab.source = S.tab.source /\ T.tab.active = S.tab.active
               /\ T.tab.shown = S.tab.shown /\ (S.tab.removed => T.tab.removed)) => Keeps(S, T)
<1>1. Signed(S, T)
  BY DEF Signed
<1>2. ASSUME T.tab.source = S.tab.source, T.tab.active = S.tab.active,
             T.tab.shown = S.tab.shown, S.tab.removed => T.tab.removed
      PROVE  Autosaved(S) => Autosaved(T)
  BY <1>2 DEF Autosaved
<1> QED
  BY <1>1, <1>2 DEF Keeps

LEMMA StoredSigned ==
    ASSUME NEW S \in Views, Opens(S)
    PROVE  Signed(S, Stored(S)) /\ Autosaved(Stored(S))
<1> DEFINE s == S.tab.source
           p == S.tab.active
           refused == [S EXCEPT !.writer[p] = 0]
           stored == [S EXCEPT !.docs[s][p] = S.tab.shown, !.writer[p] = S.me]
<1>0. s \in Sources /\ p \in Plans /\ S.me \in Tabs
  BY OpenType DEF Opens, Views
<1>1. Signed(S, S) /\ (S.tab.removed => Autosaved(S))
  BY SameKeeps DEF Autosaved
<1>2. /\ refused.me = S.me /\ refused.docs = S.docs /\ refused.tab = S.tab
      /\ refused.writer = [S.writer EXCEPT ![p] = 0]
  BY DEF Views
<1>3. /\ stored.me = S.me /\ stored.tab = S.tab
      /\ stored.docs = [S.docs EXCEPT ![s][p] = S.tab.shown]
      /\ stored.writer = [S.writer EXCEPT ![p] = S.me]
  BY DEF Views
<1>4. S.writer \in [Plans -> Tabs \cup {0}] /\ S.docs \in [Sources -> [Plans -> Contents]]
  BY DEF Views
<1> HIDE DEF refused, stored
<1>5. Signed(S, refused)
  BY <1>0, <1>2, <1>4 DEF Signed
<1>6. Autosaved(refused)
  <2>1. refused.writer[p] = 0 /\ refused.me # 0
    BY <1>0, <1>2, <1>4, PlanTabsAssumption
  <2> QED
    BY <1>2, <2>1 DEF Autosaved
<1>7. Signed(S, stored)
  BY <1>0, <1>3, <1>4 DEF Signed
<1>8. Autosaved(stored)
  <2>1. stored.docs[s][p] = S.tab.shown
    BY <1>0, <1>3, <1>4
  <2> QED
    BY <1>3, <2>1 DEF Autosaved
<1>9. /\ S.tab.removed => Stored(S) = S
      /\ ~S.tab.removed => Stored(S) = refused \/ Stored(S) = stored
  BY DEF Stored, refused, stored
<1> QED
  BY <1>1, <1>5, <1>6, <1>7, <1>8, <1>9

(* What is shown may be what could not be read: then the key held no plan.  *)
LEMMA OpenedSigned ==
    ASSUME NEW S \in Views, Opens(S), NEW raw \in Contents,
           raw = Corrupt => ActiveDoc(S).kind # "plan"
    PROVE  Signed(S, Opened(S, raw))
<1> DEFINE T == Opened(S, raw)
           s == S.tab.source
           p == S.tab.active
<1>1. s \in Sources /\ p \in Plans
  BY OpenType DEF Opens
<1>2. /\ Only(S, T, {"docs", "copies", "uncopied", "tab"})
      /\ T.docs = S.docs \/ T.docs = [S.docs EXCEPT ![s][p] = Absent]
      /\ raw # Corrupt => T.docs = S.docs
  BY <1>1, OpenedFacts
<1>3. S.docs \in [Sources -> [Plans -> Contents]]
  BY DEF Views
<1> HIDE DEF T
<1>4. T.me = S.me /\ T.writer = S.writer
  BY <1>2 DEF Only, ViewFields
<1>5. ASSUME NEW r \in Sources, NEW q \in Plans
      PROVE  T.docs[r][q] = S.docs[r][q] \/ S.docs[r][q].kind # "plan"
  BY <1>1, <1>2, <1>3 DEF ActiveDoc
<1> QED
  BY <1>4, <1>5 DEF Signed, T

LEMMA ReopenedSigned ==
    ASSUME NEW S, Ready(S)
    PROVE  Signed(S, Reopened(S)) /\ Autosaved(Reopened(S))
<1> DEFINE O == Opened(S, ActiveDoc(S))
           T == Stored(O)
<1>1. S \in Views /\ Opens(S) /\ ActiveDoc(S) \in Contents
  <2>1. S \in Views /\ Opens(S) /\ S.tab.source \in Sources /\ S.tab.active \in Plans
    BY OpenType DEF Ready, Stocked, Opens
  <2> QED
    BY <2>1 DEF ActiveDoc, Views
<1>2. ActiveDoc(S) = Corrupt => ActiveDoc(S).kind # "plan"
  BY DEF Corrupt
<1>3. Signed(S, O)
  BY <1>1, <1>2, OpenedSigned
<1>4. O \in Views /\ Opens(O)
  BY OpenedFit DEF Fit, Ready, Stocked
<1>5. Reopened(S) = T
  BY DEF Reopened
<1> HIDE DEF O
<1>6. Signed(O, T) /\ Autosaved(T)
  BY <1>4, StoredSigned
<1> HIDE DEF T
<1> QED
  BY <1>3, <1>5, <1>6, SignedBoth

(* The shared list was merged: the plans of the tab are the stored ones and *)
(* those it could not list, and it moves only off a plan that is neither.   *)
Merging(S, T) ==
    LET raw == S.index[S.tab.source]
        kept == S.tab.pending \ ToSet(raw.plans)
    IN  /\ IsLoaded(S.tab) /\ Readable(raw) /\ ~(S.tab.pending = {} /\ S.tab.synced = raw)
        /\ ToSet(T.tab.list) = ToSet(raw.plans) \cup (kept \cap ToSet(S.tab.list))
        /\ Distinct(raw.plans) /\ Distinct(S.tab.list) => Distinct(T.tab.list)
        /\ T.tab.pending = kept /\ T.tab.synced = raw /\ ~T.tab.unwritten
        /\ S.tab.active \in ToSet(T.tab.list) => T.tab.active = S.tab.active
        /\ Rewrites(S, T) /\ Keeps(S, T)

(* The list is as it was: there is none to merge, or it was merged.         *)
Quiet(S, T) ==
    LET raw == S.index[S.tab.source]
    IN  /\ Only(S, T, {"tab"}) /\ OnlyTab(S.tab, T.tab, {"told", "removed"})
        /\ IsLoaded(S.tab) => \/ ~Readable(raw)
                              \/ (S.tab.pending = {} /\ S.tab.synced = raw)
        /\ IsLoaded(S.tab) /\ raw = Absent /\ S.tab.source \in Uploads =>
              T.tab.removed \/ ToSet(S.tab.list) \subseteq S.tab.pending
        /\ S.tab.removed => T.tab.removed

SyncFields == {"list", "active", "shown", "pending", "synced", "unwritten"}

LEMMA MergedFit ==
    ASSUME NEW S, Fit(S), IsLoaded(S.tab), Readable(S.index[S.tab.source]),
           ~(S.tab.pending = {} /\ S.tab.synced = S.index[S.tab.source])
    PROVE  LET T == Merged(S, S.index[S.tab.source])
           IN  /\ Fit(T) /\ Within(S, T) /\ Merging(S, T)
               /\ Only(S, T, {"docs", "writer", "copies", "uncopied", "tab"})
               /\ OnlyTab(S.tab, T.tab, SyncFields)
<1> DEFINE raw == S.index[S.tab.source]
           kept == S.tab.pending \ ToSet(raw.plans)
           plans == MergeLists(raw.plans, S.tab.list, kept)
           active == IF Contains(plans, S.tab.active) THEN S.tab.active
                     ELSE Neighbour(S.tab.list, S.tab.active, plans)
           L == Listing(S, raw, plans, kept, active)
           T == Merged(S, raw)
<1>1. /\ S \in Views /\ S.tab.source \in Sources /\ S.tab.list \in Seq(Plans)
      /\ S.tab.active \in Plans /\ raw \in Indexes /\ Ready(S) /\ Stocked(S) /\ Opens(S)
      /\ Drew(S) /\ OwnDocs(S)
  BY OpenType DEF Fit, Ready, Stocked, Opens, Views
<1>2. raw.plans \in Lists /\ Listed(raw) = ToSet(raw.plans)
  BY <1>1, IndexKinds
<1>3. S.tab.pending \in SUBSET Plans
  BY <1>1 DEF Views, TabViews
<1> HIDE DEF raw
<1>4. kept \in SUBSET Plans
  BY <1>3
<1> HIDE DEF kept
<1>5. /\ plans \in Lists
      /\ ToSet(plans) = ToSet(raw.plans) \cup (kept \cap ToSet(S.tab.list))
  BY <1>1, <1>2, MergeType
<1>6. Distinct(raw.plans) /\ Distinct(S.tab.list) => Distinct(plans)
  <2>1. kept \cap ToSet(raw.plans) = {}
    BY DEF kept
  <2> QED
    BY <1>1, <1>2, <2>1, MergeType
<1> HIDE DEF plans
<1>7. plans \in Seq(Plans) /\ \A p : Contains(plans, p) <=> p \in ToSet(plans)
  BY <1>5, ListedPlans, ContainsInSet
<1>8. active \in ToSet(plans) /\ active \in Plans
  <2>1. Neighbour(S.tab.list, S.tab.active, plans) \in ToSet(plans)
    BY <1>1, <1>5, NeighbourType
  <2> QED
    BY <1>5, <1>7, <2>1, ListedPlans
<1>9. /\ Contains(plans, S.tab.active) => T = L /\ active = S.tab.active
      /\ ~Contains(plans, S.tab.active) => T = Reopened(L)
  BY DEF Merged, Relisted, Listing, plans, kept
<1> HIDE DEF T, active
<1>10. /\ L \in Views /\ Only(S, L, {"tab"})
       /\ OnlyTab(S.tab, L.tab, {"list", "active", "pending", "synced", "unwritten"})
       /\ L.tab.list = plans /\ L.tab.active = active /\ L.tab.pending = kept
       /\ L.tab.synced = raw /\ ~L.tab.unwritten
  BY <1>1, <1>4, <1>7, <1>8, ListingFacts
<1> HIDE DEF L
<1>11. /\ L.index = S.index /\ L.docs = S.docs /\ L.next = S.next /\ L.me = S.me
       /\ L.copies = S.copies /\ L.uncopied = S.uncopied /\ L.tab.source = S.tab.source
       /\ L.tab.shown = S.tab.shown
  BY <1>10 DEF Only, ViewFields, OnlyTab, TabFields
<1>12. Seen(L) = Seen(S)
  BY <1>11 DEF Seen
<1>13. \A p \in ToSet(plans) : p < S.next
  <2>1. \A p \in ToSet(raw.plans) : p < S.next
    BY <1>1, <1>2 DEF Drew, raw
  <2> QED
    BY <1>1, <1>5, <2>1 DEF Ready
<1>14. Ready(L)
  BY <1>1, <1>5, <1>8, <1>10, <1>11, <1>12, <1>13 DEF Ready, Stocked, OwnDocs, Drew, Opens
<1>15. Within(S, L)
  BY <1>1, <1>11, <1>12, WithinItself DEF Within, Confined
<1>16. IsLoaded(S.tab) /\ Readable(raw) /\ ~(S.tab.pending = {} /\ S.tab.synced = raw)
  BY DEF raw
<1>17. CASE Contains(plans, S.tab.active)
  <2>1. T = L /\ active = S.tab.active
    BY <1>9, <1>17
  <2>2. Fit(T)
    BY <1>10, <1>11, <1>12, <1>14, <2>1 DEF Fit, OnScreen, ActiveKept
  <2>9. Rewrites(S, T)
    BY <1>11, <2>1 DEF Rewrites
  <2>10. Keeps(S, T)
    <3>1. L.writer = S.writer /\ L.tab.removed = S.tab.removed /\ L.tab.active = S.tab.active
      BY <1>10, <2>1 DEF Only, ViewFields, OnlyTab, TabFields
    <3> QED
      BY <1>11, <2>1, <3>1, SameKeeps
  <2>3. Merging(S, T)
    BY <1>5, <1>6, <1>10, <1>16, <2>1, <2>9, <2>10 DEF Merging, raw, kept
  <2>4. Only(S, T, {"docs", "writer", "copies", "uncopied", "tab"})
    BY <1>10, <2>1 DEF Only
  <2>5. OnlyTab(S.tab, T.tab, SyncFields)
    BY <1>10, <2>1 DEF OnlyTab, SyncFields
  <2> QED
    BY <1>15, <2>1, <2>2, <2>3, <2>4, <2>5 DEF T, raw
<1>18. CASE ~Contains(plans, S.tab.active)
  <2>1. T = Reopened(L)
    BY <1>9, <1>18
  <2>2. /\ Fit(T) /\ Within(L, T)
        /\ Only(L, T, {"docs", "writer", "copies", "uncopied", "tab"})
        /\ OnlyTab(L.tab, T.tab, {"shown"})
    BY <1>14, <2>1, ReopenedFit
  <2>3. /\ T.tab.list = plans /\ T.tab.active = active /\ T.tab.pending = kept
        /\ T.tab.synced = raw /\ ~T.tab.unwritten
    BY <1>10, <2>2 DEF OnlyTab, TabFields
  <2>4. S.tab.active \notin ToSet(plans)
    BY <1>7, <1>18
  <2>9. Rewrites(S, T)
    <3>1. Rewrites(L, T)
      BY <1>14, <2>1, ReopenedRewrites
    <3> QED
      BY <1>11, <3>1 DEF Rewrites
  <2>10. Keeps(S, T)
    <3>1. L.writer = S.writer
      BY <1>10 DEF Only, ViewFields
    <3>2. Signed(S, L)
      BY <1>11, <3>1, SameKeeps
    <3>3. Signed(L, T) /\ Autosaved(T)
      BY <1>14, <2>1, ReopenedSigned
    <3> QED
      BY <3>2, <3>3, SignedBoth DEF Keeps
  <2>5. Merging(S, T)
    BY <1>5, <1>6, <1>16, <2>3, <2>4, <2>9, <2>10 DEF Merging, raw, kept
  <2>6. Only(S, T, {"docs", "writer", "copies", "uncopied", "tab"})
    BY <1>10, <2>2 DEF Only, ViewFields
  <2>7. OnlyTab(S.tab, T.tab, SyncFields)
    BY <1>10, <2>2 DEF OnlyTab, SyncFields, TabFields
  <2>8. Within(S, T)
    <3>1. T \in Views
      BY <2>2 DEF Fit, Ready, Stocked
    <3> QED
      BY <1>1, <1>10, <1>15, <2>2, <3>1, WithinBoth
  <2> QED
    BY <2>2, <2>5, <2>6, <2>7, <2>8 DEF T, raw
<1> QED
  BY <1>17, <1>18

LEMMA ToldFacts ==
    ASSUME NEW S \in Views
    PROVE  /\ Told(S) \in Views /\ Only(S, Told(S), {"tab"})
           /\ OnlyTab(S.tab, Told(S).tab, {"told"})
<1> DEFINE u == [S.tab EXCEPT !.told = TRUE]
           T == [S EXCEPT !.tab = u]
<1>1. u \in TabViews /\ OnlyTab(S.tab, u, {"told"})
  BY TabType DEF TabViews, OnlyTab, TabFields
<1>2. T = Told(S)
  BY DEF Told
<1> HIDE DEF u
<1>3. T \in Views /\ Only(S, T, {"tab"}) /\ T.tab = u
  BY <1>1 DEF Views, Only, ViewFields
<1> HIDE DEF T
<1> QED
  BY <1>1, <1>2, <1>3

LEMMA RemovedFacts ==
    ASSUME NEW S \in Views, NEW removed \in BOOLEAN
    PROVE  LET T == [S EXCEPT !.tab.removed = removed]
           IN  /\ T \in Views /\ Only(S, T, {"tab"}) /\ OnlyTab(S.tab, T.tab, {"removed"})
               /\ T.tab.removed = removed
<1> DEFINE u == [S.tab EXCEPT !.removed = removed]
           T == [S EXCEPT !.tab = u]
<1>1. u \in TabViews /\ OnlyTab(S.tab, u, {"removed"}) /\ u.removed = removed
  BY TabType, Zenon DEF TabViews, OnlyTab, TabFields
<1>2. T = [S EXCEPT !.tab.removed = removed]
  OBVIOUS
<1> HIDE DEF u
<1>3. T \in Views /\ Only(S, T, {"tab"}) /\ T.tab = u
  BY <1>1 DEF Views, Only, ViewFields
<1> HIDE DEF T
<1> QED
  BY <1>1, <1>2, <1>3


SyncViews == {"docs", "writer", "copies", "uncopied", "tab"}
Synced(S, T) ==
    /\ Only(S, T, SyncViews) /\ OnlyTab(S.tab, T.tab, SyncFields \cup {"told", "removed"})
    /\ Quiet(S, T) \/ (Merging(S, T) /\ T.tab.removed = S.tab.removed)

LEMMA SyncFit ==
    ASSUME NEW S, Fit(S)
    PROVE  Fit(Sync(S)) /\ Within(S, Sync(S)) /\ Synced(S, Sync(S))
<1> DEFINE raw == S.index[S.tab.source]
           removed == S.tab.removed \/ (S.tab.source \in Uploads /\ ToSet(S.tab.list) \ S.tab.pending # {})
           R == [S EXCEPT !.tab.removed = removed]
           M == Merged(S, raw)
           T == Sync(S)
<1>1. /\ S \in Views /\ S.tab.source \in Sources /\ S.tab.source # NoSource /\ raw \in Indexes
  BY PlanStoreAssumption DEF Fit, Ready, Stocked, Opens, Views
<1>2. /\ ~IsLoaded(S.tab) => T = S
      /\ IsLoaded(S.tab) /\ raw = Absent => T = Told(R)
      /\ IsLoaded(S.tab) /\ raw # Absent /\ (raw = Corrupt \/ (S.tab.pending = {} /\ S.tab.synced = raw)) => T = Told(S)
      /\ IsLoaded(S.tab) /\ raw # Absent /\ ~(raw = Corrupt \/ (S.tab.pending = {} /\ S.tab.synced = raw)) => T = Told(M)
  BY <1>1 DEF Sync
<1> HIDE DEF T
<1>3. CASE ~IsLoaded(S.tab)
  <2>1. Only(S, S, {"tab"}) /\ OnlyTab(S.tab, S.tab, {"told", "removed"})
    BY DEF Only, OnlyTab
  <2>2. Quiet(S, S)
    BY <1>3, <2>1 DEF Quiet
  <2>3. Synced(S, S)
    BY <2>2 DEF Synced, Only, OnlyTab
  <2> QED
    BY <1>1, <1>2, <1>3, <2>3, WithinItself DEF T
<1>4. CASE IsLoaded(S.tab) /\ raw # Absent /\ (raw = Corrupt \/ (S.tab.pending = {} /\ S.tab.synced = raw))
  <2>1. T = Told(S)
    BY <1>2, <1>4
  <2>2. T \in Views /\ Only(S, T, {"tab"}) /\ OnlyTab(S.tab, T.tab, {"told"})
    BY <1>1, <2>1, ToldFacts
  <2>3. Fit(T) /\ Within(S, T)
    <3>1. OnlyTab(S.tab, T.tab, {"told", "removed", "status", "pending", "synced", "unwritten"})
      BY <2>2 DEF OnlyTab
    <3> QED
      BY <2>2, <3>1, TabFit
  <2>4. Quiet(S, T)
    <3>1. OnlyTab(S.tab, T.tab, {"told", "removed"})
      BY <2>2 DEF OnlyTab
    <3>2. T.tab.removed = S.tab.removed
      BY <2>2 DEF OnlyTab, TabFields
    <3>3. ~Readable(raw) \/ (S.tab.pending = {} /\ S.tab.synced = raw)
      <4>1. ~Readable(Corrupt)
        BY DEF Readable, Corrupt
      <4> QED
        BY <1>4, <4>1
    <3> QED
      BY <1>4, <2>2, <3>1, <3>2, <3>3 DEF Quiet
  <2>5. Only(S, T, SyncViews) /\ OnlyTab(S.tab, T.tab, SyncFields \cup {"told", "removed"})
    BY <2>2 DEF Only, OnlyTab, SyncViews
  <2> QED
    BY <2>3, <2>4, <2>5 DEF Synced, T
<1>5. CASE IsLoaded(S.tab) /\ raw = Absent
  <2>1. T = Told(R)
    BY <1>2, <1>5
  <2>2. removed \in BOOLEAN
    OBVIOUS
  <2>3. removed => S.tab.removed \/ (S.tab.source \in Uploads /\ ToSet(S.tab.list) \ S.tab.pending # {})
    OBVIOUS
  <2>4. S.tab.removed \/ (S.tab.source \in Uploads /\ ToSet(S.tab.list) \ S.tab.pending # {}) => removed
    OBVIOUS
  <2> HIDE DEF removed
  <2>5. R \in Views /\ Only(S, R, {"tab"}) /\ OnlyTab(S.tab, R.tab, {"removed"}) /\ R.tab.removed = removed
    BY <1>1, <2>2, RemovedFacts
  <2> HIDE DEF R
  <2>6. T \in Views /\ Only(R, T, {"tab"}) /\ OnlyTab(R.tab, T.tab, {"told"})
    BY <2>1, <2>5, ToldFacts
  <2>7. /\ Only(S, T, {"tab"}) /\ OnlyTab(S.tab, T.tab, {"told", "removed"})
        /\ T.tab.removed = removed
    BY <2>5, <2>6 DEF Only, OnlyTab, ViewFields, TabFields
  <2>8. Fit(T) /\ Within(S, T)
    <3>1. OnlyTab(S.tab, T.tab, {"told", "removed", "status", "pending", "synced", "unwritten"})
      BY <2>7 DEF OnlyTab
    <3> QED
      BY <2>6, <2>7, <3>1, TabFit
  <2>9. Quiet(S, T)
    <3>1. ~Readable(raw)
      BY <1>5 DEF Readable, Absent
    <3>2. S.tab.source \in Uploads => T.tab.removed \/ ToSet(S.tab.list) \subseteq S.tab.pending
      BY <2>4, <2>7
    <3>3. S.tab.removed => T.tab.removed
      BY <2>4, <2>7
    <3> QED
      BY <1>5, <2>7, <3>1, <3>2, <3>3 DEF Quiet
  <2>10. Only(S, T, SyncViews) /\ OnlyTab(S.tab, T.tab, SyncFields \cup {"told", "removed"})
    BY <2>7 DEF Only, OnlyTab, SyncViews
  <2> QED
    BY <2>8, <2>9, <2>10 DEF Synced, T
<1>6. CASE IsLoaded(S.tab) /\ raw # Absent /\ ~(raw = Corrupt \/ (S.tab.pending = {} /\ S.tab.synced = raw))
  <2>1. T = Told(M) /\ Readable(raw)
    BY <1>1, <1>2, <1>6, IndexKinds
  <2>2. /\ Fit(M) /\ Within(S, M) /\ Merging(S, M)
        /\ Only(S, M, SyncViews) /\ OnlyTab(S.tab, M.tab, SyncFields)
    BY <1>6, <2>1, MergedFit DEF SyncViews
  <2> HIDE DEF M
  <2>3. M \in Views
    BY <2>2 DEF Fit, Ready, Stocked
  <2>4. T \in Views /\ Only(M, T, {"tab"}) /\ OnlyTab(M.tab, T.tab, {"told"})
    BY <2>1, <2>3, ToldFacts
  <2>5. Fit(T) /\ Within(M, T)
    <3>1. OnlyTab(M.tab, T.tab, {"told", "removed", "status", "pending", "synced", "unwritten"})
      BY <2>4 DEF OnlyTab
    <3> QED
      BY <2>2, <2>4, <3>1, TabFit
  <2>6. Within(S, T)
    BY <1>1, <2>2, <2>3, <2>4, <2>5, WithinBoth
  <2>7. /\ T.tab.list = M.tab.list /\ T.tab.pending = M.tab.pending /\ T.tab.synced = M.tab.synced
        /\ T.tab.unwritten = M.tab.unwritten /\ T.tab.active = M.tab.active
        /\ T.tab.removed = M.tab.removed /\ M.tab.removed = S.tab.removed
    BY <2>2, <2>4 DEF OnlyTab, TabFields, SyncFields
  <2>8. Merging(S, T)
    <3>1. Rewrites(S, M) /\ T.docs = M.docs /\ T.tab.source = M.tab.source
      BY <2>2, <2>4 DEF Merging, Only, ViewFields, OnlyTab, TabFields
    <3>2. Rewrites(S, T)
      BY <2>7, <3>1 DEF Rewrites
    <3>3. Keeps(S, T)
      <4>1. /\ T.me = M.me /\ T.docs = M.docs /\ T.writer = M.writer
            /\ T.tab.source = M.tab.source /\ T.tab.shown = M.tab.shown
        BY <2>4 DEF Only, ViewFields, OnlyTab, TabFields
      <4>2. Keeps(M, T)
        BY <2>7, <4>1, SameKeeps
      <4> QED
        BY <2>2, <4>2, KeepsBoth DEF Merging
    <3> QED
      BY <2>2, <2>7, <3>2, <3>3 DEF Merging
  <2>9. Only(S, T, SyncViews) /\ OnlyTab(S.tab, T.tab, SyncFields \cup {"told", "removed"})
    BY <2>2, <2>4 DEF Only, OnlyTab, ViewFields, TabFields, SyncViews
  <2> QED
    BY <2>5, <2>6, <2>7, <2>8, <2>9 DEF Synced, T
<1> QED
  BY <1>3, <1>4, <1>5, <1>6

(* What saving, and any change of the list on screen, leaves as it is.      *)
Kept(S, T) ==
    /\ T.legacy = S.legacy /\ T.next = S.next /\ T.index = S.index
    /\ T.gone = S.gone /\ T.deleted = S.deleted /\ T.unlisted = S.unlisted
    /\ T.tab.source = S.tab.source /\ T.tab.status = S.tab.status /\ T.refuses = S.refuses

LEMMA SyncKept ==
    ASSUME NEW S, NEW T, Synced(S, T)
    PROVE  Kept(S, T)
BY DEF Synced, Kept, Only, OnlyTab, ViewFields, TabFields, SyncViews, SyncFields

LEMMA SaveFit ==
    ASSUME NEW S, Fit(S)
    PROVE  /\ Fit(Save(S)) /\ Within(S, Save(S)) /\ Kept(S, Save(S))
           /\ Only(S, Save(S), SyncViews)
           /\ Save(S) = IF S.tab.status.kind = "loading" THEN S ELSE Stored(Sync(S))
<1> DEFINE Y == Sync(S)
           T == Stored(Y)
<1>0. S \in Views /\ S.tab.source \in Sources /\ S.tab.source # NoSource
  BY PlanStoreAssumption DEF Fit, Ready, Stocked, Opens
<1>1. Save(S) = IF S.tab.status.kind = "loading" THEN S ELSE T
  BY <1>0 DEF Save
<1>2. Kept(S, S) /\ Only(S, S, SyncViews)
  BY DEF Kept, Only
<1>3. Fit(Y) /\ Within(S, Y) /\ Synced(S, Y)
  BY SyncFit
<1>4. Kept(S, Y)
  BY <1>3, SyncKept
<1> HIDE DEF Y
<1>5. Fit(T) /\ Within(Y, T) /\ Only(Y, T, {"docs", "writer"})
  BY <1>3, StoredFit
<1> HIDE DEF T
<1>6. Y \in Views /\ T \in Views
  BY <1>3, <1>5 DEF Fit, Ready, Stocked
<1>7. Within(S, T)
  BY <1>0, <1>3, <1>5, <1>6, WithinBoth
<1>8. Kept(S, T)
  BY <1>4, <1>5 DEF Kept, Only, ViewFields
<1>9. Only(S, T, SyncViews)
  BY <1>3, <1>5 DEF Synced, Only, ViewFields, SyncViews
<1> QED
  BY <1>0, <1>1, <1>2, <1>3, <1>5, <1>7, <1>8, <1>9, WithinItself DEF T, Y

(* A new content of the plan on screen.                                     *)
LEMMA ShowFit ==
    ASSUME NEW S, Ready(S), ActiveKept(S), NEW c \in Contents,
           c.kind = "plan", c.plan \in {S.tab.active, 0}
    PROVE  LET T == Show(S, c)
           IN  Fit(T) /\ Within(S, T) /\ Kept(S, T)
<1> DEFINE R == [S EXCEPT !.tab.shown = c]
           T == Show(S, c)
<1>0. S \in Views
  BY DEF Ready, Stocked
<1>1. R \in Views /\ Only(S, R, {"tab"}) /\ OnlyTab(S.tab, R.tab, {"shown"}) /\ R.tab.shown = c
  BY <1>0, ShownFacts
<1>2. T = Save(R)
  BY DEF Show
<1> HIDE DEF R
<1>3. /\ R.index = S.index /\ R.docs = S.docs /\ R.next = S.next /\ R.me = S.me
      /\ R.copies = S.copies /\ R.uncopied = S.uncopied
      /\ R.tab.source = S.tab.source /\ R.tab.list = S.tab.list /\ R.tab.active = S.tab.active
      /\ Kept(S, R)
  BY <1>1 DEF Only, ViewFields, OnlyTab, TabFields, Kept
<1>4. Seen(R) = Seen(S)
  BY <1>3 DEF Seen
<1>5. Fit(R)
  BY <1>1, <1>3, <1>4 DEF Fit, Ready, Stocked, OwnDocs, Drew, Opens, OnScreen, ActiveKept
<1>6. Within(S, R)
  BY <1>0, <1>3, <1>4, WithinItself DEF Within, Confined
<1>7. Fit(T) /\ Within(R, T) /\ Kept(R, T)
  BY <1>2, <1>5, SaveFit
<1> HIDE DEF T
<1>8. T \in Views
  BY <1>7 DEF Fit, Ready, Stocked
<1>9. Within(S, T)
  BY <1>0, <1>1, <1>6, <1>7, <1>8, WithinBoth
<1>10. Kept(S, T)
  BY <1>3, <1>7 DEF Kept
<1> QED
  BY <1>7, <1>9, <1>10 DEF T

LEMMA OpenActiveFit ==
    ASSUME NEW S, Ready(S)
    PROVE  LET T == OpenActive(S)
           IN  Fit(T) /\ Within(S, T) /\ Kept(S, T)
<1> DEFINE O == Opened(S, ActiveDoc(S))
           T == Save(O)
<1>1. /\ Fit(O) /\ Within(S, O) /\ Only(S, O, {"docs", "copies", "uncopied", "tab"})
      /\ OnlyTab(S.tab, O.tab, {"shown"})
  BY OpenedFit
<1>2. OpenActive(S) = T
  BY DEF OpenActive, LoadActivePlan
<1> HIDE DEF O
<1>3. Kept(S, O)
  BY <1>1 DEF Only, OnlyTab, ViewFields, TabFields, Kept
<1>4. Fit(T) /\ Within(O, T) /\ Kept(O, T)
  BY <1>1, SaveFit
<1> HIDE DEF T
<1>5. S \in Views /\ O \in Views /\ T \in Views
  BY <1>1, <1>4 DEF Fit, Ready, Stocked
<1>6. Within(S, T)
  BY <1>1, <1>4, <1>5, WithinBoth
<1>7. Kept(S, T)
  BY <1>3, <1>4 DEF Kept
<1> QED
  BY <1>2, <1>4, <1>6, <1>7 DEF T

(* A new list of plans drawn, and its active plan.                          *)
LEMMA CommitReady ==
    ASSUME NEW S, Ready(S), NEW list \in Lists, NEW active \in ToSet(list), NEW changed \in BOOLEAN,
           \A p \in ToSet(list) : p < S.next
    PROVE  LET T == CommitIndex(S, list, active, changed)
           IN  /\ Ready(T) /\ Within(S, T)
               /\ Only(S, T, {"index", "tab", "unlisted"})
               /\ OnlyTab(S.tab, T.tab, {"list", "active", "pending", "synced", "unwritten"})
               /\ T.tab.list = list /\ T.tab.active = active
               /\ \/ \E hint \in ToSet(list) : Written(S, T, list, hint)
                  \/ Unwritten(S, T, list)
<1> DEFINE T == CommitIndex(S, list, active, changed)
           s == S.tab.source
<1>0. S \in Views /\ s \in Sources /\ OwnDocs(S) /\ Drew(S)
  BY DEF Ready, Stocked, Opens
<1>1. /\ T \in Views /\ Only(S, T, {"index", "tab", "unlisted"})
      /\ OnlyTab(S.tab, T.tab, {"list", "active", "pending", "synced", "unwritten"})
      /\ T.tab.list = list /\ T.tab.active = active
      /\ \/ \E hint \in ToSet(list) : Written(S, T, list, hint)
         \/ Unwritten(S, T, list)
  BY <1>0, CommitFacts
<1> HIDE DEF T
<1>2. /\ T.docs = S.docs /\ T.next = S.next /\ T.me = S.me /\ T.copies = S.copies
      /\ T.uncopied = S.uncopied /\ T.tab.source = s
  BY <1>1 DEF Only, ViewFields, OnlyTab, TabFields
<1>3. Seen(T) = Seen(S)
  BY <1>2 DEF Seen
<1> HIDE DEF s
<1>4. \A r \in Sources :
        \/ T.index[r] = S.index[r]
        \/ r = s /\ \E hint \in ToSet(list) : T.index[r] = Index(list, hint)
  <2>1. ASSUME NEW hint \in ToSet(list), Written(S, T, list, hint), NEW r \in Sources
        PROVE  T.index[r] = S.index[r] \/ (r = s /\ T.index[r] = Index(list, hint))
    <3>1. T.index = [S.index EXCEPT ![s] = Index(list, hint)]
      BY <2>1 DEF Written, s
    <3> QED
      BY <1>0, <3>1 DEF Views
  <2>2. Unwritten(S, T, list) => T.index = S.index
    BY DEF Unwritten
  <2> QED
    BY <1>1, <2>1, <2>2
<1>5. ASSUME NEW hint \in ToSet(list)
      PROVE  /\ Listed(Index(list, hint)) = ToSet(list) /\ Index(list, hint) # Corrupt
             /\ Index(list, hint).active = hint /\ Index(list, hint).plans = list
  BY DEF Index, Listed, Readable, Corrupt
<1>6. Drew(T)
  BY <1>0, <1>2, <1>4, <1>5 DEF Drew
<1>7. T.index[s] = Corrupt => IndexKey(s) \in Seen(T)
  BY <1>0, <1>3, <1>4, <1>5 DEF Ready, s
<1>8. Ready(T)
  BY <1>0, <1>1, <1>2, <1>6, <1>7 DEF Ready, Stocked, Opens, OwnDocs
<1>9. Within(S, T)
  <2>1. \A r \in Sources : S.index[r] = Corrupt /\ T.index[r] # Corrupt => IndexKey(r) \in Seen(T)
    BY <1>3, <1>4 DEF Ready, s
  <2>2. \A r \in Sources : T.index[r] = Corrupt => S.index[r] = Corrupt
    BY <1>4, <1>5
  <2>3. \A r \in Sources \ {s} : T.index[r] = S.index[r]
    BY <1>4
  <2>4. S.next <= T.next
    BY <1>0, <1>2 DEF Views
  <2> QED
    BY <1>2, <1>3, <2>1, <2>2, <2>3, <2>4 DEF Within, Confined, s
<1> QED
  BY <1>1, <1>8, <1>9 DEF T


-----------------------------------------------------------------------------
(* The plan actions.                                                        *)

Passed(S, T) == Ready(T) /\ Within(S, T) /\ T.legacy = S.legacy
Handled(S, T) == Fit(T) /\ Within(S, T) /\ T.legacy = S.legacy

LEMMA HandledBoth ==
    ASSUME NEW S \in Views, NEW T, NEW U, Passed(S, T)
    PROVE  /\ Handled(T, U) => Handled(S, U)
           /\ Passed(T, U) => Passed(S, U)
<1>1. T \in Views
  BY DEF Passed, Ready, Stocked
<1>2. Fit(U) \/ Ready(U) => U \in Views
  BY DEF Fit, Ready, Stocked
<1> QED
  BY <1>1, <1>2, WithinBoth DEF Passed, Handled

LEMMA HandledPasses ==
    ASSUME NEW S, NEW T, Handled(S, T)
    PROVE  Passed(S, T) /\ T \in Views
BY DEF Handled, Passed, Fit, Ready, Stocked

LEMMA FitViews ==
    ASSUME NEW S, Fit(S)
    PROVE  /\ S \in Views /\ Ready(S) /\ OnScreen(S) /\ ActiveKept(S) /\ Drew(S) /\ Opens(S)
           /\ OwnDocs(S) /\ Handled(S, S)
BY WithinItself DEF Fit, Ready, Stocked, Handled

LEMMA ListBelow ==
    ASSUME NEW S, Ready(S)
    PROVE  /\ \A p \in ToSet(S.tab.list) : p \in Plans /\ p < S.next /\ p <= S.next
           /\ S.tab.list \in Lists /\ S.tab.list \in Seq(Plans) /\ S.tab.active \in ToSet(S.tab.list)
           /\ S.next <= S.next
<1>1. S.next \in Nat /\ S \in Views /\ Opens(S)
  BY DEF Ready, Stocked, Views
<1>2. \A p \in ToSet(S.tab.list) : p \in Plans /\ p < S.next
  BY <1>1, OpenType DEF Ready
<1> QED
  BY <1>1, <1>2, OpenType DEF Opens, Plans

LEMMA SyncHandled ==
    ASSUME NEW S, Fit(S)
    PROVE  /\ Handled(S, Sync(S)) /\ Sync(S).next = S.next
           /\ Handled(S, Save(Sync(S))) /\ Save(Sync(S)).next = S.next
<1> DEFINE Y == Sync(S)
           V == Save(Y)
<1>1. Fit(Y) /\ Within(S, Y) /\ Kept(S, Y)
  BY SyncFit, SyncKept
<1> HIDE DEF Y
<1>2. Fit(V) /\ Within(Y, V) /\ Kept(Y, V)
  BY <1>1, SaveFit
<1> HIDE DEF V
<1>3. Handled(S, Y) /\ Y.next = S.next
  BY <1>1 DEF Handled, Kept
<1>4. Handled(Y, V) /\ V.next = Y.next
  BY <1>2 DEF Handled, Kept
<1>5. Handled(S, V)
  BY <1>3, <1>4, HandledBoth, HandledPasses, FitViews
<1> QED
  BY <1>3, <1>4, <1>5 DEF Y, V

LEMMA CommitPassed ==
    ASSUME NEW S, Ready(S), NEW list \in Lists, NEW active \in ToSet(list), NEW changed \in BOOLEAN,
           \A p \in ToSet(list) : p < S.next
    PROVE  Passed(S, CommitIndex(S, list, active, changed))
BY CommitReady DEF Passed, Only, ViewFields

LEMMA DrawnPassed ==
    ASSUME NEW S, Ready(S)
    PROVE  Passed(S, Drawn(S)) /\ Drawn(S).next = S.next + 1 /\ Drawn(S).tab = S.tab
<1> DEFINE T == Drawn(S)
<1>0. S \in Views /\ S.next \in Nat /\ OwnDocs(S) /\ Drew(S) /\ S.tab.source \in Sources
  BY DEF Ready, Stocked, Views, Opens
<1>1. T \in Views /\ Only(S, T, {"next"}) /\ T.next = S.next + 1
  BY <1>0, DrawnFacts
<1> HIDE DEF T
<1>2. /\ T.index = S.index /\ T.docs = S.docs /\ T.me = S.me /\ T.copies = S.copies
      /\ T.uncopied = S.uncopied /\ T.tab = S.tab /\ T.legacy = S.legacy
  BY <1>1 DEF Only, ViewFields
<1>3. \A p \in Plans : p < S.next => p < T.next
  BY <1>0, <1>1 DEF Plans
<1>4. \A s \in Sources : Listed(S.index[s]) \subseteq Plans
  BY <1>0, IndexKinds, ListedPlans DEF Views
<1>5. Drew(T)
  BY <1>0, <1>2, <1>3, <1>4 DEF Drew
<1>6. Seen(T) = Seen(S)
  BY <1>2 DEF Seen
<1>7. Ready(T)
  <2>1. \A p \in ToSet(T.tab.list) : p < T.next
    BY <1>0, <1>2, <1>3, OpenType DEF Ready
  <2> QED
    BY <1>0, <1>1, <1>2, <1>5, <1>6, <2>1 DEF Ready, Stocked, OwnDocs, Opens
<1>8. Within(S, T)
  BY <1>0, <1>1, <1>2, <1>6, WithinItself DEF Within, Confined
<1> QED
  BY <1>1, <1>2, <1>7, <1>8 DEF Passed, T

(* A fresh plan that is shown.                                              *)
LEMMA AddPlanHandled ==
    ASSUME NEW M, Fit(M), M.next \in Plans, NEW list \in Lists,
           M.next \in ToSet(list), \A p \in ToSet(list) : p <= M.next,
           NEW c \in Contents, c.kind = "plan", c.plan = M.next
    PROVE  Handled(M, AddPlan(M, list, c))
<1> DEFINE D == Drawn(M)
           C == CommitIndex(D, list, M.next, TRUE)
           T == Show(C, c)
<1>0. M \in Views /\ Ready(M) /\ M.tab.source \in Sources /\ Drew(M)
  BY FitViews DEF Opens
<1>1. Passed(M, D) /\ D.next = M.next + 1 /\ D.tab = M.tab /\ D.docs = M.docs
  <2>1. D.docs = M.docs
    BY <1>0, DrawnFacts DEF Only, ViewFields
  <2> QED
    BY <1>0, <2>1, DrawnPassed
<1>2. AddPlan(M, list, c) = T
  BY DEF AddPlan, Fresh
<1> HIDE DEF D
<1>3. \A p \in ToSet(list) : p < D.next
  <2>1. ToSet(list) \subseteq Plans
    BY ListedPlans
  <2> QED
    BY <1>1, <2>1 DEF Plans
<1>4. /\ Ready(C) /\ Passed(D, C) /\ C.tab.active = M.next
      /\ C.docs = M.docs /\ C.tab.source = M.tab.source
  <2>1. Ready(D)
    BY <1>1 DEF Passed
  <2>2. /\ Ready(C) /\ Only(D, C, {"index", "tab", "unlisted"})
        /\ OnlyTab(D.tab, C.tab, {"list", "active", "pending", "synced", "unwritten"})
        /\ C.tab.active = M.next
    BY <1>3, <2>1, CommitReady, ZenonT(30)
  <2>3. Passed(D, C)
    BY <1>3, <2>1, CommitPassed
  <2> HIDE DEF C
  <2> QED
    BY <1>1, <2>2, <2>3 DEF Only, ViewFields, OnlyTab, TabFields
<1> HIDE DEF C
<1>5. ActiveKept(C)
  <2>1. ~(M.next < M.next)
    BY DEF Plans
  <2>2. M.docs[M.tab.source][M.next] = Absent
    BY <1>0, <2>1 DEF Drew
  <2> QED
    BY <1>4, <2>2 DEF ActiveKept, Absent, Corrupt
<1>6. Handled(C, T)
  BY <1>4, <1>5, ShowFit DEF Handled, Kept
<1> HIDE DEF T
<1>7. Handled(M, T)
  BY <1>0, <1>1, <1>4, <1>6, HandledBoth
<1> QED
  BY <1>2, <1>7

LEMMA AddLastHandled ==
    ASSUME NEW S, Fit(S), S.next \in Plans,
           NEW c \in Contents, c.kind = "plan", c.plan = S.next
    PROVE  Handled(S, AddLast(Save(Sync(S)), c))
<1> DEFINE M == Save(Sync(S))
           list == Append(M.tab.list, M.next)
<1>1. Handled(S, M) /\ M.next = S.next
  BY SyncHandled
<1> HIDE DEF M
<1>2. Fit(M) /\ Ready(M) /\ M.tab.list \in Seq(Plans)
  BY <1>1, FitViews, OpenType DEF Handled
<1>3. list \in Lists /\ M.next \in ToSet(list) /\ \A p \in ToSet(list) : p <= M.next
  <2>1. list \in Lists /\ ToSet(list) = ToSet(M.tab.list) \cup {M.next}
    BY <1>1, <1>2, AppendType
  <2> QED
    BY <1>1, <1>2, <2>1, ListBelow
<1>4. AddLast(M, c) = AddPlan(M, list, c)
  BY DEF AddLast, Fresh
<1> HIDE DEF list
<1>5. Handled(M, AddPlan(M, list, c))
  BY <1>1, <1>2, <1>3, AddPlanHandled
<1>6. Handled(S, AddPlan(M, list, c))
  BY <1>1, <1>5, HandledBoth, HandledPasses, FitViews
<1> QED
  BY <1>4, <1>6 DEF M

LEMMA CreateHandled ==
    ASSUME NEW S, Fit(S), S.next \in Plans
    PROVE  Handled(S, CreatePlan(S))
<1>1. /\ Blank(S.next) \in Contents /\ Blank(S.next).kind = "plan"
      /\ Blank(S.next).plan = S.next
  BY ContentTypes DEF Blank
<1> QED
  BY <1>1, AddLastHandled DEF CreatePlan, Fresh

LEMMA ImportHandled ==
    ASSUME NEW S, Fit(S), S.next \in Plans, NEW edit \in Nat
    PROVE  Handled(S, ImportPlanAsNew(S, edit))
BY ContentTypes, AddLastHandled DEF ImportPlanAsNew, Fresh

LEMMA EditHandled ==
    ASSUME NEW S, Fit(S), NEW edit \in Nat
    PROVE  Handled(S, EditBlocks(S, edit))
<1>1. S.tab.active \in Plans
  BY FitViews, OpenType
<1>2. /\ Content(S.tab.active, edit) \in Contents
      /\ Content(S.tab.active, edit).kind = "plan"
      /\ Content(S.tab.active, edit).plan = S.tab.active
  BY <1>1, ContentTypes
<1> QED
  BY <1>2, FitViews, ShowFit DEF EditBlocks, Handled, Kept

LEMMA DuplicateHandled ==
    ASSUME NEW S, Fit(S), S.next \in Plans
    PROVE  Handled(S, DuplicatePlan(S))
<1> DEFINE M == Sync(S)
           V == Save(M)
           at == PositionOf(M.tab.list, M.tab.active)
           list == InsertAt(M.tab.list, at + 1, M.next)
           c == Content(M.next, S.tab.shown.edit)
<1>1. /\ Handled(S, M) /\ M.next = S.next /\ Handled(S, V) /\ V.next = S.next
  BY SyncHandled
<1>2. S.tab.shown.edit \in Nat
  BY FitViews, ContentKinds DEF OnScreen, Views, TabViews
<1>3. DuplicatePlan(S) = IF M.tab.active # S.tab.active THEN M ELSE AddPlan(V, list, c)
  BY DEF DuplicatePlan, Duplicating, Fresh
<1>4. c \in Contents /\ c.kind = "plan" /\ c.plan = V.next
  BY <1>1, <1>2, ContentTypes
<1> HIDE DEF c
<1>5. Fit(M) /\ Fit(V) /\ Ready(M)
  BY <1>1, FitViews DEF Handled
<1> HIDE DEF M, V
<1>6. list \in Lists /\ M.next \in ToSet(list) /\ \A p \in ToSet(list) : p <= M.next
  <2>1. M.tab.list \in Seq(Plans) /\ Contains(M.tab.list, M.tab.active) /\ Len(M.tab.list) \in Nat
    BY <1>5, ListBelow, ContainsInSet, LenProperties
  <2>2. at \in 1..Len(M.tab.list)
    BY <2>1, PositionFound, LenProperties
  <2> HIDE DEF at
  <2>3. at + 1 \in 1..(Len(M.tab.list) + 1)
    BY <2>1, <2>2
  <2>4. list \in Lists /\ ToSet(list) = ToSet(M.tab.list) \cup {M.next}
    BY <1>1, <2>1, <2>3, InsertType
  <2> QED
    BY <1>1, <1>5, <2>4, ListBelow
<1> HIDE DEF list
<1>7. Handled(V, AddPlan(V, list, c))
  BY <1>1, <1>4, <1>5, <1>6, AddPlanHandled
<1>8. Handled(S, AddPlan(V, list, c))
  BY <1>1, <1>7, HandledBoth, HandledPasses, FitViews
<1> QED
  BY <1>1, <1>3, <1>8

LEMMA RenameHandled ==
    ASSUME NEW S, Fit(S), NEW p
    PROVE  Handled(S, RenamePlan(S, p))
<1> DEFINE M == Sync(S)
           T == CommitIndex(M, M.tab.list, M.tab.active, FALSE)
<1>1. Handled(S, M)
  BY SyncHandled
<1>2. RenamePlan(S, p) = M \/ RenamePlan(S, p) = T
  BY DEF RenamePlan, Renaming
<1> HIDE DEF M
<1>3. Fit(M) /\ Ready(M)
  BY <1>1, FitViews DEF Handled
<1>4. M.tab.list \in Lists /\ M.tab.active \in ToSet(M.tab.list) /\ \A q \in ToSet(M.tab.list) : q < M.next
  BY <1>3, ListBelow
<1>5. /\ Ready(T) /\ Only(M, T, {"index", "tab", "unlisted"})
      /\ OnlyTab(M.tab, T.tab, {"list", "active", "pending", "synced", "unwritten"})
      /\ T.tab.active = M.tab.active /\ Passed(M, T)
  BY <1>3, <1>4, CommitReady, CommitPassed
<1> HIDE DEF T
<1>6. Fit(T)
  <2>1. /\ T.docs = M.docs /\ T.copies = M.copies /\ T.uncopied = M.uncopied
        /\ T.tab.source = M.tab.source /\ T.tab.shown = M.tab.shown
    BY <1>5 DEF Only, OnlyTab, ViewFields, TabFields
  <2> QED
    BY <1>3, <1>5, <2>1 DEF Fit, OnScreen, ActiveKept, Seen
<1>7. Handled(M, T)
  BY <1>5, <1>6 DEF Passed, Handled
<1>8. Handled(S, T)
  BY <1>1, <1>7, HandledBoth, HandledPasses, FitViews
<1> QED
  BY <1>1, <1>2, <1>8

(* A plan of the list becomes the active one and is shown.                  *)
LEMMA SwitchHandled ==
    ASSUME NEW S, Fit(S), NEW p
    PROVE  Handled(S, SwitchPlan(S, p))
<1> DEFINE M == Sync(S)
           V == Save(M)
           E == CommitIndex(M, M.tab.list, p, TRUE)
           C == CommitIndex(V, M.tab.list, p, TRUE)
           T == OpenActive(C)
<1>1. Handled(S, M) /\ Handled(S, V) /\ V.next = M.next
  BY SyncHandled
<1>2. \/ SwitchPlan(S, p) = M
      \/ p = M.tab.active /\ SwitchPlan(S, p) = E
      \/ Contains(M.tab.list, p) /\ SwitchPlan(S, p) = T
  BY DEF SwitchPlan, Switching
<1> HIDE DEF M, V
<1>3. Fit(M) /\ Ready(M) /\ Fit(V) /\ Ready(V)
  BY <1>1, FitViews DEF Handled
<1>4. M.tab.list \in Lists /\ M.tab.active \in ToSet(M.tab.list) /\ \A q \in ToSet(M.tab.list) : q < M.next
  BY <1>3, ListBelow
<1>5. ASSUME p = M.tab.active
      PROVE  Handled(S, E)
  <2>1. /\ Ready(E) /\ Only(M, E, {"index", "tab", "unlisted"})
        /\ OnlyTab(M.tab, E.tab, {"list", "active", "pending", "synced", "unwritten"})
        /\ E.tab.active = M.tab.active /\ Passed(M, E)
    BY <1>3, <1>4, <1>5, CommitReady, CommitPassed
  <2> HIDE DEF E
  <2>2. /\ E.docs = M.docs /\ E.copies = M.copies /\ E.uncopied = M.uncopied
        /\ E.tab.source = M.tab.source /\ E.tab.shown = M.tab.shown
    BY <2>1 DEF Only, OnlyTab, ViewFields, TabFields
  <2>3. Fit(E)
    BY <1>3, <2>1, <2>2 DEF Fit, OnScreen, ActiveKept, Seen
  <2> QED
    BY <1>1, <2>1, <2>3, HandledBoth, HandledPasses, FitViews DEF Passed, Handled
<1>6. ASSUME Contains(M.tab.list, p)
      PROVE  Handled(S, T)
  <2>1. p \in ToSet(M.tab.list)
    BY <1>4, <1>6, ContainsInSet, ListedPlans
  <2>2. Ready(C) /\ Passed(V, C)
    BY <1>1, <1>3, <1>4, <2>1, CommitReady, CommitPassed
  <2> HIDE DEF C
  <2>3. Handled(C, T)
    BY <2>2, OpenActiveFit DEF Handled, Kept
  <2> HIDE DEF T
  <2> QED
    BY <1>1, <2>2, <2>3, HandledBoth, HandledPasses, FitViews
<1> QED
  BY <1>1, <1>2, <1>5, <1>6


(* The key of the active plan is removed.                                   *)
Unkeyed(S, p) ==
    [S EXCEPT !.docs[S.tab.source][p] = Absent, !.writer[p] = 0, !.deleted = @ \cup {p}]

LEMMA UnkeyedFacts ==
    ASSUME NEW S \in Views, S.tab.source \in Sources, NEW p \in Plans
    PROVE  LET T == Unkeyed(S, p)
           IN  /\ T \in Views /\ Only(S, T, {"docs", "writer", "deleted"})
               /\ T.docs = [S.docs EXCEPT ![S.tab.source][p] = Absent]
               /\ T.deleted = S.deleted \cup {p}
<1> DEFINE T == Unkeyed(S, p)
           newDocs == [S.docs EXCEPT ![S.tab.source][p] = Absent]
           newWriter == [S.writer EXCEPT ![p] = 0]
<1>1. newDocs \in [Sources -> [Plans -> Contents]]
  BY ContentTypes DEF Views
<1>2. newWriter \in [Plans -> Tabs \cup {0}]
  BY DEF Views
<1>3. T = [S EXCEPT !.docs = newDocs, !.writer = newWriter, !.deleted = @ \cup {p}]
  BY DEF Unkeyed
<1> HIDE DEF T, newDocs, newWriter
<1>4. /\ T \in Views /\ Only(S, T, {"docs", "writer", "deleted"})
      /\ T.docs = newDocs /\ T.deleted = S.deleted \cup {p}
  BY <1>1, <1>2, <1>3 DEF Views, Only, ViewFields
<1> QED
  BY <1>4 DEF T, newDocs

LEMMA UnkeyedPassed ==
    ASSUME NEW S, Ready(S), NEW p \in Plans,
           S.docs[S.tab.source][p] = Corrupt => PlanKey(S.tab.source, p) \in Seen(S)
    PROVE  Passed(S, Unkeyed(S, p)) /\ Unkeyed(S, p).tab = S.tab /\ Unkeyed(S, p).next = S.next
<1> DEFINE T == Unkeyed(S, p)
           s == S.tab.source
<1>0. S \in Views /\ s \in Sources /\ OwnDocs(S) /\ Drew(S) /\ S.next \in Nat
  BY DEF Ready, Stocked, Opens, Views
<1>1. /\ T \in Views /\ Only(S, T, {"docs", "writer", "deleted"})
      /\ T.docs = [S.docs EXCEPT ![s][p] = Absent]
  BY <1>0, UnkeyedFacts
<1> HIDE DEF T
<1>2. /\ T.index = S.index /\ T.next = S.next /\ T.me = S.me /\ T.copies = S.copies
      /\ T.uncopied = S.uncopied /\ T.tab = S.tab /\ T.legacy = S.legacy
  BY <1>1 DEF Only, ViewFields
<1>3. Seen(T) = Seen(S)
  BY <1>2 DEF Seen
<1> HIDE DEF s
<1>4. \A r \in Sources, q \in Plans :
        \/ T.docs[r][q] = S.docs[r][q]
        \/ (r = s /\ q = p /\ T.docs[r][q] = Absent)
  BY <1>0, <1>1 DEF Views
<1>5. \A r \in Sources \ {s} : T.docs[r] = S.docs[r]
  BY <1>0, <1>1 DEF Views
<1>6. Absent.kind # "plan" /\ Absent # Corrupt
  BY DEF Absent, Corrupt
<1>7. OwnDocs(T)
  BY <1>0, <1>4, <1>6 DEF OwnDocs
<1>8. Drew(T)
  BY <1>0, <1>2, <1>4 DEF Drew
<1>9. Ready(T)
  BY <1>1, <1>2, <1>3, <1>7, <1>8 DEF Ready, Stocked, Opens
<1>10. Within(S, T)
  <2>1. \A r \in Sources, q \in Plans :
          S.docs[r][q] = Corrupt /\ T.docs[r][q] # Corrupt => PlanKey(r, q) \in Seen(T)
    BY <1>3, <1>4 DEF s
  <2>2. \A r \in Sources, q \in Plans :
          T.docs[r][q] = Corrupt => S.docs[r][q] = Corrupt \/ S.next <= q
    BY <1>4, <1>6
  <2> QED
    BY <1>0, <1>2, <1>3, <1>5, <2>1, <2>2 DEF Within, Confined, s
<1> QED
  BY <1>2, <1>9, <1>10 DEF Passed, T

(* The plan that takes the place of the one deleted.                        *)
LEMMA DroppingCommits ==
    ASSUME NEW S, NEW list \in Lists, NEW at \in 1..(Len(list) + 1)
    PROVE  \E q \in ToSet(list) :
               Dropping(S, S.tab.active, list, at)
                   = CommitIndex(Unkeyed(S, S.tab.active), list, q, TRUE)
<1> DEFINE n == IF at \in DOMAIN list THEN at ELSE Max({at - 1, 1})
<1>1. Dropping(S, S.tab.active, list, at) = CommitIndex(Unkeyed(S, S.tab.active), list, list[n], TRUE)
  BY DEF Dropping, Unkeyed
<1>2. n \in DOMAIN list
  <2>1. DOMAIN list = 1..Len(list) /\ Len(list) \in Nat \ {0}
    BY LenProperties, EmptySeq DEF Lists
  <2>2. CASE at \in DOMAIN list
    BY <2>2
  <2>3. CASE at \notin DOMAIN list
    <3>1. {at - 1, 1} \in SUBSET (1..Len(list)) /\ {at - 1, 1} # {}
      BY <2>1, <2>3
    <3>2. Max({at - 1, 1}) \in {at - 1, 1}
      BY <2>1, <3>1, MaxOf
    <3> QED
      BY <2>1, <2>3, <3>1, <3>2
  <2> QED
    BY <2>2, <2>3
<1> HIDE DEF n
<1>3. list[n] \in ToSet(list)
  BY <1>2 DEF ToSet
<1> QED
  BY <1>1, <1>3

LEMMA DroppingPassed ==
    ASSUME NEW S, Ready(S), ActiveKept(S), NEW list \in Lists, NEW at \in 1..(Len(list) + 1),
           \A p \in ToSet(list) : p < S.next
    PROVE  Passed(S, Dropping(S, S.tab.active, list, at))
<1> DEFINE p == S.tab.active
           X == Unkeyed(S, p)
<1>0. S \in Views /\ p \in Plans
  BY OpenType DEF Ready, Stocked
<1>1. Passed(S, X) /\ X.next = S.next /\ X.tab = S.tab
  BY <1>0, UnkeyedPassed DEF ActiveKept
<1>2. PICK q \in ToSet(list) : Dropping(S, p, list, at) = CommitIndex(X, list, q, TRUE)
  BY DroppingCommits
<1> HIDE DEF X
<1>3. Passed(X, CommitIndex(X, list, q, TRUE))
  BY <1>1, CommitPassed DEF Passed
<1> QED
  BY <1>0, <1>1, <1>2, <1>3, HandledBoth

LEMMA DroppedPassed ==
    ASSUME NEW S, Ready(S), NEW p \in Plans
    PROVE  Passed(S, Dropped(S, p))
<1> DEFINE T == [S EXCEPT !.gone = @ \cup {p}]
<1>0. S \in Views
  BY DEF Ready, Stocked
<1>1. T \in Views /\ Only(S, T, {"gone"})
  BY <1>0 DEF Views, Only, ViewFields
<1>2. Dropped(S, p) = S \/ Dropped(S, p) = T
  BY DEF Dropped
<1> HIDE DEF T
<1>3. /\ T.index = S.index /\ T.docs = S.docs /\ T.next = S.next /\ T.me = S.me
      /\ T.copies = S.copies /\ T.uncopied = S.uncopied /\ T.tab = S.tab /\ T.legacy = S.legacy
  BY <1>1 DEF Only, ViewFields
<1>4. Ready(T)
  BY <1>1, <1>3 DEF Ready, Stocked, OwnDocs, Drew, Opens, Seen
<1>5. Within(S, S) /\ Within(S, T)
  BY <1>0, <1>3, WithinItself DEF Within, Confined, Seen
<1> QED
  BY <1>2, <1>3, <1>4, <1>5 DEF Passed

(* After a sync the active plan is another one, or still in the list.       *)
LEMMA SyncedActive ==
    ASSUME NEW S, NEW T, Synced(S, T), S.tab.active \in ToSet(T.tab.list)
    PROVE  T.tab.active = S.tab.active
<1>1. CASE Quiet(S, T)
  BY <1>1 DEF Quiet, OnlyTab, TabFields
<1>2. CASE Merging(S, T)
  BY <1>2 DEF Merging
<1> QED
  BY <1>1, <1>2 DEF Synced

LEMMA WithoutPassed ==
    ASSUME NEW M, Fit(M), M.next \in Plans
    PROVE  Passed(M, WithoutPlan(M, M.tab.active, PositionOf(M.tab.list, M.tab.active)))
<1> DEFINE p == M.tab.active
           l == M.tab.list
           at == PositionOf(l, p)
           rest == RemoveAt(l, at)
           D == Drawn(M)
           A == Dropping(D, p, <<M.next>>, at)
           B == Dropping(M, p, rest, at)
           W == WithoutPlan(M, p, at)
<1>1. /\ M \in Views /\ Ready(M) /\ ActiveKept(M) /\ l \in Seq(Plans) /\ Contains(l, p)
      /\ p \in Plans /\ \A q \in ToSet(l) : q < M.next
  BY FitViews, ListBelow, ContainsInSet
<1>2. at \in DOMAIN l /\ DOMAIN l = 1..Len(l) /\ Len(l) \in Nat
  BY <1>1, PositionFound, LenProperties
<1> HIDE DEF at
<1>3. /\ rest \in Seq(Plans) /\ Len(rest) = Len(l) - 1 /\ ToSet(rest) \subseteq ToSet(l)
  BY <1>1, <1>2, RemoveType
<1>4. W = Dropped(IF rest = <<>> THEN A ELSE B, p)
  BY DEF WithoutPlan, Fresh
<1> HIDE DEF rest, W
<1>5. ASSUME rest = <<>>
      PROVE  Passed(M, A)
  <2>1. Passed(M, D) /\ D.next = M.next + 1 /\ D.tab = M.tab /\ Only(M, D, {"next"})
    BY <1>1, DrawnPassed, DrawnFacts
  <2> HIDE DEF D
  <2>2. ActiveKept(D)
    BY <1>1, <2>1 DEF ActiveKept, Only, ViewFields, Seen
  <2>3. at \in 1..2
    <3>1. Len(rest) = 0
      BY <1>5, EmptySeq
    <3>2. Len(l) = 1 /\ at \in 1..Len(l)
      BY <1>2, <1>3, <3>1
    <3> QED
      BY <3>2
  <2>4. <<M.next>> \in Lists /\ Len(<<M.next>>) = 1 /\ ToSet(<<M.next>>) = {M.next}
    BY DEF Lists, ToSet
  <2>5. \A q \in ToSet(<<M.next>>) : q < D.next
    BY <2>1, <2>4 DEF Plans
  <2>6. D.tab.active = p /\ 1 + 1 = 2
    BY <2>1
  <2>7. Passed(D, A)
    <3>1. Ready(D)
      BY <2>1 DEF Passed
    <3>2. at \in 1..(Len(<<M.next>>) + 1)
      BY <2>3, <2>4
    <3> QED
      BY <2>2, <2>4, <2>5, <2>6, <3>1, <3>2, DroppingPassed
  <2> HIDE DEF A
  <2> QED
    BY <1>1, <2>1, <2>7, HandledBoth
<1>6. ASSUME rest # <<>>
      PROVE  Passed(M, B)
  <2>1. rest \in Lists
    BY <1>3, <1>6 DEF Lists
  <2>2. at \in 1..(Len(rest) + 1)
    BY <1>2, <1>3
  <2>3. \A q \in ToSet(rest) : q < M.next
    BY <1>1, <1>3
  <2> QED
    BY <1>1, <2>1, <2>2, <2>3, DroppingPassed
<1> HIDE DEF A, B
<1>7. ASSUME NEW V, Passed(M, V)
      PROVE  Passed(M, Dropped(V, p))
  <2>1. Passed(V, Dropped(V, p))
    BY <1>1, <1>7, DroppedPassed DEF Passed
  <2> QED
    BY <1>1, <1>7, <2>1, HandledBoth
<1> QED
  BY <1>4, <1>5, <1>6, <1>7 DEF W, at

LEMMA DeleteHandled ==
    ASSUME NEW S, Fit(S), S.next \in Plans
    PROVE  Handled(S, DeletePlan(S, S.tab.active))
<1> DEFINE p == S.tab.active
           M == Sync(S)
           W == WithoutPlan(M, p, PositionOf(M.tab.list, p))
           T == OpenActive(W)
<1>1. Handled(S, M) /\ M.next = S.next /\ Synced(S, M)
  BY SyncHandled, SyncFit
<1>2. /\ ~Contains(M.tab.list, p) => DeletePlan(S, p) = M
      /\ Contains(M.tab.list, p) /\ p = M.tab.active => DeletePlan(S, p) = T
  BY DEF DeletePlan, Deleting
<1> HIDE DEF M
<1>3. Fit(M) /\ M.tab.list \in Seq(Plans)
  BY <1>1, FitViews, ListBelow DEF Handled
<1>4. CASE ~Contains(M.tab.list, p)
  BY <1>1, <1>2, <1>4
<1>5. CASE Contains(M.tab.list, p)
  <2>1. p = M.tab.active
    BY <1>1, <1>3, <1>5, ContainsInSet, SyncedActive
  <2>2. Passed(M, W)
    BY <1>1, <1>3, <2>1, WithoutPassed
  <2> HIDE DEF W
  <2>3. Handled(W, T)
    BY <2>2, OpenActiveFit DEF Handled, Kept, Passed
  <2> HIDE DEF T
  <2>5. Passed(S, W)
    BY <1>1, <2>2, HandledBoth, HandledPasses, FitViews
  <2> QED
    BY <1>2, <1>5, <2>1, <2>3, <2>5, HandledBoth, FitViews
<1> QED
  BY <1>4, <1>5


-----------------------------------------------------------------------------
(* Activating a data set.                                                   *)

(* What a step does to the storage of all data sets, as the other tabs and  *)
(* the properties see it.                                                   *)
Migrated(S, T, k) ==
    \E s \in Sources, p \in Plans :
        /\ p \in Listed(T.index[s])
        /\ T.docs[s][p] = S.legacy[k] \/ PlanKey(s, p) \in Seen(T)
Safe(S, T) ==
    /\ S.next <= T.next
    /\ \A s \in Sources, p \in Plans :
          S.docs[s][p] = Corrupt /\ T.docs[s][p].kind = "plan" => PlanKey(s, p) \in Seen(T)
    /\ \A s \in Sources : S.index[s] = Corrupt /\ Readable(T.index[s]) => IndexKey(s) \in Seen(T)
    /\ \A s \in Sources, p \in Plans :
          T.docs[s][p] = Corrupt =>
             \/ S.next <= p
             \/ /\ S.docs[s][p] = Corrupt
                /\ PlanKey(s, p) \in Seen(S) => PlanKey(s, p) \in Seen(T)
    /\ \A s \in Sources :
          T.index[s] = Corrupt => /\ S.index[s] = Corrupt
                                  /\ IndexKey(s) \in Seen(S) => IndexKey(s) \in Seen(T)
    /\ \A k \in Sources \cup {NoSource} :
          T.legacy[k] # S.legacy[k] => (k \in Uploads /\ T.index[k] = Absent) \/ Migrated(S, T, k)

LEMMA CorruptKinds ==
    Corrupt.kind # "plan" /\ ~Readable(Corrupt) /\ ~Readable(Absent) /\ Absent # Corrupt
    /\ Absent.kind # "plan" /\ Listed(Absent) = {} /\ Listed(Corrupt) = {}
BY DEF Corrupt, Absent, Readable, Listed

LEMMA HandledSafe ==
    ASSUME NEW S, NEW T, Handled(S, T)
    PROVE  Safe(S, T)
BY CorruptKinds DEF Handled, Within, Confined, Safe

(* The storage with the plans of other uploads removed.                     *)
Cleared(S, P, removed) ==
    /\ P \in Views /\ P.next = S.next /\ P.me = S.me /\ P.refuses = S.refuses /\ P.tab = S.tab
    /\ \A s \in Sources :
          /\ P.index[s] = IF s \in removed THEN Absent ELSE S.index[s]
          /\ \A p \in Plans : P.docs[s][p] = IF s \in removed THEN Absent ELSE S.docs[s][p]
    /\ \A k \in Sources \cup {NoSource} :
          P.legacy[k] = IF k \in removed THEN Absent ELSE S.legacy[k]
    /\ \A s \in Sources \ removed, p \in 0..MaxPlans : <<s, p>> \in Seen(S) => <<s, p>> \in Seen(P)
    /\ removed \subseteq Uploads

LEMMA RemovedCleared ==
    ASSUME NEW S \in Views, NEW keep
    PROVE  Cleared(S, RemoveCustomPlans(S, keep), Replaced(keep))
<1> DEFINE P == RemoveCustomPlans(S, keep)
<1>1. /\ P \in Views
      /\ Only(S, P, {"index", "docs", "legacy", "copies", "writer", "deleted", "gone"})
      /\ \A s \in Sources :
            /\ P.index[s] = IF s \in Replaced(keep) THEN Absent ELSE S.index[s]
            /\ \A p \in Plans : P.docs[s][p] = IF s \in Replaced(keep) THEN Absent ELSE S.docs[s][p]
      /\ \A s \in Sources \cup {NoSource} :
            P.legacy[s] = IF s \in Replaced(keep) THEN Absent ELSE S.legacy[s]
      /\ P.copies = {k \in S.copies : k[1] \notin Replaced(keep)}
  BY RemoveFacts
<1> HIDE DEF P
<1>2. /\ P.next = S.next /\ P.me = S.me /\ P.refuses = S.refuses /\ P.tab = S.tab
      /\ P.uncopied = S.uncopied
  BY <1>1 DEF Only, ViewFields
<1>3. ASSUME NEW s \in Sources \ Replaced(keep), NEW p \in 0..MaxPlans, <<s, p>> \in Seen(S)
      PROVE  <<s, p>> \in Seen(P)
  BY <1>1, <1>2, <1>3 DEF Seen
<1> QED
  BY <1>1, <1>2, <1>3 DEF Cleared, P, Replaced

LEMMA PreparedCleared ==
    ASSUME NEW S \in Views, NEW s \in Sources
    PROVE  \E removed : s \notin removed /\ Cleared(S, Prepare(S, s), removed)
<1>1. CASE s \in Uploads
  <2>1. Cleared(S, Prepare(S, s), Replaced(s))
    BY <1>1, RemovedCleared DEF Prepare
  <2>2. s \notin Replaced(s)
    BY DEF Replaced
  <2> QED
    BY <2>1, <2>2
<1>2. CASE s \notin Uploads
  <2>1. Cleared(S, Prepare(S, s), {})
    BY <1>2 DEF Prepare, Cleared
  <2> QED
    BY <2>1
<1> QED
  BY <1>1, <1>2

LEMMA ClearedFit ==
    ASSUME NEW S, Stocked(S), NEW P, NEW removed, Cleared(S, P, removed)
    PROVE  Stocked(P) /\ (Fit(S) => Fit(P))
<1>1. S \in Views /\ P \in Views /\ OwnDocs(S) /\ Drew(S)
  BY DEF Stocked, Cleared
<1>2. /\ \A s \in Sources : P.index[s] = Absent \/ (P.index[s] = S.index[s] /\ s \notin removed)
      /\ \A s \in Sources, p \in Plans :
            P.docs[s][p] = Absent \/ (P.docs[s][p] = S.docs[s][p] /\ s \notin removed)
      /\ P.next = S.next /\ P.tab = S.tab
  BY DEF Cleared
<1>3. OwnDocs(P) /\ Drew(P)
  BY <1>1, <1>2, CorruptKinds DEF OwnDocs, Drew
<1>4. ASSUME Fit(S)
      PROVE  Fit(P)
  <2>1. Ready(S) /\ OnScreen(S) /\ ActiveKept(S) /\ S.tab.source \in Sources /\ S.tab.active \in Plans
    BY <1>4, FitViews, OpenType DEF Opens
  <2>2. \A s \in Sources \ removed : IndexKey(s) \in Seen(S) => IndexKey(s) \in Seen(P)
    BY PlanStoreAssumption DEF Cleared, IndexKey
  <2>3. \A s \in Sources \ removed, p \in Plans : PlanKey(s, p) \in Seen(S) => PlanKey(s, p) \in Seen(P)
    BY DEF Cleared, PlanKey, Plans
  <2>4. Ready(P)
    BY <1>1, <1>2, <1>3, <2>1, <2>2, CorruptKinds DEF Ready, Stocked, Opens
  <2>5. ActiveKept(P) /\ OnScreen(P)
    BY <1>2, <2>1, <2>3, CorruptKinds DEF ActiveKept, OnScreen
  <2> QED
    BY <2>4, <2>5 DEF Fit
<1> QED
  BY <1>1, <1>3, <1>4 DEF Stocked

LEMMA ClearedSafe ==
    ASSUME NEW S, Stocked(S), NEW P, NEW removed, Cleared(S, P, removed),
           NEW T \in Views, NEW s \in Sources, s \notin removed, Confined(s, P, T),
           \A k \in Sources \cup {NoSource} : T.legacy[k] # P.legacy[k] => Migrated(P, T, k)
    PROVE  Safe(S, T)
<1>1. S \in Views /\ P \in Views /\ P.next = S.next /\ removed \subseteq Uploads
  BY DEF Stocked, Cleared
<1>2. /\ \A r \in Sources : IF r \in removed THEN P.index[r] = Absent ELSE P.index[r] = S.index[r]
      /\ \A r \in Sources, p \in Plans :
            IF r \in removed THEN P.docs[r][p] = Absent ELSE P.docs[r][p] = S.docs[r][p]
      /\ \A k \in Sources \cup {NoSource} :
            IF k \in removed THEN P.legacy[k] = Absent ELSE P.legacy[k] = S.legacy[k]
  BY DEF Cleared
<1>3. \A r \in Sources \ removed : IndexKey(r) \in Seen(S) => IndexKey(r) \in Seen(T)
  BY PlanStoreAssumption DEF Cleared, IndexKey, Confined
<1>4. \A r \in Sources \ removed, p \in Plans : PlanKey(r, p) \in Seen(S) => PlanKey(r, p) \in Seen(T)
  BY DEF Cleared, PlanKey, Plans, Confined
<1>5. \A r \in removed : r \in Sources /\ r # s /\ T.index[r] = Absent /\ T.docs[r] = P.docs[r]
  BY <1>1, <1>2 DEF Confined, Sources
<1>6. S.next <= T.next
  BY <1>1 DEF Confined
<1>7. ASSUME NEW r \in Sources, NEW p \in Plans, S.docs[r][p] = Corrupt, T.docs[r][p].kind = "plan"
      PROVE  PlanKey(r, p) \in Seen(T)
  <2>1. r \notin removed
    BY <1>2, <1>5, <1>7, CorruptKinds
  <2>2. P.docs[r][p] = Corrupt
    BY <1>2, <1>7, <2>1
  <2> QED
    BY <1>7, <2>2, CorruptKinds DEF Confined
<1>8. ASSUME NEW r \in Sources, S.index[r] = Corrupt, Readable(T.index[r])
      PROVE  IndexKey(r) \in Seen(T)
  <2>1. r \notin removed
    BY <1>5, <1>8, CorruptKinds
  <2>2. P.index[r] = Corrupt
    BY <1>2, <1>8, <2>1
  <2> QED
    BY <1>8, <2>2, CorruptKinds DEF Confined
<1>9. ASSUME NEW r \in Sources, NEW p \in Plans, T.docs[r][p] = Corrupt, ~(S.next <= p)
      PROVE  S.docs[r][p] = Corrupt /\ (PlanKey(r, p) \in Seen(S) => PlanKey(r, p) \in Seen(T))
  <2>1. P.docs[r][p] = Corrupt
    BY <1>1, <1>9 DEF Confined
  <2>2. r \notin removed
    BY <1>2, <2>1, CorruptKinds
  <2> QED
    BY <1>2, <1>4, <2>1, <2>2
<1>10. ASSUME NEW r \in Sources, T.index[r] = Corrupt
       PROVE  S.index[r] = Corrupt /\ (IndexKey(r) \in Seen(S) => IndexKey(r) \in Seen(T))
  <2>1. P.index[r] = Corrupt
    BY <1>10 DEF Confined
  <2>2. r \notin removed
    BY <1>2, <2>1, CorruptKinds
  <2> QED
    BY <1>2, <1>3, <2>1, <2>2
<1>11. ASSUME NEW k \in Sources \cup {NoSource}, T.legacy[k] # S.legacy[k]
       PROVE  (k \in Uploads /\ T.index[k] = Absent) \/ Migrated(S, T, k)
  <2>1. CASE k \in removed
    BY <1>1, <1>5, <2>1
  <2>2. CASE k \notin removed
    <3>1. P.legacy[k] = S.legacy[k]
      BY <1>2, <2>2
    <3>2. Migrated(P, T, k)
      BY <1>11, <3>1
    <3> QED
      BY <3>1, <3>2 DEF Migrated
  <2> QED
    BY <2>1, <2>2
<1> QED
  BY <1>6, <1>7, <1>8, <1>9, <1>10, <1>11 DEF Safe


(* The list found for a data set holds plans drawn, and its first active    *)
(* plan.                                                                    *)
LEMMA StoredListType ==
    ASSUME NEW S, Stocked(S), NEW s \in Sources
    PROVE  /\ StoredList(S, s) \in Seq(Plans)
           /\ \A p \in ToSet(StoredList(S, s)) : p < S.next
           /\ StoredList(S, s) # <<>> => FirstActive(S, s) \in ToSet(StoredList(S, s))
<1> DEFINE list == StoredList(S, s)
           raw == S.index[s]
<1>1. raw \in Indexes /\ Drew(S)
  BY DEF Stocked, Views
<1>2. CASE Readable(raw)
  <2>1. list = raw.plans /\ FirstActive(S, s) = raw.active
    BY <1>2 DEF StoredList, FirstActive
  <2> QED
    BY <1>1, <1>2, <2>1, IndexKinds, ListedPlans DEF Drew
<1>3. CASE raw = Corrupt
  <2>1. list = RecoverIndex(S, s)
    BY <1>3, CorruptKinds DEF StoredList
  <2>2. list # <<>> => FirstActive(S, s) = Head(list)
    BY <1>3, CorruptKinds DEF FirstActive
  <2> HIDE DEF list
  <2>3. list \in Seq(Plans) /\ ToSet(list) = {p \in Plans : S.docs[s][p] # Absent}
    BY <2>1, RecoverType
  <2>4. \A p \in ToSet(list) : p < S.next
    BY <1>1, <2>3 DEF Drew
  <2>5. list # <<>> => Head(list) \in ToSet(list)
    BY <2>3, ListedPlans DEF Lists
  <2> QED
    BY <2>2, <2>3, <2>4, <2>5 DEF list
<1>4. CASE raw = Absent
  <2>1. list = <<>>
    BY <1>4, CorruptKinds DEF StoredList
  <2> QED
    BY <2>1 DEF ToSet
<1> QED
  BY <1>1, <1>2, <1>3, <1>4, IndexKinds

LEMMA ReadStocked ==
    ASSUME NEW S, Stocked(S), NEW s \in Sources
    PROVE  LET R == ReadIndex(S, s)
           IN  /\ Stocked(R) /\ Confined(s, S, R)
               /\ R.docs = S.docs /\ R.legacy = S.legacy /\ R.next = S.next /\ R.tab = S.tab
               /\ R.refuses = S.refuses
               /\ R.index[s] = Corrupt => IndexKey(s) \in Seen(R)
<1> DEFINE R == ReadIndex(S, s)
<1>0. S \in Views /\ OwnDocs(S) /\ Drew(S) /\ S.next \in Nat
  BY DEF Stocked, Views
<1>1. /\ R \in Views /\ Only(S, R, {"index", "copies", "uncopied"})
      /\ R.index = S.index \/ (S.index[s] = Corrupt /\ R.index = [S.index EXCEPT ![s] = Absent])
      /\ S.copies \subseteq R.copies /\ S.uncopied \subseteq R.uncopied
      /\ S.index[s] = Corrupt => IndexKey(s) \in R.copies \cup R.uncopied
  BY <1>0, ReadFacts
<1> HIDE DEF R
<1>2. /\ R.docs = S.docs /\ R.legacy = S.legacy /\ R.next = S.next /\ R.tab = S.tab
      /\ R.me = S.me /\ R.refuses = S.refuses
  BY <1>1 DEF Only, ViewFields
<1>3. Seen(S) \subseteq Seen(R) /\ (S.index[s] = Corrupt => IndexKey(s) \in Seen(R))
  BY <1>1 DEF Seen
<1>4. \A r \in Sources :
        \/ R.index[r] = S.index[r]
        \/ (r = s /\ S.index[s] = Corrupt /\ R.index[r] = Absent)
  BY <1>0, <1>1 DEF Views
<1>5. Stocked(R)
  <2>1. OwnDocs(R)
    BY <1>0, <1>2 DEF OwnDocs
  <2>2. Drew(R)
    BY <1>0, <1>2, <1>4, CorruptKinds DEF Drew
  <2> QED
    BY <1>1, <2>1, <2>2 DEF Stocked
<1>6. Confined(s, S, R)
  BY <1>0, <1>2, <1>3, <1>4, CorruptKinds DEF Confined
<1>7. R.index[s] = Corrupt => IndexKey(s) \in Seen(R)
  BY <1>3, <1>4, CorruptKinds
<1> QED
  BY <1>2, <1>5, <1>6, <1>7 DEF R

LEMMA DrawnStocked ==
    ASSUME NEW S, Stocked(S), NEW s
    PROVE  LET D == Drawn(S)
           IN  /\ Stocked(D) /\ Confined(s, S, D) /\ D.next = S.next + 1
               /\ Only(S, D, {"next"})
<1> DEFINE T == Drawn(S)
<1>0. S \in Views /\ S.next \in Nat /\ OwnDocs(S) /\ Drew(S)
  BY DEF Stocked, Views
<1>1. T \in Views /\ Only(S, T, {"next"}) /\ T.next = S.next + 1
  BY <1>0, DrawnFacts
<1> HIDE DEF T
<1>2. /\ T.index = S.index /\ T.docs = S.docs /\ T.me = S.me /\ T.copies = S.copies
      /\ T.uncopied = S.uncopied
  BY <1>1 DEF Only, ViewFields
<1>3. \A p \in Plans : p < S.next => p < T.next
  BY <1>0, <1>1 DEF Plans
<1>4. \A r \in Sources : Listed(S.index[r]) \subseteq Plans
  BY <1>0, IndexKinds, ListedPlans DEF Views
<1>5. Stocked(T)
  BY <1>0, <1>1, <1>2, <1>3, <1>4 DEF Stocked, OwnDocs, Drew
<1>6. Confined(s, S, T)
  BY <1>0, <1>1, <1>2 DEF Confined, Seen
<1> QED
  BY <1>1, <1>5, <1>6 DEF T

(* A new plan, with what an old version stored, is in storage, and listed   *)
(* there or not.                                                            *)
Adopts(S, T, s, raw, list) ==
    /\ T.docs = [S.docs EXCEPT ![s][S.next] = raw]
    /\ T.index = S.index \/ T.index = [S.index EXCEPT ![s] = Index(Append(list, S.next), S.next)]

LEMMA AdoptStocked ==
    ASSUME NEW S, Stocked(S), NEW s \in Sources, S.next \in Plans,
           S.index[s] = Corrupt => IndexKey(s) \in Seen(S),
           NEW list \in Seq(Plans), \A p \in ToSet(list) : p < S.next, NEW raw \in OldValues,
           NEW T \in Views, Only(S, T, {"next", "docs", "index", "legacy", "tab"}),
           T.next = S.next + 1, Adopts(S, T, s, raw, list)
    PROVE  Stocked(T) /\ Confined(s, S, T)
<1> DEFINE f == S.next
           l == Append(list, f)
<1>0. S \in Views /\ OwnDocs(S) /\ Drew(S) /\ f \in Nat /\ f < T.next /\ f <= T.next /\ f <= f
  BY DEF Stocked, Views
<1>1. l \in Lists /\ ToSet(l) = ToSet(list) \cup {f}
  BY AppendType
<1>2. /\ Listed(Index(l, f)) = ToSet(l) /\ Readable(Index(l, f))
      /\ Index(l, f).plans = l /\ Index(l, f).active = f /\ Index(l, f) # Corrupt
  BY DEF Index, Listed, Readable, Corrupt
<1>3. T.copies = S.copies /\ T.uncopied = S.uncopied /\ T.me = S.me
  BY DEF Only, ViewFields
<1>4. \A p \in Plans : p < f => p < T.next
  BY <1>0 DEF Plans
<1>5. \A p \in ToSet(l) : p < T.next
  BY <1>0, <1>1, <1>4, ElementOfSeq, ListedPlans
<1> HIDE DEF l, f
<1>6. /\ \A r \in Sources, p \in Plans :
            T.docs[r][p] = S.docs[r][p] \/ (r = s /\ p = f /\ T.docs[r][p] = raw)
      /\ \A r \in Sources \ {s} : T.docs[r] = S.docs[r]
  BY <1>0 DEF Adopts, Views, f
<1>7. \A r \in Sources : T.index[r] = S.index[r] \/ (r = s /\ T.index[r] = Index(l, f))
  BY <1>0 DEF Adopts, Views, f, l
<1>8. \A r \in Sources : Listed(S.index[r]) \subseteq Plans
  BY <1>0, IndexKinds, ListedPlans DEF Views
<1>9. S.docs[s][f] = Absent
  <2>1. ~(f < f) /\ f \in Plans
    BY DEF Plans, f
  <2> QED
    BY <1>0, <2>1 DEF Drew, f
<1>10. OwnDocs(T)
  <2>1. raw.kind = "plan" => raw.plan = 0
    BY CorruptKinds DEF OldValues, OldContent, Content
  <2> QED
    BY <1>0, <1>6, <2>1 DEF OwnDocs
<1>11. Drew(T)
  <2>1. \A r \in Sources, p \in Plans : T.docs[r][p] # Absent => p < T.next
    BY <1>0, <1>4, <1>6 DEF Drew, f
  <2>2. \A r \in Sources : \A p \in Listed(T.index[r]) : p < T.next
    BY <1>0, <1>2, <1>4, <1>5, <1>7, <1>8 DEF Drew, f
  <2>3. \A r \in Sources : Readable(T.index[r]) => T.index[r].active \in ToSet(T.index[r].plans)
    BY <1>0, <1>1, <1>2, <1>7 DEF Drew
  <2> QED
    BY <2>1, <2>2, <2>3 DEF Drew
<1>12. Confined(s, S, T)
  <2>1. Seen(T) = Seen(S)
    BY <1>3 DEF Seen
  <2>2. \A r \in Sources : S.index[r] = Corrupt /\ T.index[r] # Corrupt => IndexKey(r) \in Seen(T)
    BY <1>7, <2>1
  <2>3. \A r \in Sources, p \in Plans :
          S.docs[r][p] = Corrupt /\ T.docs[r][p] # Corrupt => PlanKey(r, p) \in Seen(T)
    BY <1>6, <1>9, CorruptKinds
  <2>4. \A r \in Sources : T.index[r] = Corrupt => S.index[r] = Corrupt
    BY <1>2, <1>7
  <2>5. \A r \in Sources, p \in Plans : T.docs[r][p] = Corrupt => S.docs[r][p] = Corrupt \/ S.next <= p
    BY <1>0, <1>6 DEF f
  <2>6. \A r \in Sources \ {s} : T.index[r] = S.index[r]
    BY <1>7
  <2> QED
    BY <1>0, <1>3, <1>6, <2>1, <2>2, <2>3, <2>4, <2>5, <2>6 DEF Confined, f
<1> QED
  BY <1>10, <1>11, <1>12 DEF Stocked

LEMMA MarkReady ==
    ASSUME NEW S, Ready(S)
    PROVE  LET T == MarkUnwritten(S)
           IN  /\ Ready(T) /\ Within(S, T) /\ Only(S, T, {"tab", "unlisted"})
               /\ OnlyTab(S.tab, T.tab, {"pending", "unwritten"}) /\ Unwritten(S, T, S.tab.list)
<1> DEFINE T == MarkUnwritten(S)
<1>0. S \in Views /\ S.tab.source \in Sources
  BY DEF Ready, Stocked, Opens
<1>1. /\ T \in Views /\ Only(S, T, {"tab", "unlisted"})
      /\ OnlyTab(S.tab, T.tab, {"pending", "unwritten"}) /\ Unwritten(S, T, S.tab.list)
  BY <1>0, MarkFacts
<1> HIDE DEF T
<1>2. /\ T.index = S.index /\ T.docs = S.docs /\ T.next = S.next /\ T.me = S.me
      /\ T.copies = S.copies /\ T.uncopied = S.uncopied
      /\ T.tab.source = S.tab.source /\ T.tab.list = S.tab.list /\ T.tab.active = S.tab.active
  BY <1>1 DEF Only, ViewFields, OnlyTab, TabFields
<1>3. Ready(T)
  BY <1>1, <1>2 DEF Ready, Stocked, OwnDocs, Drew, Opens, Seen
<1>4. Within(S, S) /\ Within(S, T)
  BY <1>0, <1>2, WithinItself DEF Within, Confined, Seen
<1> QED
  BY <1>1, <1>3, <1>4 DEF T

LEMMA PersistReady ==
    ASSUME NEW S, Ready(S)
    PROVE  LET T == PersistIndex(S, S.tab.active)
           IN  /\ Ready(T) /\ Within(S, T) /\ Only(S, T, {"index", "tab", "unlisted"})
               /\ OnlyTab(S.tab, T.tab, {"pending", "synced", "unwritten"})
               /\ Written(S, T, S.tab.list, S.tab.active) \/ Unwritten(S, T, S.tab.list)
               /\ ~S.tab.removed /\ "index" \notin S.refuses => Written(S, T, S.tab.list, S.tab.active)
<1> DEFINE A == [S EXCEPT !.tab.list = S.tab.list, !.tab.active = S.tab.active]
           T == PersistIndex(S, S.tab.active)
<1>0. S \in Views /\ S.tab \in TabViews /\ S.tab.source \in Sources
  BY TabType DEF Ready, Stocked, Opens
<1>1. A = S
  <2>1. [S.tab EXCEPT !.list = S.tab.list, !.active = S.tab.active] = S.tab
    BY <1>0 DEF TabViews
  <2>2. [S EXCEPT !.tab = S.tab] = S
    BY <1>0 DEF Views
  <2> QED
    BY <2>1, <2>2
<1>2. S.tab.list \in Lists /\ S.tab.active \in ToSet(S.tab.list) /\ S.tab.active \in Plans
  BY ListBelow
<1>3. CommitIndex(S, S.tab.list, S.tab.active, TRUE) = PersistIndex(A, S.tab.active)
  BY DEF CommitIndex
<1>4. Ready(T) /\ Within(S, T)
  <2>1. CommitIndex(S, S.tab.list, S.tab.active, TRUE) = T
    BY <1>1, <1>3
  <2>2. TRUE \in BOOLEAN /\ \A p \in ToSet(S.tab.list) : p < S.next
    BY DEF Ready
  <2> HIDE DEF T
  <2> QED
    BY <1>2, <2>1, <2>2, CommitReady
<1>5. /\ Only(S, T, {"index", "tab", "unlisted"})
      /\ OnlyTab(S.tab, T.tab, {"pending", "synced", "unwritten"})
      /\ Written(S, T, S.tab.list, S.tab.active) \/ Unwritten(S, T, S.tab.list)
      /\ ~S.tab.removed /\ "index" \notin S.refuses => Written(S, T, S.tab.list, S.tab.active)
  BY <1>0, <1>2, PersistFacts
<1> QED
  BY <1>4, <1>5


LEMMA NewTabType ==
    ASSUME NEW status \in Statuses
    PROVE  /\ NewTab(status) \in TabViews /\ NewTab(status).source = NoSource
           /\ NewTab(status).status = status /\ NewTab(status).list = <<>>
           /\ NewTab(status).pending = {} /\ NewTab(status).synced = Absent
           /\ ~NewTab(status).removed
BY DEF NewTab, TabViews, Contents, Indexes

(* The tab as activateDataSet sets it up, the screen still the old one.     *)
TabOn(S, s, list, active) ==
    [NewTab(S.tab.status) EXCEPT !.source = s, !.list = list, !.active = active, !.shown = S.tab.shown]

LEMMA TabOnFacts ==
    ASSUME NEW S \in Views, NEW s \in Sources, NEW list \in Seq(Plans), NEW active \in Plans
    PROVE  LET u == TabOn(S, s, list, active)
           IN  /\ u \in TabViews /\ u.source = s /\ u.list = list /\ u.active = active
               /\ u.pending = {} /\ u.synced = Absent /\ ~u.removed
               /\ u.status = S.tab.status
<1> DEFINE n == NewTab(S.tab.status)
<1>1. S.tab.status \in Statuses /\ S.tab.shown \in Contents
  BY DEF Views, TabViews
<1>2. /\ n \in TabViews /\ n.status = S.tab.status /\ n.pending = {} /\ n.synced = Absent
      /\ ~n.removed
  BY <1>1, NewTabType
<1> HIDE DEF n
<1>3. TabOn(S, s, list, active)
        = [n EXCEPT !.source = s, !.list = list, !.active = active, !.shown = S.tab.shown]
  BY DEF TabOn, n
<1> QED
  BY <1>1, <1>2, <1>3 DEF TabViews

LEMMA EnteredReady ==
    ASSUME NEW S \in Views, NEW N, Stocked(N), NEW s \in Sources,
           NEW list \in Lists, \A p \in ToSet(list) : p < N.next, NEW active \in ToSet(list),
           N.index[s] = Corrupt => IndexKey(s) \in Seen(N)
    PROVE  LET A == [N EXCEPT !.tab = TabOn(S, s, list, active)]
           IN  /\ Ready(A) /\ Confined(s, N, A) /\ Only(N, A, {"tab"})
               /\ A.tab = TabOn(S, s, list, active)
<1> DEFINE u == TabOn(S, s, list, active)
           A == [N EXCEPT !.tab = u]
<1>0. N \in Views /\ OwnDocs(N) /\ Drew(N) /\ N.next \in Nat
  BY DEF Stocked, Views
<1>1. list \in Seq(Plans) /\ active \in Plans
  BY ListedPlans
<1> HIDE DEF A
<1>2. u \in TabViews /\ u.source = s /\ u.list = list /\ u.active = active
  BY <1>1, TabOnFacts
<1> HIDE DEF u
<1>3. A \in Views /\ Only(N, A, {"tab"}) /\ A.tab = u
  BY <1>0, <1>2 DEF A, Views, Only, ViewFields
<1>4. /\ A.index = N.index /\ A.docs = N.docs /\ A.next = N.next /\ A.me = N.me
      /\ A.copies = N.copies /\ A.uncopied = N.uncopied
  BY <1>3 DEF Only, ViewFields
<1>5. Ready(A)
  BY <1>0, <1>2, <1>3, <1>4 DEF Ready, Stocked, OwnDocs, Drew, Opens, Seen
<1>6. Confined(s, N, A)
  BY <1>0, <1>4 DEF Confined, Seen
<1> QED
  BY <1>3, <1>5, <1>6 DEF A, u

(* Opening the active plan of a list that is the stored one keeps its key.  *)
LEMMA OpenedSettled ==
    ASSUME NEW S, Ready(S), S.tab.pending = {}, S.tab.synced = S.index[S.tab.source]
    PROVE  LET T == OpenActive(S)
               d == S.docs[S.tab.source][S.tab.active]
           IN  /\ T.tab.pending = {} /\ T.tab.synced = T.index[S.tab.source]
               /\ T.tab.active = S.tab.active
               /\ d.kind = "plan" => T.docs[S.tab.source][S.tab.active] = d
               /\ d = Corrupt => PlanKey(S.tab.source, S.tab.active) \in Seen(T)
<1> DEFINE d == ActiveDoc(S)
           O == Opened(S, d)
           Y == Sync(O)
           T == OpenActive(S)
           s == S.tab.source
           p == S.tab.active
<1>0. S \in Views /\ s \in Sources /\ p \in Plans /\ OwnDocs(S)
  BY OpenType DEF Ready, Stocked, Opens
<1>1. d \in Contents /\ d = S.docs[s][p]
  BY <1>0 DEF ActiveDoc, Views
<1> HIDE DEF d
<1>2. /\ Fit(O) /\ Only(S, O, {"docs", "copies", "uncopied", "tab"})
      /\ OnlyTab(S.tab, O.tab, {"shown"})
      /\ O.tab.shown = IF d.kind = "plan" THEN d ELSE Blank(p)
      /\ d = Corrupt => PlanKey(s, p) \in Seen(O)
      /\ d # Corrupt => O.docs = S.docs
  <2>1. d.kind = "plan" => d.plan \in {p, 0}
    BY <1>0, <1>1 DEF OwnDocs
  <2> QED
    BY <1>1, <2>1, OpenedOther
<1>3. T = Save(O)
  BY DEF OpenActive, LoadActivePlan, d
<1> HIDE DEF O
<1>4. /\ O.tab.pending = {} /\ O.tab.synced = O.index[O.tab.source] /\ O.index = S.index
      /\ O.tab.source = s /\ O.tab.active = p
  BY <1>2 DEF Only, OnlyTab, ViewFields, TabFields
<1>5. Fit(Y) /\ Within(O, Y) /\ Synced(O, Y) /\ Y \in Views
  BY <1>2, SyncFit, FitViews
<1>6. Quiet(O, Y)
  BY <1>4, <1>5 DEF Synced, Merging
<1>7. /\ Y.tab.pending = {} /\ Y.tab.synced = S.index[s] /\ Y.index = S.index /\ Y.docs = O.docs
      /\ Y.tab.source = s /\ Y.tab.active = p /\ Y.tab.shown = O.tab.shown
  BY <1>4, <1>6 DEF Quiet, Only, OnlyTab, ViewFields, TabFields
<1>8. Save(O) = IF O.tab.status.kind = "loading" THEN O ELSE Stored(Y)
  BY <1>2, SaveFit
<1>9. Fit(T) /\ Within(O, T) /\ Kept(O, T)
  BY <1>2, <1>3, SaveFit
<1> HIDE DEF T, Y
<1>10. T = O \/ T = Stored(Y)
  BY <1>3, <1>8
<1>11. /\ T.tab.pending = {} /\ T.tab.synced = S.index[s] /\ T.index = S.index
       /\ T.tab.active = p
       /\ \/ T.docs = O.docs
          \/ T.docs = [O.docs EXCEPT ![s][p] = O.tab.shown]
  <2>1. CASE T = O
    BY <1>4, <2>1
  <2>2. CASE T = Stored(Y)
    <3>1. /\ Only(Y, T, {"docs", "writer"})
          /\ T.docs = Y.docs \/ T.docs = [Y.docs EXCEPT ![s][p] = Y.tab.shown]
      BY <1>0, <1>5, <1>7, <2>2, StoredFacts
    <3>2. T.tab = Y.tab /\ T.index = Y.index
      BY <3>1 DEF Only, ViewFields
    <3> QED
      BY <1>7, <3>1, <3>2
  <2> QED
    BY <1>10, <2>1, <2>2
<1>12. ASSUME d.kind = "plan"
       PROVE  T.docs[s][p] = d
  <2>1. O.docs = S.docs /\ O.tab.shown = d
    BY <1>2, <1>12, CorruptKinds
  <2> HIDE DEF s, p
  <2>2. S.docs[s][p] = d
    BY <1>1
  <2>3. [S.docs EXCEPT ![s][p] = d][s][p] = d
    BY <1>0 DEF Views
  <2> QED
    BY <1>11, <2>1, <2>2, <2>3
<1>13. d = Corrupt => PlanKey(s, p) \in Seen(T)
  BY <1>2, <1>9 DEF Within, Confined
<1> QED
  BY <1>1, <1>11, <1>12, <1>13 DEF T

(* What an activation makes of an old version's plan.                       *)
Migrates(P, T, s) ==
    \/ T.legacy = P.legacy
    \/ \E k \in Sources \cup {NoSource} :
         /\ T.legacy = [P.legacy EXCEPT ![k] = Absent]
         /\ T.tab.active \in Plans /\ T.tab.active \in Listed(T.index[s])
         /\ \/ T.docs[s][T.tab.active] = P.legacy[k]
            \/ PlanKey(s, T.tab.active) \in Seen(T)
         /\ T.tab.pending = {} /\ T.tab.synced = T.index[s]
Entered(P, T, s) ==
    Fit(T) /\ Confined(s, P, T) /\ T.tab.source = s /\ Migrates(P, T, s)

(* How it gets there: the list found, with a plan drawn for it or not, is   *)
(* written as the tab's, and the active plan shown.                         *)
Entering(P, T, s, status) ==
    LET R == ReadIndex(P, s)
        list == StoredList(P, s)
    IN  \E N, A \in Views, raw \in Contents :
          /\ Ready(A) /\ Only(N, A, {"tab"}) /\ A.tab.source = s /\ A.tab.status = status
          /\ A.tab.pending = {} /\ A.tab.synced = Absent /\ ~A.tab.removed
          /\ Only(R, N, {"next", "docs", "index", "legacy"})
          /\ \/ /\ A.tab.list = list
                /\ N.next = R.next /\ N.docs = R.docs /\ N.index = R.index
             \/ /\ A.tab.list = Append(list, R.next) /\ N.next = R.next + 1
                /\ (N.docs = R.docs /\ N.index = R.index) \/ Adopts(R, N, s, raw, list)
          /\ \/ T = OpenActive(PersistIndex(A, A.tab.active))
             \/ /\ T = LoadActivePlan(MarkUnwritten(A), raw)
                /\ Fit(Opened(MarkUnwritten(A), raw))
                /\ ActiveDoc(MarkUnwritten(A)).kind # "plan"

(* The end of an activation: the list is written, and its plan shown.       *)
LEMMA EnteredOpen ==
    ASSUME NEW P \in Views, NEW s, NEW A, Ready(A), A.tab.source = s, Confined(s, P, A)
    PROVE  LET I == PersistIndex(A, A.tab.active)
               T == OpenActive(I)
           IN  /\ Fit(T) /\ Confined(s, P, T) /\ T.tab.source = s /\ T.legacy = A.legacy
               /\ T.tab.status = A.tab.status
<1> DEFINE I == PersistIndex(A, A.tab.active)
           T == OpenActive(I)
<1>1. /\ Ready(I) /\ Within(A, I) /\ Only(A, I, {"index", "tab", "unlisted"})
      /\ OnlyTab(A.tab, I.tab, {"pending", "synced", "unwritten"})
  BY PersistReady
<1> HIDE DEF I
<1>2. Fit(T) /\ Within(I, T) /\ Kept(I, T)
  BY <1>1, OpenActiveFit
<1> HIDE DEF T
<1>3. A \in Views /\ I \in Views /\ T \in Views
  BY <1>1, <1>2, FitViews DEF Ready, Stocked
<1>4. I.tab.source = s /\ I.legacy = A.legacy /\ I.tab.status = A.tab.status
  BY <1>1 DEF Only, OnlyTab, ViewFields, TabFields
<1>5. Confined(s, A, I) /\ Confined(s, I, T) /\ T.tab.source = s
  BY <1>1, <1>2, <1>4 DEF Within
<1>6. Confined(s, P, T)
  <2>1. Confined(s, P, I)
    BY <1>3, <1>5, ConfinedBoth
  <2> QED
    BY <1>3, <1>5, <2>1, ConfinedBoth
<1> QED
  BY <1>2, <1>4, <1>5, <1>6 DEF Kept, T, I


LEMMA ActivateEntered ==
    ASSUME NEW S, Stocked(S), NEW s \in Sources, S.next \in Plans, S.tab.source # s
    PROVE  LET P == Prepare(S, s)
               T == Activate(S, s)
           IN  /\ Stocked(P) /\ Entered(P, T, s) /\ T.tab.status = S.tab.status
               /\ Entering(P, T, s, S.tab.status)
<1> DEFINE P == Prepare(S, s)
           list == StoredList(P, s)
           R == ReadIndex(P, s)
           key == LegacyKey(R, s, list)
           raw == R.legacy[key]
           f == R.next
           added == IF raw # Absent \/ list = <<>> THEN <<f>> ELSE <<>>
           active == IF added # <<>> THEN f ELSE FirstActive(P, s)
           N == IF raw # Absent THEN Migrate(R, s, list)
                ELSE IF added # <<>> THEN Drawn(R) ELSE R
           l == list \o added
           A == [N EXCEPT !.tab = TabOn(S, s, l, active)]
           failed == raw # Absent /\ {"plan", "index"} \cap S.refuses # {}
           I == PersistIndex(A, active)
           Mk == MarkUnwritten(A)
           T == Activate(S, s)
<1>1. S \in Views /\ P \in Views /\ Stocked(P) /\ P.next = S.next /\ P.refuses = S.refuses
  <2>1. S \in Views
    BY DEF Stocked
  <2>2. PICK removed : Cleared(S, P, removed)
    BY <2>1, PreparedCleared
  <2> HIDE DEF P
  <2>3. Stocked(P)
    BY <2>2, ClearedFit
  <2> QED
    BY <2>1, <2>2, <2>3 DEF Cleared
<1>2. T = IF failed THEN LoadActivePlan(Mk, raw) ELSE LoadActivePlan(I, ActiveDoc(I))
  BY DEF Activate, Fresh, TabOn
<1> HIDE DEF P, T
<1>3. /\ list \in Seq(Plans) /\ \A p \in ToSet(list) : p < P.next
      /\ list # <<>> => FirstActive(P, s) \in ToSet(list)
  BY <1>1, StoredListType
<1>4. /\ Stocked(R) /\ Confined(s, P, R) /\ R \in Views
      /\ R.docs = P.docs /\ R.legacy = P.legacy /\ R.next = P.next
      /\ R.refuses = P.refuses
      /\ R.index[s] = Corrupt => IndexKey(s) \in Seen(R)
  BY <1>1, ReadStocked DEF Stocked
<1> HIDE DEF list, R
<1>5. key \in Sources \cup {NoSource} /\ raw \in OldValues /\ raw \in Contents
  <2>1. key \in Sources \cup {NoSource}
    BY DEF LegacyKey
  <2> QED
    BY <1>4, <2>1, ContentTypes DEF Views
<1>6. f \in Plans /\ f \in Nat /\ f < f + 1
  BY <1>1, <1>4 DEF Plans
<1>7. /\ \A p \in ToSet(list) : p \in Plans /\ p < f /\ p < f + 1
      /\ R.docs[s][f] = Absent
  <2>1. ~(f < f)
    BY <1>6
  <2>2. R.docs[s][f] = Absent
    BY <1>4, <1>6, <2>1 DEF Stocked, Drew
  <2>3. \A p \in ToSet(list) : p \in Plans
    BY <1>3, ElementOfSeq DEF ToSet
  <2> QED
    BY <1>3, <1>4, <1>6, <2>2, <2>3 DEF Plans
<1> HIDE DEF key, raw, f
<1>8. /\ added = <<>> => l = list
      /\ added # <<>> => l = Append(list, f)
  BY <1>3, <1>6, ConcatEmptySeq, AppendIsConcat
<1>9. /\ Append(list, f) \in Lists /\ ToSet(Append(list, f)) = ToSet(list) \cup {f}
  BY <1>3, <1>6, AppendType
(* The list and its active plan, whatever the case. *)
<1>10. ASSUME NEW n \in Nat, added # <<>> => n = f + 1, added = <<>> => n = f
       PROVE  l \in Lists /\ active \in ToSet(l) /\ \A p \in ToSet(l) : p < n
  <2>1. CASE added # <<>>
    <3>1. l = Append(list, f) /\ active = f /\ n = f + 1
      BY <1>8, <1>10, <2>1
    <3> QED
      BY <1>6, <1>7, <1>9, <3>1
  <2>2. CASE added = <<>>
    <3>1. list # <<>>
      BY <2>2
    <3>2. l = list /\ active = FirstActive(P, s) /\ n = f
      BY <1>8, <1>10, <2>2
    <3>3. list \in Lists
      BY <1>3, <3>1 DEF Lists
    <3> HIDE DEF l, active, added
    <3> QED
      BY <1>3, <1>7, <3>1, <3>2, <3>3
  <2> QED
    BY <2>1, <2>2
<1>11. /\ added # <<>> <=> raw # Absent \/ list = <<>>
       /\ added # <<>> => active = f
  OBVIOUS
<1> DEFINE refused == {"plan", "index"} \cap R.refuses # {}
<1>12. ASSUME raw # Absent
       PROVE  /\ N \in Views /\ Only(R, N, {"next", "docs", "index", "legacy"}) /\ N.next = f + 1
              /\ \/ refused /\ N.docs = R.docs /\ N.index = R.index /\ N.legacy = R.legacy
                 \/ /\ ~refused
                    /\ N.docs = [R.docs EXCEPT ![s][f] = raw]
                    /\ N.index = [R.index EXCEPT ![s] = Index(Append(list, f), f)]
                    /\ N.legacy = [R.legacy EXCEPT ![key] = Absent]
  <2>1. N = Migrate(R, s, list)
    BY <1>12
  <2> HIDE DEF N
  <2> QED
    BY <1>3, <1>4, <1>6, <2>1, MigrateFacts DEF f, key, raw
<1> HIDE DEF N
<1>13. ASSUME raw # Absent, refused
       PROVE  Stocked(N) /\ Confined(s, R, N) /\ N.next = f + 1 /\ N.legacy = R.legacy /\ N.docs = R.docs
  <2>1. /\ N \in Views /\ Only(R, N, {"next", "docs", "index", "legacy"}) /\ N.next = f + 1
        /\ N.docs = R.docs /\ N.index = R.index /\ N.legacy = R.legacy
    BY <1>12, <1>13
  <2>2. N.copies = R.copies /\ N.uncopied = R.uncopied /\ N.me = R.me
    BY <2>1 DEF Only, ViewFields
  <2>3. Stocked(Drawn(R)) /\ Confined(s, R, Drawn(R)) /\ Drawn(R).next = f + 1 /\ Only(R, Drawn(R), {"next"})
    BY <1>4, DrawnStocked DEF f
  <2>4. /\ Drawn(R).docs = R.docs /\ Drawn(R).index = R.index /\ Drawn(R).copies = R.copies
        /\ Drawn(R).uncopied = R.uncopied /\ Drawn(R).me = R.me
    BY <2>3 DEF Only, ViewFields
  <2>5. Stocked(N)
    BY <2>1, <2>3, <2>4 DEF Stocked, OwnDocs, Drew
  <2>6. Confined(s, R, N)
    BY <2>1, <2>2, <2>3, <2>4 DEF Confined, Seen
  <2> QED
    BY <2>1, <2>5, <2>6
<1>14. ASSUME raw # Absent, ~refused
       PROVE  /\ Stocked(N) /\ Confined(s, R, N) /\ N.next = f + 1
              /\ N.legacy = [R.legacy EXCEPT ![key] = Absent] /\ N.docs[s][f] = raw
  <2>1. /\ N \in Views /\ Only(R, N, {"next", "docs", "index", "legacy"}) /\ N.next = f + 1
        /\ N.docs = [R.docs EXCEPT ![s][f] = raw]
        /\ N.index = [R.index EXCEPT ![s] = Index(Append(list, f), f)]
        /\ N.legacy = [R.legacy EXCEPT ![key] = Absent]
    BY <1>12, <1>14
  <2>2. Only(R, N, {"next", "docs", "index", "legacy", "tab"})
    BY <2>1 DEF Only
  <2>3. Adopts(R, N, s, raw, list)
    BY <2>1 DEF Adopts, f
  <2>4. Stocked(N) /\ Confined(s, R, N)
    BY <1>3, <1>4, <1>5, <1>6, <2>1, <2>2, <2>3, AdoptStocked DEF f
  <2>5. N.docs[s][f] = raw
    BY <1>4, <1>6, <2>1 DEF Views
  <2> QED
    BY <2>1, <2>4, <2>5
<1>15. ASSUME raw = Absent
       PROVE  /\ Stocked(N) /\ Confined(s, R, N) /\ N.legacy = R.legacy
              /\ added # <<>> => N.next = f + 1
              /\ added = <<>> => N.next = f
  <2>1. CASE added # <<>>
    <3>1. N = Drawn(R)
      BY <1>15, <2>1 DEF N
    <3>2. Stocked(N) /\ Confined(s, R, N) /\ N.next = f + 1 /\ Only(R, N, {"next"})
      BY <1>4, <3>1, DrawnStocked DEF f
    <3> QED
      BY <2>1, <3>2 DEF Only, ViewFields
  <2>2. CASE added = <<>>
    <3>1. N = R
      BY <1>15, <2>2 DEF N
    <3>2. Confined(s, R, R)
      BY <1>4 DEF Confined, Views
    <3> QED
      BY <1>4, <2>2, <3>1, <3>2 DEF f
  <2> QED
    BY <2>1, <2>2
<1>16. Stocked(N) /\ Confined(s, R, N)
  BY <1>13, <1>14, <1>15
<1>17. l \in Lists /\ active \in ToSet(l) /\ \A p \in ToSet(l) : p < N.next
  <2>1. N.next \in Nat
    BY <1>16 DEF Stocked, Views
  <2>2. /\ added # <<>> => N.next = f + 1
        /\ added = <<>> => N.next = f
    BY <1>11, <1>13, <1>14, <1>15
  <2> HIDE DEF l, added, active
  <2> QED
    BY <1>10, <2>1, <2>2
<1> HIDE DEF l, active
<1>18. N.index[s] = Corrupt => IndexKey(s) \in Seen(N)
  BY <1>4, <1>16 DEF Confined
<1>19. /\ Ready(A) /\ Confined(s, N, A) /\ Only(N, A, {"tab"})
       /\ A.tab = TabOn(S, s, l, active)
  BY <1>1, <1>16, <1>17, <1>18, EnteredReady
<1> HIDE DEF A
<1>20. /\ A.tab.source = s /\ A.tab.list = l /\ A.tab.active = active /\ ~A.tab.removed
       /\ A.tab.pending = {} /\ A.tab.synced = Absent
       /\ A.tab.status = S.tab.status /\ A.docs = N.docs /\ A.legacy = N.legacy /\ A.refuses = N.refuses
  <2>1. l \in Seq(Plans) /\ active \in Plans
    BY <1>17, ListedPlans
  <2> QED
    BY <1>1, <1>19, <2>1, TabOnFacts DEF Only, ViewFields
<1>21. A \in Views /\ Confined(s, P, A)
  <2>1. A \in Views /\ N \in Views
    BY <1>16, <1>19 DEF Ready, Stocked
  <2>2. Confined(s, P, N)
    BY <1>1, <1>4, <1>16, <2>1, ConfinedBoth
  <2> QED
    BY <1>1, <1>19, <2>1, <2>2, ConfinedBoth
<1>24. /\ Only(R, N, {"next", "docs", "index", "legacy"})
       /\ \/ l = list /\ N.next = f /\ N.docs = R.docs /\ N.index = R.index
          \/ /\ l = Append(list, f) /\ N.next = f + 1
             /\ (N.docs = R.docs /\ N.index = R.index) \/ Adopts(R, N, s, raw, list)
  <2>1. CASE raw # Absent
    <3>1. added # <<>>
      BY <1>11, <2>1
    <3> HIDE DEF added
    <3>2. l = Append(list, f)
      BY <1>8, <3>1
    <3>3. (N.docs = R.docs /\ N.index = R.index) \/ Adopts(R, N, s, raw, list)
      BY <1>12, <2>1 DEF Adopts, f
    <3> QED
      BY <1>12, <2>1, <3>2, <3>3
  <2>2. CASE raw = Absent
    <3>1. CASE added # <<>>
      <4>1. l = Append(list, f) /\ N = Drawn(R)
        BY <1>8, <2>2, <3>1 DEF N
      <4>2. Only(R, N, {"next"}) /\ N.next = f + 1
        BY <1>4, <4>1, DrawnFacts DEF f
      <4> QED
        BY <4>1, <4>2 DEF Only, ViewFields
    <3>2. CASE added = <<>>
      <4>1. l = list /\ N = R
        BY <1>8, <2>2, <3>2 DEF N
      <4> QED
        BY <4>1 DEF Only, f
    <3> QED
      BY <3>1, <3>2
  <2> QED
    BY <2>1, <2>2
<1>22. ASSUME raw # Absent, refused
       PROVE  Entered(P, T, s) /\ T.tab.status = S.tab.status /\ T = LoadActivePlan(Mk, raw)
              /\ Fit(Opened(Mk, raw)) /\ ActiveDoc(Mk).kind # "plan"
  <2> DEFINE O == Opened(Mk, raw)
  <2>1. T = Save(O) /\ T = LoadActivePlan(Mk, raw)
    BY <1>1, <1>2, <1>4, <1>22 DEF LoadActivePlan
  <2>2. /\ Ready(Mk) /\ Within(A, Mk) /\ Only(A, Mk, {"tab", "unlisted"})
        /\ OnlyTab(A.tab, Mk.tab, {"pending", "unwritten"})
    BY <1>19, MarkReady
  <2> HIDE DEF Mk, T
  <2>3. /\ Mk.docs = R.docs /\ Mk.legacy = P.legacy /\ Mk.tab.source = s /\ Mk.tab.active = f
        /\ Mk.tab.status = S.tab.status
    <3>1. /\ Mk.docs = A.docs /\ Mk.legacy = A.legacy /\ Mk.tab.source = A.tab.source
          /\ Mk.tab.active = A.tab.active /\ Mk.tab.status = A.tab.status
      BY <2>2 DEF Only, OnlyTab, ViewFields, TabFields
    <3>2. N.docs = R.docs /\ N.legacy = R.legacy /\ active = f
      BY <1>11, <1>13, <1>22
    <3> QED
      BY <1>4, <1>20, <3>1, <3>2
  <2>4. /\ Fit(O) /\ Within(Mk, O) /\ Only(Mk, O, {"docs", "copies", "uncopied", "tab"})
        /\ OnlyTab(Mk.tab, O.tab, {"shown"})
    <3>1. raw.kind = "plan" => raw.plan \in {Mk.tab.active, 0}
      BY <1>5, CorruptKinds DEF OldValues, OldContent, Content
    <3>2. Mk.docs[Mk.tab.source][Mk.tab.active] # Corrupt
      BY <1>7, <2>3, CorruptKinds
    <3> QED
      BY <1>5, <2>2, <3>1, <3>2, OpenedOther
  <2> HIDE DEF O
  <2>5. Fit(T) /\ Within(O, T) /\ Kept(O, T)
    BY <2>1, <2>4, SaveFit
  <2>6. /\ O.legacy = P.legacy /\ O.tab.source = s /\ O.tab.status = S.tab.status
    BY <2>3, <2>4 DEF Only, OnlyTab, ViewFields, TabFields
  <2>7. T.legacy = P.legacy /\ T.tab.source = s /\ T.tab.status = S.tab.status
    BY <2>5, <2>6 DEF Kept
  <2>8. Confined(s, P, T)
    <3>1. Mk \in Views /\ O \in Views /\ T \in Views
      BY <2>2, <2>4, <2>5, FitViews DEF Ready, Stocked
    <3>2. Confined(s, A, Mk) /\ Confined(s, Mk, O) /\ Confined(s, O, T)
      BY <1>20, <2>2, <2>3, <2>4, <2>5, <2>6 DEF Within
    <3>3. Confined(s, P, Mk)
      BY <1>1, <1>21, <3>1, <3>2, ConfinedBoth
    <3>4. Confined(s, P, O)
      BY <1>1, <3>1, <3>2, <3>3, ConfinedBoth
    <3> QED
      BY <1>1, <3>1, <3>2, <3>4, ConfinedBoth
  <2>9. ActiveDoc(Mk).kind # "plan"
    BY <1>7, <2>3, CorruptKinds DEF ActiveDoc
  <2> QED
    BY <2>1, <2>4, <2>5, <2>7, <2>8, <2>9 DEF Entered, Migrates, O
<1>23. ASSUME ~(raw # Absent /\ refused)
       PROVE  /\ Entered(P, T, s) /\ T.tab.status = S.tab.status
              /\ T = OpenActive(PersistIndex(A, A.tab.active))
  <2>1. T = OpenActive(I)
    BY <1>1, <1>2, <1>4, <1>23 DEF OpenActive
  <2>2. I = PersistIndex(A, A.tab.active)
    BY <1>20
  <2>6. T = OpenActive(PersistIndex(A, A.tab.active))
    BY <2>1, <2>2
  <2> HIDE DEF T, I
  <2>3. /\ Fit(T) /\ Confined(s, P, T) /\ T.tab.source = s /\ T.legacy = A.legacy
        /\ T.tab.status = A.tab.status
    BY <1>1, <1>19, <1>20, <1>21, <2>1, <2>2, EnteredOpen
  <2>4. CASE raw = Absent
    <3>1. T.legacy = P.legacy
      BY <1>4, <1>15, <1>20, <2>3, <2>4
    <3> QED
      BY <1>20, <2>3, <2>6, <3>1 DEF Entered, Migrates
  <2>5. CASE raw # Absent
    <3>1. /\ N.legacy = [P.legacy EXCEPT ![key] = Absent] /\ N.docs[s][f] = raw /\ active = f
          /\ raw = P.legacy[key]
      BY <1>4, <1>11, <1>14, <1>23, <2>5 DEF raw
    <3>2. "index" \notin A.refuses
      <4>1. N.refuses = R.refuses
        BY <1>12, <2>5 DEF Only, ViewFields
      <4> QED
        BY <1>20, <1>23, <2>5, <4>1
    <3>3. /\ Ready(I) /\ Only(A, I, {"index", "tab", "unlisted"})
          /\ OnlyTab(A.tab, I.tab, {"pending", "synced", "unwritten"})
          /\ Written(A, I, l, f)
      BY <1>19, <1>20, <2>2, <3>1, <3>2, PersistReady
    <3>4. A \in Views
      BY <1>21
    <3>5. /\ I.index[s] = Index(l, f) /\ I.tab.pending = {} /\ I.tab.synced = I.index[s]
          /\ I.docs = A.docs /\ I.tab.source = s /\ I.tab.active = f
      <4>1. /\ I.index = [A.index EXCEPT ![s] = Index(l, f)]
            /\ I.tab.pending = {} /\ I.tab.synced = Index(l, f)
        BY <1>20, <3>3 DEF Written
      <4>2. I.docs = A.docs /\ I.tab.source = s /\ I.tab.active = f
        BY <1>20, <3>1, <3>3 DEF Only, OnlyTab, ViewFields, TabFields
      <4> QED
        BY <3>4, <4>1, <4>2 DEF Views
    <3>6. /\ T.tab.pending = {} /\ T.tab.synced = T.index[s] /\ T.tab.active = f
          /\ raw.kind = "plan" => T.docs[s][f] = raw
          /\ raw = Corrupt => PlanKey(s, f) \in Seen(T)
      <4>1. I.docs[I.tab.source][I.tab.active] = raw
        BY <1>20, <3>1, <3>5
      <4> QED
        BY <2>1, <3>3, <3>5, <4>1, OpenedSettled
    <3>7. raw.kind = "plan" \/ raw = Corrupt
      BY <1>5, <2>5 DEF OldValues, OldContent, Content
    <3>8. f \in Listed(T.index[s])
      <4>1. T.index = I.index
        BY <2>1, <3>3, OpenActiveFit DEF Kept
      <4>2. Listed(Index(l, f)) = ToSet(l) /\ f \in ToSet(l)
        BY <1>17, <3>1 DEF Listed, Index, Readable
      <4> QED
        BY <3>5, <4>1, <4>2
    <3>9. T.legacy = [P.legacy EXCEPT ![key] = Absent]
      BY <1>20, <2>3, <3>1
    <3>10. Migrates(P, T, s)
      BY <1>5, <1>6, <3>1, <3>6, <3>7, <3>8, <3>9 DEF Migrates
    <3> QED
      BY <1>20, <2>3, <2>6, <3>10 DEF Entered
  <2> QED
    BY <2>4, <2>5
<1>25. N \in Views
  BY <1>16 DEF Stocked
<1> HIDE DEF T, Mk, I
<1>26. Entering(P, T, s, S.tab.status)
  <2>1. \/ T = OpenActive(PersistIndex(A, A.tab.active))
        \/ /\ T = LoadActivePlan(MarkUnwritten(A), raw) /\ Fit(Opened(MarkUnwritten(A), raw))
           /\ ActiveDoc(MarkUnwritten(A)).kind # "plan"
    <3>1. CASE raw # Absent /\ refused
      BY <1>22, <3>1 DEF Mk
    <3>2. CASE ~(raw # Absent /\ refused)
      BY <1>23, <3>2
    <3> QED
      BY <3>1, <3>2
  <2> QED
    BY <1>5, <1>19, <1>20, <1>21, <1>24, <1>25, <2>1 DEF Entering, R, list, f
<1> QED
  BY <1>1, <1>22, <1>23, <1>26 DEF P, T


(* A tab may have no plan list yet. *)
Settled(S) == Stocked(S) /\ (S.tab.source # NoSource => Fit(S))

LEMMA StatusFacts ==
    ASSUME NEW S \in Views, NEW status \in Statuses
    PROVE  LET T == [S EXCEPT !.tab.status = status]
           IN  /\ T \in Views /\ Only(S, T, {"tab"}) /\ OnlyTab(S.tab, T.tab, {"status"})
               /\ T.tab.status = status
<1> DEFINE u == [S.tab EXCEPT !.status = status]
           T == [S EXCEPT !.tab = u]
<1>1. u \in TabViews /\ OnlyTab(S.tab, u, {"status"}) /\ u.status = status
  BY TabType DEF TabViews, OnlyTab, TabFields
<1>2. T = [S EXCEPT !.tab.status = status]
  OBVIOUS
<1> HIDE DEF u
<1>3. T \in Views /\ Only(S, T, {"tab"}) /\ T.tab = u
  BY <1>1 DEF Views, Only, ViewFields
<1> HIDE DEF T
<1> QED
  BY <1>1, <1>2, <1>3

LEMMA StatusSettled ==
    ASSUME NEW S, Settled(S), NEW status \in Statuses
    PROVE  LET T == [S EXCEPT !.tab.status = status]
           IN  /\ Settled(T) /\ T.tab.source = S.tab.source /\ T.tab.status = status /\ T.next = S.next
               /\ Only(S, T, {"tab"}) /\ (Fit(S) => Handled(S, T))
<1> DEFINE T == [S EXCEPT !.tab.status = status]
<1>0. S \in Views
  BY DEF Settled, Stocked
<1>1. /\ T \in Views /\ Only(S, T, {"tab"}) /\ OnlyTab(S.tab, T.tab, {"status"})
      /\ T.tab.status = status
  BY <1>0, StatusFacts
<1> HIDE DEF T
<1>2. /\ T.index = S.index /\ T.docs = S.docs /\ T.next = S.next /\ T.legacy = S.legacy
      /\ T.tab.source = S.tab.source
  BY <1>1 DEF Only, ViewFields, OnlyTab, TabFields
<1>3. Stocked(T)
  BY <1>1, <1>2 DEF Settled, Stocked, OwnDocs, Drew
<1>4. Fit(S) => Handled(S, T)
  <2>1. OnlyTab(S.tab, T.tab, {"told", "removed", "status", "pending", "synced", "unwritten"})
    BY <1>1 DEF OnlyTab
  <2> QED
    BY <1>1, <1>2, <2>1, TabFit DEF Handled
<1> QED
  BY <1>1, <1>2, <1>3, <1>4 DEF Settled, Handled, T

LEMMA SafeSame ==
    ASSUME NEW S, NEW L, NEW T, Only(S, L, {"tab"}), Safe(L, T)
    PROVE  Safe(S, T)
<1>1. /\ L.index = S.index /\ L.docs = S.docs /\ L.next = S.next /\ L.legacy = S.legacy
      /\ L.copies = S.copies /\ L.uncopied = S.uncopied
  BY DEF Only, ViewFields
<1> QED
  BY <1>1 DEF Safe, Seen, Migrated

LEMMA LoadSafe ==
    ASSUME NEW S, Settled(S), S.next \in Plans
    PROVE  Fit(Load(S)) /\ Safe(S, Load(S))
<1> DEFINE s == S.tab.status.id
           L == [S EXCEPT !.tab.status = Status("loaded", s)]
           A == Activate(L, s)
           T == Sync(A)
<1>1. S \in Views /\ s \in Sources /\ Status("loaded", s) \in Statuses
  BY DEF Settled, Stocked, Views, TabViews, Statuses, Status
<1>2. Load(S) = T
  BY DEF Load
<1> HIDE DEF s
<1>3. /\ Settled(L) /\ L.tab.source = S.tab.source /\ L.next = S.next
      /\ Only(S, L, {"tab"}) /\ (Fit(S) => Handled(S, L))
  BY <1>1, StatusSettled
<1> HIDE DEF L
<1>4. CASE S.tab.source = s
  <2>1. A = L
    BY <1>3, <1>4 DEF Activate
  <2>2. Handled(S, L) /\ Fit(L)
    <3>1. S.tab.source # NoSource
      BY <1>1, <1>4, PlanStoreAssumption
    <3> QED
      BY <1>3, <3>1 DEF Settled, Handled
  <2>3. Handled(L, T)
    BY <2>1, <2>2, SyncHandled
  <2> HIDE DEF T
  <2>4. Handled(S, T)
    BY <1>1, <2>2, <2>3, HandledBoth, HandledPasses
  <2> QED
    BY <1>2, <2>4, HandledSafe DEF Handled
<1>5. CASE S.tab.source # s
  <2> DEFINE P == Prepare(L, s)
  <2>1. L \in Views /\ Stocked(L)
    BY <1>3 DEF Settled, Stocked
  <2>2. PICK out : s \notin out /\ Cleared(L, P, out)
    BY <1>1, <2>1, PreparedCleared
  <2>3. Stocked(P) /\ Entered(P, A, s)
    BY <1>1, <1>3, <1>5, <2>1, ActivateEntered
  <2> HIDE DEF P, A
  <2>4. /\ Fit(A) /\ A.tab.source = s /\ Confined(s, P, A) /\ Migrates(P, A, s)
        /\ P \in Views /\ A \in Views
    BY <2>3, FitViews DEF Entered, Stocked
  <2>5. Fit(T) /\ Within(A, T) /\ Synced(A, T) /\ Kept(A, T) /\ T \in Views
    BY <2>4, SyncFit, SyncKept, FitViews
  <2> HIDE DEF T
  <2>6. Confined(s, P, T)
    BY <2>4, <2>5, ConfinedBoth DEF Within
  <2>7. ASSUME NEW k \in Sources \cup {NoSource}, T.legacy[k] # P.legacy[k]
        PROVE  Migrated(P, T, k)
    <3>1. T.legacy = A.legacy /\ T.index = A.index /\ Seen(A) \subseteq Seen(T)
      BY <2>5 DEF Kept, Within, Confined
    <3>2. PICK j \in Sources \cup {NoSource} :
             /\ A.legacy = [P.legacy EXCEPT ![j] = Absent]
             /\ A.tab.active \in Plans /\ A.tab.active \in Listed(A.index[s])
             /\ \/ A.docs[s][A.tab.active] = P.legacy[j]
                \/ PlanKey(s, A.tab.active) \in Seen(A)
             /\ A.tab.pending = {} /\ A.tab.synced = A.index[s]
      BY <2>4, <2>7, <3>1 DEF Migrates
    <3>3. j = k
      BY <2>4, <2>7, <3>1, <3>2 DEF Views
    <3>4. T.docs = A.docs
      <4>1. ~Merging(A, T)
        BY <2>4, <3>2 DEF Merging
      <4> QED
        BY <2>5, <4>1 DEF Synced, Quiet, Only, ViewFields
    <3> QED
      BY <1>1, <3>1, <3>2, <3>3, <3>4 DEF Migrated
  <2>8. Safe(L, T)
    BY <1>1, <2>1, <2>2, <2>5, <2>6, <2>7, ClearedSafe
  <2> QED
    BY <1>2, <1>3, <2>5, <2>8, SafeSame
<1> QED
  BY <1>4, <1>5

(* The picked data set's plans are kept, as those of all that are served.   *)
LEMMA PickSafe ==
    ASSUME NEW S, Settled(S), NEW s \in Bundled, NEW status \in Statuses
    PROVE  LET T == [RemoveCustomPlans(S, NoSource) EXCEPT !.tab.status = status]
           IN  Settled(T) /\ Safe(S, T)
<1> DEFINE R == RemoveCustomPlans(S, NoSource)
           T == [R EXCEPT !.tab.status = status]
<1>1. S \in Views /\ Stocked(S) /\ s \in Sources /\ s \notin Replaced(NoSource)
  BY PlanStoreAssumption DEF Settled, Stocked, Sources, Replaced
<1>2. Cleared(S, R, Replaced(NoSource))
  BY <1>1, RemovedCleared
<1> HIDE DEF R
<1>3. Stocked(R) /\ (Fit(S) => Fit(R)) /\ R.tab = S.tab /\ R \in Views
  BY <1>1, <1>2, ClearedFit DEF Cleared
<1>4. Settled(R)
  BY <1>3 DEF Settled
<1>5. Settled(T) /\ Only(R, T, {"tab"})
  BY <1>4, StatusSettled
<1> HIDE DEF T
<1>6. /\ T.index = R.index /\ T.docs = R.docs /\ T.next = R.next /\ T.legacy = R.legacy
      /\ T.copies = R.copies /\ T.uncopied = R.uncopied /\ T.me = R.me
  BY <1>5 DEF Only, ViewFields
<1>7. Confined(s, R, T)
  BY <1>3, <1>6 DEF Confined, Seen, Views
<1>8. T \in Views
  BY <1>5 DEF Settled, Stocked
<1>9. Safe(S, T)
  BY <1>1, <1>2, <1>6, <1>7, <1>8, ClearedSafe
<1> QED
  BY <1>5, <1>9 DEF T, R

LEMMA DieSafe ==
    ASSUME NEW S, Stocked(S), S.next \in Plans, NEW s \in Sources, NEW listed \in BOOLEAN,
           NEW status \in Statuses
    PROVE  LET P == Prepare(S, s)
               list == StoredList(P, s)
               R == ReadIndex(P, s)
               T == [MigrateAndDie(R, s, list, listed) EXCEPT !.tab = NewTab(status)]
               raw == R.legacy[LegacyKey(R, s, list)]
           IN  /\ raw # Absent => Settled(T) /\ Safe(S, T)
               /\ T \in Views /\ T.tab = NewTab(status) /\ Adopts(R, T, s, raw, list)
               /\ Only(R, T, {"next", "docs", "index", "legacy", "tab"}) /\ T.next = R.next + 1
<1> DEFINE P == Prepare(S, s)
           list == StoredList(P, s)
           R == ReadIndex(P, s)
           key == LegacyKey(R, s, list)
           raw == R.legacy[key]
           f == R.next
           l == Append(list, f)
           docs_ == [R.docs EXCEPT ![s][f] = raw]
           index_ == IF listed THEN [R.index EXCEPT ![s] = Index(l, f)] ELSE R.index
           u == NewTab(status)
           T == [MigrateAndDie(R, s, list, listed) EXCEPT !.tab = u]
           E == [R EXCEPT !.next = f + 1, !.docs = docs_, !.index = index_, !.tab = u]
<1>1. S \in Views
  BY DEF Stocked
<1>2. PICK out : s \notin out /\ Cleared(S, P, out)
  BY <1>1, PreparedCleared
<1> HIDE DEF P
<1>3. Stocked(P) /\ P.next = S.next /\ P \in Views
  BY <1>2, ClearedFit DEF Cleared
<1>4. list \in Seq(Plans) /\ \A p \in ToSet(list) : p < P.next
  BY <1>3, StoredListType
<1>5. /\ Stocked(R) /\ Confined(s, P, R) /\ R \in Views
      /\ R.legacy = P.legacy /\ R.next = P.next
      /\ R.index[s] = Corrupt => IndexKey(s) \in Seen(R)
  BY <1>3, ReadStocked DEF Stocked
<1> HIDE DEF list, R
<1>6. raw \in OldValues
  <2>1. key \in Sources \cup {NoSource}
    BY DEF LegacyKey
  <2> QED
    BY <1>5, <2>1 DEF Views
<1>7. T = E
  <2>1. MigrateAndDie(R, s, list, listed)
          = [Drawn(R) EXCEPT !.docs[s][f] = raw, !.index[s] = IF listed THEN Index(l, f) ELSE @]
    BY DEF MigrateAndDie, Fresh
  <2>2. index_ = [R.index EXCEPT ![s] = IF listed THEN Index(l, f) ELSE @]
    BY <1>5 DEF Views
  <2> HIDE DEF key, raw, l
  <2> QED
    BY <1>5, <2>1, <2>2 DEF Drawn, Views
<1> HIDE DEF T, key, raw, f, u
<1>8. f \in Plans /\ f \in Nat /\ f = R.next
  BY <1>3, <1>5 DEF Plans, f
<1>9. u \in TabViews /\ u.source = NoSource
  BY NewTabType DEF u
<1>10. Index(l, f) \in Indexes
  BY <1>4, <1>8, AppendType DEF Index, Indexes
<1> HIDE DEF l
<1>11. docs_ \in [Sources -> [Plans -> Contents]]
  BY <1>5, <1>6, <1>8, ContentTypes DEF Views
<1>12. index_ \in [Sources -> Indexes]
  BY <1>5, <1>10 DEF Views
<1>13. index_ = R.index \/ index_ = [R.index EXCEPT ![s] = Index(l, f)]
  OBVIOUS
<1> HIDE DEF docs_, index_
<1>14. /\ E \in Views /\ Only(R, E, {"next", "docs", "index", "legacy", "tab"}) /\ E.next = f + 1
       /\ E.docs = docs_ /\ E.index = index_ /\ E.tab = u /\ E.legacy = R.legacy
  <2>1. f + 1 \in Nat /\ u \in TabViews
    BY <1>8, <1>9
  <2> DEFINE n == f + 1
  <2> HIDE DEF n
  <2>2. n \in Nat /\ E = [R EXCEPT !.next = n, !.docs = docs_, !.index = index_, !.tab = u]
    BY <2>1 DEF n, E
  <2> HIDE DEF E
  <2>3. E \in Views
    BY <1>5, <1>11, <1>12, <2>1, <2>2 DEF Views
  <2>4. Only(R, E, {"next", "docs", "index", "legacy", "tab"})
    BY <1>5, <2>2 DEF Views, Only, ViewFields
  <2>5. E.next = n /\ E.docs = docs_ /\ E.index = index_ /\ E.tab = u /\ E.legacy = R.legacy
    BY <1>5, <2>2 DEF Views
  <2> QED
    BY <2>3, <2>4, <2>5 DEF n
<1> HIDE DEF E
<1>15. Adopts(R, T, s, raw, list)
  BY <1>7, <1>13, <1>14 DEF Adopts, docs_, l, f
<1>16. Stocked(T) /\ Confined(s, R, T)
  BY <1>4, <1>5, <1>6, <1>7, <1>8, <1>14, <1>15, AdoptStocked
<1>17. Confined(s, P, T)
  BY <1>3, <1>5, <1>7, <1>14, <1>16, ConfinedBoth
<1>18. Safe(S, T)
  <2>1. \A k \in Sources \cup {NoSource} : T.legacy[k] # P.legacy[k] => Migrated(P, T, k)
    BY <1>5, <1>7, <1>14
  <2> QED
    BY <1>2, <1>7, <1>14, <1>17, <2>1, ClearedSafe
<1>19. Settled(T)
  BY <1>7, <1>9, <1>14, <1>16 DEF Settled
<1>20. T \in Views /\ T.tab = u /\ Only(R, T, {"next", "docs", "index", "legacy", "tab"}) /\ T.next = f + 1
  BY <1>7, <1>14
<1> QED
  BY <1>15, <1>18, <1>19, <1>20 DEF T, P, list, R, u, raw, key, f


-----------------------------------------------------------------------------
(* The invariant of the tabs: every tab, over the storage they share, is in *)
(* a view that the handlers start from.                                     *)

(* Another tab is as settled after a step as it was before.                 *)
LEMMA OthersSettled ==
    ASSUME NEW U, Settled(U), NEW S, Only(U, S, {"tab", "me", "refuses"}),
           NEW T, Stocked(T), Safe(S, T),
           NEW V \in Views, Only(T, V, {"tab", "me", "refuses"}), OnlyTab(U.tab, V.tab, {"told"})
    PROVE  Settled(V)
<1>1. /\ S.index = U.index /\ S.docs = U.docs /\ S.next = U.next
      /\ S.copies = U.copies /\ S.uncopied = U.uncopied
      /\ V.index = T.index /\ V.docs = T.docs /\ V.next = T.next
      /\ V.copies = T.copies /\ V.uncopied = T.uncopied
  BY DEF Only, ViewFields
<1>2. /\ V.tab.source = U.tab.source /\ V.tab.list = U.tab.list
      /\ V.tab.active = U.tab.active /\ V.tab.shown = U.tab.shown
  BY DEF OnlyTab, TabFields
<1>3. Stocked(V)
  BY <1>1 DEF Stocked, OwnDocs, Drew
<1>4. ASSUME U.tab.source # NoSource
      PROVE  Fit(V)
  <2>1. Fit(U) /\ U \in Views /\ Opens(U)
    BY <1>4 DEF Settled, Stocked, Fit, Ready
  <2>2. /\ U.tab.source \in Sources /\ U.tab.active \in Plans
        /\ U.tab.active \in ToSet(U.tab.list) /\ ToSet(U.tab.list) \subseteq Plans
    BY <2>1, OpenType DEF Opens
  <2>3. U.next \in Nat /\ T.next \in Nat /\ U.next <= T.next /\ Plans \subseteq Nat
    BY <1>1, <2>1 DEF Stocked, Views, Safe, Plans
  <2>4. ASSUME NEW p \in ToSet(V.tab.list)
        PROVE  p < V.next
    <3>1. p \in ToSet(U.tab.list) /\ p < U.next
      BY <1>2, <2>1 DEF Fit, Ready
    <3>2. p \in Nat
      BY <2>2, <2>3, <3>1
    <3> QED
      BY <1>1, <2>3, <3>1, <3>2
  <2>5. Seen(S) = Seen(U) /\ Seen(V) = Seen(T)
    BY <1>1 DEF Seen
  <2>6. V.index[V.tab.source] = Corrupt => IndexKey(V.tab.source) \in Seen(V)
    BY <1>1, <1>2, <2>1, <2>2, <2>5 DEF Fit, Ready, Safe
  <2>7. U.tab.active < U.next
    BY <2>1, <2>2 DEF Fit, Ready
  <2>8. ActiveKept(V)
    <3> DEFINE s == U.tab.source
               a == U.tab.active
    <3>1. U.docs[s][a] = Corrupt => PlanKey(s, a) \in Seen(U)
      BY <2>1 DEF Fit, ActiveKept
    <3>2. T.docs[s][a] = Corrupt =>
             \/ S.next <= a
             \/ /\ S.docs[s][a] = Corrupt
                /\ PlanKey(s, a) \in Seen(S) => PlanKey(s, a) \in Seen(T)
      BY <2>2 DEF Safe
    <3>0. a \in Nat /\ S.next \in Nat /\ a < S.next
      BY <1>1, <2>2, <2>3, <2>7
    <3>3. ~(S.next <= a)
      BY <3>0
    <3>4. T.docs[s][a] = Corrupt => PlanKey(s, a) \in Seen(T)
      BY <1>1, <2>5, <3>1, <3>2, <3>3
    <3> QED
      BY <1>1, <1>2, <2>5, <3>4 DEF ActiveKept
  <2> QED
    BY <1>2, <1>3, <2>1, <2>4, <2>6, <2>8 DEF Fit, Ready, Opens, OnScreen
<1> QED
  BY <1>2, <1>3, <1>4 DEF Settled

(* The fields that a view takes from its tab and the step have no say.      *)
LEMMA SettledAs ==
    ASSUME NEW T, Settled(T), NEW V \in Views, Only(T, V, {"me", "refuses"})
    PROVE  Settled(V)
<1>1. /\ V.index = T.index /\ V.docs = T.docs /\ V.next = T.next
      /\ V.copies = T.copies /\ V.uncopied = T.uncopied /\ V.tab = T.tab
  BY DEF Only, ViewFields
<1> QED
  BY <1>1 DEF Settled, Fit, Ready, Stocked, OwnDocs, Drew, Opens, OnScreen, ActiveKept, Seen

Counts == [edits : Nat, actions : Nat, refusals : Nat, reloads : Nat]

(* The type of the variables and, over it, every tab's view.                *)
TabsInv ==
    /\ spent \in Counts /\ choice \in Sources /\ tabs \in [Tabs -> TabViews] /\ next # 0
    /\ \A t \in Tabs : Settled(View(t, {}))

(* A step of tab t leads to the view T.                                     *)
Follows(t, T) ==
    /\ index' = T.index /\ docs' = T.docs /\ legacy' = T.legacy /\ copies' = T.copies
    /\ next' = T.next /\ uncopied' = T.uncopied /\ writer' = T.writer
    /\ deleted' = T.deleted /\ gone' = T.gone /\ unlisted' = T.unlisted
    /\ tabs' \in [Tabs -> TabViews] /\ tabs'[t] = T.tab
    /\ \A u \in Tabs \ {t} : OnlyTab(tabs[u], tabs'[u], {"told"})
StepOf(t) ==
    \E refuses \in SUBSET Kinds :
        \E T : Settled(T) /\ Safe(View(t, refuses), T) /\ Follows(t, T)

LEMMA ViewSettled ==
    ASSUME TabsInv, NEW t \in Tabs, NEW refuses \in SUBSET Kinds
    PROVE  /\ Settled(View(t, refuses)) /\ View(t, refuses) \in Views
           /\ View(t, refuses).tab = tabs[t] /\ View(t, refuses).next = next
           /\ View(t, refuses).tab \in TabViews
           /\ tabs[t].source # NoSource => Fit(View(t, refuses))
<1> DEFINE S == View(t, {})
           V == View(t, refuses)
<1>1. S \in Views /\ Settled(S)
  BY DEF TabsInv, Settled, Stocked
<1>2. V = [S EXCEPT !.refuses = refuses] /\ V.tab = tabs[t] /\ V.next = next
  BY DEF View
<1> HIDE DEF S, V
<1>3. V \in Views /\ Only(S, V, {"me", "refuses"})
  BY <1>1, <1>2 DEF Views, Only, ViewFields
<1>4. Settled(V)
  BY <1>1, <1>3, SettledAs
<1>5. V.tab \in TabViews
  BY <1>3, TabType
<1> QED
  BY <1>2, <1>3, <1>4, <1>5 DEF V, Settled

LEMMA BecomesFollows ==
    ASSUME TabsInv, NEW t \in Tabs, NEW T \in Views, Becomes(t, T)
    PROVE  Follows(t, T)
<1>1. T.tab \in TabViews
  BY TabType
<1>2. ASSUME NEW u \in Tabs, u # t
      PROVE  tabs'[u] \in TabViews /\ OnlyTab(tabs[u], tabs'[u], {"told"})
  <2> DEFINE told_ == tabs[u].told /\ Heard(u, T)
  <2>1. tabs[u] \in TabViews
    BY DEF TabsInv
  <2>2. told_ \in BOOLEAN
    BY Zenon
  <2>3. tabs'[u] = [tabs[u] EXCEPT !.told = told_]
    BY <1>2, Zenon DEF Becomes
  <2> HIDE DEF told_
  <2> QED
    BY <2>1, <2>2, <2>3 DEF TabViews, OnlyTab, TabFields
<1>3. tabs'[t] = T.tab
  BY DEF Becomes
<1>4. tabs' = [u \in Tabs |-> tabs'[u]]
  BY Zenon DEF Becomes
<1>5. tabs' \in [Tabs -> TabViews]
  BY <1>1, <1>2, <1>3, <1>4
<1> QED
  BY <1>2, <1>3, <1>5 DEF Becomes, Follows

LEMMA StepKeeps ==
    ASSUME TabsInv, NEW t \in Tabs, StepOf(t), spent' \in Counts, choice' \in Sources
    PROVE  TabsInv'
<1> PICK refuses \in SUBSET Kinds : \E T : Settled(T) /\ Safe(View(t, refuses), T) /\ Follows(t, T)
  BY DEF StepOf
<1>1. PICK T : Settled(T) /\ Safe(View(t, refuses), T) /\ Follows(t, T)
  OBVIOUS
<1>2. T \in Views /\ Stocked(T)
  BY <1>1 DEF Settled, Stocked
<1>3. tabs' \in [Tabs -> TabViews]
  BY <1>1 DEF Follows
<1>4. ASSUME NEW u \in Tabs
      PROVE  Settled(View(u, {})')
  <2> DEFINE S == View(t, refuses)
             U == View(u, {})
             V == View(u, {})'
  <2>1. V = [index |-> T.index, docs |-> T.docs, legacy |-> T.legacy, copies |-> T.copies,
             next |-> T.next, uncopied |-> T.uncopied, writer |-> T.writer,
             deleted |-> T.deleted, gone |-> T.gone, unlisted |-> T.unlisted,
             tab |-> tabs'[u], me |-> u, refuses |-> {}]
    BY <1>1 DEF View, Follows
  <2> DEFINE v == tabs'[u]
  <2>2. v \in TabViews
    BY <1>3
  <2> HIDE DEF v
  <2> HIDE DEF V
  <2>3. V = [index |-> T.index, docs |-> T.docs, legacy |-> T.legacy, copies |-> T.copies,
             next |-> T.next, uncopied |-> T.uncopied, writer |-> T.writer,
             deleted |-> T.deleted, gone |-> T.gone, unlisted |-> T.unlisted,
             tab |-> v, me |-> u, refuses |-> {}]
    BY <2>1 DEF v
  <2>4. V \in Views /\ V.tab = v /\ Only(T, V, {"tab", "me", "refuses"})
    BY <1>2, <2>2, <2>3 DEF Views, Only, ViewFields
  <2>5. CASE u = t
    <3>1. V.tab = T.tab
      BY <1>1, <2>4, <2>5 DEF Follows, v
    <3>2. Only(T, V, {"me", "refuses"})
      BY <2>4, <3>1 DEF Only
    <3> QED
      BY <1>1, <2>4, <3>2, SettledAs DEF V
  <2>6. CASE u # t
    <3>1. Only(U, S, {"tab", "me", "refuses"}) /\ U.tab = tabs[u]
      BY DEF View, Only, ViewFields
    <3>2. Settled(U)
      BY DEF TabsInv
    <3>3. OnlyTab(U.tab, V.tab, {"told"})
      BY <1>1, <2>4, <2>6, <3>1 DEF Follows, v
    <3>4. Safe(S, T)
      BY <1>1
    <3> HIDE DEF U, S
    <3>5. Settled(V)
      BY <1>2, <2>4, <3>1, <3>2, <3>3, <3>4, OthersSettled
    <3> QED
      BY <3>5 DEF V
  <2> QED
    BY <2>5, <2>6
<1>5. next' # 0
  <2>1. next <= next' /\ next' = T.next
    BY <1>1 DEF Follows, Safe, View
  <2>2. next \in Nat /\ T.next \in Nat
    <3>1. View(t, refuses) \in Views /\ View(t, refuses).next = next
      BY ViewSettled
    <3> QED
      BY <1>2, <3>1 DEF Views
  <2> QED
    BY <2>1, <2>2 DEF TabsInv
<1> QED
  BY <1>3, <1>4, <1>5 DEF TabsInv


LEMMA InitInv ==
    ASSUME Init
    PROVE  TabsInv
<1> USE PlanStoreAssumption, PlanTabsAssumption
<1>1. PICK raw \in {Absent, Corrupt, Index(<<1, 2>>, 1)}, bad \in BOOLEAN, b \in Bundled :
         /\ index = [s \in Sources |-> IF s = b THEN raw ELSE Absent]
         /\ docs = [s \in Sources |-> [p \in Plans |->
                      IF s # b \/ raw = Absent \/ p > 2 THEN Absent
                      ELSE IF bad /\ p = 1 THEN Corrupt ELSE Content(p, 0)]]
  BY DEF Init
<1>2. 1 \in Plans /\ 2 \in Plans /\ Plans \subseteq Nat
  BY DEF Plans
<1>3. <<1, 2>> \in Seq(Plans) /\ ToSet(<<1, 2>>) = {1, 2}
  BY <1>2 DEF ToSet
<1>4. Index(<<1, 2>>, 1) \in Indexes
  <2>1. <<1, 2>> \in Lists
    BY <1>2, <1>3 DEF Lists
  <2> QED
    BY <1>2, <2>1 DEF Index, Indexes
<1>5. index \in [Sources -> Indexes]
  BY <1>1, <1>4 DEF Indexes
<1>6. docs \in [Sources -> [Plans -> Contents]]
  <2>1. \A p \in Plans : Content(p, 0) \in Contents
    BY DEF Content, Contents
  <2> QED
    BY <1>1, <2>1 DEF Contents
<1>7. legacy \in [Sources \cup {NoSource} -> OldValues]
  BY DEF Init, OldValues
<1>8. choice \in Sources /\ tabs = [t \in Tabs |-> NewTab(Status("loading", choice))]
  BY DEF Init
<1>9. NewTab(Status("loading", choice)) \in TabViews
      /\ NewTab(Status("loading", choice)).source = NoSource
  BY <1>8, NewTabType DEF Status, Statuses
<1>10. tabs \in [Tabs -> TabViews] /\ \A t \in Tabs : tabs[t].source = NoSource
  BY <1>8, <1>9
<1>11. spent \in Counts
  BY DEF Init, Counts
<1>12. /\ copies = {} /\ uncopied = {} /\ next = 3 /\ writer = [p \in Plans |-> 0]
       /\ deleted = {} /\ gone = {} /\ unlisted = {}
  BY DEF Init
<1>13. ASSUME NEW t \in Tabs
       PROVE  View(t, {}) \in Views
  BY <1>5, <1>6, <1>7, <1>10, <1>12 DEF View, Views
<1>14. \A s \in Sources, p \in Plans : docs[s][p] # Absent => p < 3
  BY <1>1, <1>2
<1>15. \A s \in Sources, p \in Plans : docs[s][p].kind = "plan" => docs[s][p].plan = p
  BY <1>1, CorruptKinds DEF Content
<1>16. \A s \in Sources : Readable(index[s]) => index[s] = Index(<<1, 2>>, 1)
  BY <1>1, CorruptKinds
<1>17. ASSUME NEW s \in Sources
       PROVE  /\ \A p \in Listed(index[s]) : p < 3
              /\ Readable(index[s]) => index[s].active \in ToSet(index[s].plans)
  BY <1>3, <1>16 DEF Listed, Index
<1>18. ASSUME NEW t \in Tabs
       PROVE  Settled(View(t, {}))
  <2> DEFINE S == View(t, {})
  <2>1. S \in Views
    BY <1>13
  <2>2. S.docs = docs /\ S.index = index /\ S.next = 3 /\ S.tab.source = NoSource
    BY <1>10, <1>12 DEF View
  <2> HIDE DEF S
  <2> QED
    BY <1>14, <1>15, <1>17, <2>1, <2>2 DEF Settled, Stocked, OwnDocs, Drew, S
<1> QED
  BY <1>8, <1>10, <1>11, <1>12, <1>18 DEF TabsInv

LEMMA SpentType ==
    ASSUME spent \in Counts
    PROVE  /\ [spent EXCEPT !["edits"] = @ + 1] \in Counts
           /\ [spent EXCEPT !["edits"] = @ + 1, !.refusals = @ + 1] \in Counts
           /\ [spent EXCEPT !["actions"] = @ + 1] \in Counts
           /\ [spent EXCEPT !["actions"] = @ + 1, !.refusals = @ + 1] \in Counts
           /\ [spent EXCEPT !["reloads"] = @ + 1] \in Counts
           /\ [spent EXCEPT !.refusals = @ + 1] \in Counts
<1>1. /\ spent["edits"] = spent.edits /\ spent["actions"] = spent.actions
      /\ spent["reloads"] = spent.reloads
  OBVIOUS
<1>2. /\ spent.edits + 1 \in Nat /\ spent.actions + 1 \in Nat
      /\ spent.reloads + 1 \in Nat /\ spent.refusals + 1 \in Nat
  BY DEF Counts
<1> QED
  BY <1>1, <1>2 DEF Counts

LEMMA SafeTab ==
    ASSUME NEW S \in Views, NEW T, Only(S, T, {"tab"})
    PROVE  Safe(S, T)
<1>1. /\ T.index = S.index /\ T.docs = S.docs /\ T.next = S.next /\ T.legacy = S.legacy
      /\ T.copies = S.copies /\ T.uncopied = S.uncopied
  BY DEF Only, ViewFields
<1>2. S.next <= S.next
  BY DEF Views
<1> QED
  BY <1>1, <1>2, CorruptKinds DEF Safe, Seen

LEMMA HandledStep ==
    ASSUME TabsInv, NEW t \in Tabs, NEW refuses \in SUBSET Kinds, NEW T,
           Handled(View(t, refuses), T), Becomes(t, T)
    PROVE  StepOf(t)
<1>1. Settled(T) /\ T \in Views
  BY FitViews DEF Handled, Settled, Fit, Ready, Stocked
<1>2. Safe(View(t, refuses), T)
  BY HandledSafe
<1> QED
  BY <1>1, <1>2, BecomesFollows DEF StepOf

(* A step that changes nothing but one tab.                                 *)
LEMMA TabStep ==
    ASSUME TabsInv, NEW t \in Tabs, NEW u \in TabViews, tabs' = [tabs EXCEPT ![t] = u],
           UNCHANGED <<storage, next, history>>,
           Settled([View(t, {}) EXCEPT !.tab = u])
    PROVE  StepOf(t)
<1> DEFINE S == View(t, {})
           T == [S EXCEPT !.tab = u]
<1>1. S \in Views
  BY DEF TabsInv, Settled, Stocked
<1>2. /\ index' = S.index /\ docs' = S.docs /\ legacy' = S.legacy /\ copies' = S.copies
      /\ next' = S.next /\ uncopied' = S.uncopied /\ writer' = S.writer
      /\ deleted' = S.deleted /\ gone' = S.gone /\ unlisted' = S.unlisted
  BY DEF View, storage, history
<1> HIDE DEF S
<1>3. Only(S, T, {"tab"}) /\ T.tab = u
  BY <1>1 DEF Views, Only, ViewFields
<1>4. Settled(T)
  BY DEF S
<1> HIDE DEF T
<1>5. Safe(S, T)
  BY <1>1, <1>3, SafeTab
<1>6. /\ index' = T.index /\ docs' = T.docs /\ legacy' = T.legacy /\ copies' = T.copies
      /\ next' = T.next /\ uncopied' = T.uncopied /\ writer' = T.writer
      /\ deleted' = T.deleted /\ gone' = T.gone /\ unlisted' = T.unlisted
  BY <1>2, <1>3 DEF Only, ViewFields
<1>7. /\ tabs' \in [Tabs -> TabViews] /\ tabs'[t] = u
      /\ \A w \in Tabs \ {t} : tabs'[w] = tabs[w]
  BY DEF TabsInv
<1>8. Follows(t, T)
  BY <1>3, <1>6, <1>7 DEF Follows, OnlyTab
<1> QED
  BY <1>4, <1>5, <1>8 DEF StepOf, S


-----------------------------------------------------------------------------
(* Every action is a step of a tab.                                         *)
Steps(t) == StepOf(t) /\ spent' \in Counts /\ choice' \in Sources

LEMMA EditSteps ==
    ASSUME TabsInv, NEW t \in Tabs, Edit(t)
    PROVE  Steps(t)
<1>1. PICK refuses \in SUBSET Kinds :
         Becomes(t, EditBlocks(View(t, refuses), spent.edits + 1))
  BY DEF Edit, Runs, Kinds
<1>2. spent' \in Counts
  BY SpentType DEF Edit, Runs, Spend, TabsInv
<1>3. choice' \in Sources
  BY DEF Edit, TabsInv
<1>4. Fit(View(t, refuses))
  BY ViewSettled DEF Edit, IsLoaded
<1>5. spent.edits + 1 \in Nat
  BY DEF TabsInv, Counts
<1>6. Handled(View(t, refuses), EditBlocks(View(t, refuses), spent.edits + 1))
  BY <1>4, <1>5, EditHandled
<1> QED
  BY <1>1, <1>2, <1>3, <1>6, HandledStep DEF Steps

(* An action's tab is on a plan list, with a plan left to draw.             *)
LEMMA ActsFit ==
    ASSUME TabsInv, NEW t \in Tabs, IsLoaded(tabs[t]), CanDraw, NEW refuses \in SUBSET Kinds
    PROVE  /\ Fit(View(t, refuses)) /\ View(t, refuses).next \in Plans
           /\ View(t, refuses).tab = tabs[t]
<1>1. Fit(View(t, refuses)) /\ View(t, refuses).next = next /\ View(t, refuses).tab = tabs[t]
  BY ViewSettled DEF IsLoaded
<1>2. View(t, refuses) \in Views
  BY ViewSettled
<1>3. next \in Nat /\ next < MaxPlans
  BY <1>1, <1>2 DEF Views, CanDraw
<1>5. next \in Plans
  BY <1>3, PlanStoreAssumption DEF Plans, TabsInv
<1> QED
  BY <1>1, <1>5

LEMMA SwitchSteps ==
    ASSUME TabsInv, NEW t \in Tabs, Switch(t)
    PROVE  Steps(t)
<1>1. PICK p \in Plans : Acts(t, LAMBDA S : SwitchPlan(S, p))
  BY DEF Switch
<1>2. PICK refuses \in SUBSET Kinds : Becomes(t, SwitchPlan(View(t, refuses), p))
  BY <1>1 DEF Acts, Runs, Kinds
<1>3. spent' \in Counts /\ choice' \in Sources
  BY <1>1, SpentType DEF Acts, Runs, Spend, TabsInv
<1>4. Fit(View(t, refuses))
  BY <1>1, ActsFit DEF Acts
<1> QED
  BY <1>2, <1>3, <1>4, SwitchHandled, HandledStep DEF Steps

LEMMA CreateSteps ==
    ASSUME TabsInv, NEW t \in Tabs, Create(t)
    PROVE  Steps(t)
<1>1. PICK refuses \in SUBSET Kinds : Becomes(t, CreatePlan(View(t, refuses)))
  BY DEF Create, Acts, Runs, Kinds
<1>2. spent' \in Counts /\ choice' \in Sources
  BY SpentType DEF Create, Acts, Runs, Spend, TabsInv
<1>3. Fit(View(t, refuses)) /\ View(t, refuses).next \in Plans
  BY ActsFit DEF Create, Acts
<1> QED
  BY <1>1, <1>2, <1>3, CreateHandled, HandledStep DEF Steps

LEMMA DuplicateSteps ==
    ASSUME TabsInv, NEW t \in Tabs, Duplicate(t)
    PROVE  Steps(t)
<1>1. PICK refuses \in SUBSET Kinds : Becomes(t, DuplicatePlan(View(t, refuses)))
  BY DEF Duplicate, Acts, Runs, Kinds
<1>2. spent' \in Counts /\ choice' \in Sources
  BY SpentType DEF Duplicate, Acts, Runs, Spend, TabsInv
<1>3. Fit(View(t, refuses)) /\ View(t, refuses).next \in Plans
  BY ActsFit DEF Duplicate, Acts
<1> QED
  BY <1>1, <1>2, <1>3, DuplicateHandled, HandledStep DEF Steps

LEMMA RenameSteps ==
    ASSUME TabsInv, NEW t \in Tabs, Rename(t)
    PROVE  Steps(t)
<1>1. PICK refuses \in SUBSET Kinds : Becomes(t, RenamePlan(View(t, refuses), tabs[t].active))
  BY DEF Rename, Acts, Runs, Kinds
<1>2. spent' \in Counts /\ choice' \in Sources
  BY SpentType DEF Rename, Acts, Runs, Spend, TabsInv
<1>3. Fit(View(t, refuses))
  BY ActsFit DEF Rename, Acts
<1> QED
  BY <1>1, <1>2, <1>3, RenameHandled, HandledStep DEF Steps

LEMMA DeleteSteps ==
    ASSUME TabsInv, NEW t \in Tabs, Delete(t)
    PROVE  Steps(t)
<1>1. PICK refuses \in SUBSET Kinds : Becomes(t, DeletePlan(View(t, refuses), tabs[t].active))
  BY DEF Delete, Acts, Runs, Kinds
<1>2. spent' \in Counts /\ choice' \in Sources
  BY SpentType DEF Delete, Acts, Runs, Spend, TabsInv
<1>3. /\ Fit(View(t, refuses)) /\ View(t, refuses).next \in Plans
      /\ View(t, refuses).tab = tabs[t]
  BY ActsFit DEF Delete, Acts
<1>4. Handled(View(t, refuses), DeletePlan(View(t, refuses), tabs[t].active))
  BY <1>3, DeleteHandled
<1> QED
  BY <1>1, <1>2, <1>4, HandledStep DEF Steps

LEMMA ImportSteps ==
    ASSUME TabsInv, NEW t \in Tabs, Import(t)
    PROVE  Steps(t)
<1>1. PICK refuses \in SUBSET Kinds : Becomes(t, ImportPlanAsNew(View(t, refuses), MaxEdits + 1))
  BY DEF Import, Acts, Runs, Kinds
<1>2. spent' \in Counts /\ choice' \in Sources
  BY SpentType DEF Import, Acts, Runs, Spend, TabsInv
<1>3. Fit(View(t, refuses)) /\ View(t, refuses).next \in Plans /\ MaxEdits + 1 \in Nat
  BY ActsFit, PlanTabsAssumption DEF Import, Acts
<1> QED
  BY <1>1, <1>2, <1>3, ImportHandled, HandledStep DEF Steps

LEMMA PickSteps ==
    ASSUME TabsInv, NEW t \in Tabs, NEW s \in Bundled, PickBundled(t, s)
    PROVE  Steps(t)
<1> DEFINE S == View(t, {})
           T == [RemoveCustomPlans(S, NoSource) EXCEPT !.tab.status = Status("loading", s)]
<1>1. Becomes(t, T) /\ {} \in SUBSET Kinds
  BY DEF PickBundled
<1>2. spent' \in Counts /\ choice' \in Sources
  BY SpentType DEF PickBundled, Spend, TabsInv, Sources
<1>3. Settled(S)
  BY DEF TabsInv
<1>4. Status("loading", s) \in Statuses
  BY DEF Status, Statuses, Sources
<1> HIDE DEF S
<1>5. Settled(T) /\ Safe(S, T)
  BY <1>3, <1>4, PickSafe
<1> HIDE DEF T
<1>6. T \in Views
  BY <1>5 DEF Settled, Stocked
<1> QED
  BY <1>1, <1>2, <1>5, <1>6, BecomesFollows DEF Steps, StepOf, S

LEMMA LoadSteps ==
    ASSUME TabsInv, NEW t \in Tabs, DataLoaded(t)
    PROVE  Steps(t)
<1>1. PICK refuses \in SUBSET Kinds :
         /\ Becomes(t, Load(View(t, refuses)))
         /\ spent' = IF refuses = {} THEN spent ELSE [spent EXCEPT !.refusals = @ + 1]
  BY DEF DataLoaded, Kinds
<1> DEFINE S == View(t, refuses)
           T == Load(S)
<1>2. spent' \in Counts /\ choice' \in Sources
  BY <1>1, SpentType DEF DataLoaded, TabsInv
<1>3. Settled(S) /\ S \in Views /\ S.next = next
  BY ViewSettled
<1> HIDE DEF S
<1>4. S.next \in Plans
  <2>1. next \in Nat /\ next < MaxPlans
    BY <1>3 DEF Views, DataLoaded, CanDraw
  <2>2. next # 0
    BY DEF TabsInv
  <2> QED
    BY <1>3, <2>1, <2>2, PlanStoreAssumption DEF Plans
<1>5. Fit(T) /\ Safe(S, T)
  BY <1>3, <1>4, LoadSafe
<1> HIDE DEF T
<1>6. T \in Views /\ Settled(T)
  BY <1>5, FitViews DEF Settled, Fit, Ready
<1>7. Becomes(t, T)
  BY <1>1 DEF T, S
<1> QED
  BY <1>2, <1>5, <1>6, <1>7, BecomesFollows DEF Steps, StepOf, S


LEMMA UploadSteps ==
    ASSUME TabsInv, NEW t \in Tabs, NEW s \in Uploads, Upload(t, s)
    PROVE  Steps(t)
<1> DEFINE u == [tabs[t] EXCEPT !.status = Status("loading", s)]
           S == View(t, {})
<1>1. S \in Views /\ Settled(S) /\ S.tab = tabs[t]
  BY ViewSettled DEF TabsInv
<1>2. Status("loading", s) \in Statuses
  BY DEF Status, Statuses, Sources
<1>3. u \in TabViews
  BY <1>2 DEF TabsInv, TabViews
<1>4. Settled([S EXCEPT !.tab = u])
  <2>1. [S EXCEPT !.tab.status = Status("loading", s)] = [S EXCEPT !.tab = u]
    BY <1>1
  <2> HIDE DEF S, u
  <2> QED
    BY <1>1, <1>2, <2>1, StatusSettled
<1>5. tabs' = [tabs EXCEPT ![t] = u] /\ UNCHANGED <<storage, next, history>>
  BY DEF Upload
<1> HIDE DEF u
<1>6. StepOf(t)
  BY <1>3, <1>4, <1>5, TabStep
<1>7. spent' \in Counts /\ choice' \in Sources
  BY SpentType DEF Upload, Spend, TabsInv, Sources
<1> QED
  BY <1>6, <1>7 DEF Steps

LEMMA FailSteps ==
    ASSUME TabsInv, NEW t \in Tabs, DataFails(t)
    PROVE  Steps(t)
<1> DEFINE status == Status("error", tabs[t].status.id)
           u == [tabs[t] EXCEPT !.status = status]
           S == View(t, {})
<1>1. S \in Views /\ Settled(S) /\ S.tab = tabs[t]
  BY ViewSettled DEF TabsInv
<1>2. status \in Statuses
  BY DEF Status, Statuses, TabsInv, TabViews
<1> HIDE DEF status
<1>3. u \in TabViews
  BY <1>2 DEF TabsInv, TabViews
<1>4. Settled([S EXCEPT !.tab = u])
  <2>1. [S EXCEPT !.tab.status = status] = [S EXCEPT !.tab = u]
    BY <1>1
  <2> HIDE DEF S, u
  <2> QED
    BY <1>1, <1>2, <2>1, StatusSettled
<1>5. tabs' = [tabs EXCEPT ![t] = u] /\ UNCHANGED <<storage, next, history>>
  BY DEF DataFails, status, TabsInv, TabViews, vars
<1> HIDE DEF u
<1>6. StepOf(t)
  BY <1>3, <1>4, <1>5, TabStep
<1>7. spent' \in Counts /\ choice' \in Sources
  BY DEF DataFails, TabsInv
<1> QED
  BY <1>6, <1>7 DEF Steps

LEMMA ReloadSteps ==
    ASSUME TabsInv, NEW t \in Tabs, Reload(t)
    PROVE  Steps(t)
<1> DEFINE u == NewTab(Status("loading", choice))
           S == View(t, {})
           T == [S EXCEPT !.tab = u]
<1>1. S \in Views /\ Stocked(S)
  BY DEF TabsInv, Settled, Stocked
<1>2. Status("loading", choice) \in Statuses
  BY DEF Status, Statuses, TabsInv
<1>3. u \in TabViews /\ u.source = NoSource
  BY <1>2, NewTabType
<1>4. Settled(T)
  <2> HIDE DEF S, u
  <2>1. T \in Views /\ Only(S, T, {"tab"}) /\ T.tab = u
    BY <1>1, <1>3 DEF Views, Only, ViewFields
  <2> HIDE DEF T
  <2>2. T.docs = S.docs /\ T.index = S.index /\ T.next = S.next
    BY <2>1 DEF Only, ViewFields
  <2> QED
    BY <1>1, <1>3, <2>1, <2>2 DEF Settled, Stocked, OwnDocs, Drew
<1>5. tabs' = [tabs EXCEPT ![t] = u] /\ UNCHANGED <<storage, next, history>>
  BY DEF Reload
<1> HIDE DEF u
<1>6. StepOf(t)
  BY <1>3, <1>4, <1>5, TabStep
<1>7. spent' \in Counts /\ choice' \in Sources
  BY SpentType DEF Reload, Spend, TabsInv
<1> QED
  BY <1>6, <1>7 DEF Steps

LEMMA DieSteps ==
    ASSUME TabsInv, NEW t \in Tabs, DieMigrating(t)
    PROVE  Steps(t)
<1> DEFINE S == View(t, {})
           s == tabs[t].status.id
           status == Status("loading", choice)
           P == Prepare(S, s)
           list == StoredList(P, s)
           R == ReadIndex(P, s)
<1>1. PICK listed \in BOOLEAN :
         /\ R.legacy[LegacyKey(R, s, list)] # Absent
         /\ Becomes(t, [MigrateAndDie(R, s, list, listed) EXCEPT !.tab = NewTab(status)])
  BY DEF DieMigrating
<1> DEFINE T == [MigrateAndDie(R, s, list, listed) EXCEPT !.tab = NewTab(status)]
<1>2. spent' \in Counts /\ choice' \in Sources
  BY SpentType DEF DieMigrating, Spend, TabsInv
<1>3. Settled(S) /\ Stocked(S) /\ S \in Views /\ S.next = next
  BY ViewSettled DEF TabsInv, Settled
<1>4. s \in Sources /\ status \in Statuses
  BY DEF Status, Statuses, TabsInv, TabViews
<1> HIDE DEF S, s, status
<1>5. S.next \in Plans
  <2>1. next \in Nat /\ next < MaxPlans
    BY <1>3 DEF Views, DieMigrating, CanDraw
  <2> QED
    BY <1>3, <2>1, PlanStoreAssumption DEF Plans, TabsInv
<1>6. Settled(T) /\ Safe(S, T)
  BY <1>1, <1>3, <1>4, <1>5, DieSafe
<1>7. Becomes(t, T) /\ {} \in SUBSET Kinds
  BY <1>1
<1> HIDE DEF T
<1>8. T \in Views
  BY <1>6 DEF Settled, Stocked
<1> QED
  BY <1>2, <1>6, <1>7, <1>8, BecomesFollows DEF Steps, StepOf, S

LEMMA EventSteps ==
    ASSUME TabsInv, NEW t \in Tabs, StorageEvent(t)
    PROVE  Steps(t)
<1>1. Becomes(t, Sync(View(t, {}))) /\ {} \in SUBSET Kinds
  BY DEF StorageEvent
<1>2. spent' \in Counts /\ choice' \in Sources
  BY DEF StorageEvent, TabsInv
<1>3. Fit(View(t, {}))
  BY <1>1, ViewSettled DEF StorageEvent, IsLoaded
<1>4. Handled(View(t, {}), Sync(View(t, {})))
  BY <1>3, SyncHandled
<1> QED
  BY <1>1, <1>2, <1>4, HandledStep DEF Steps

LEMMA NextSteps ==
    ASSUME TabsInv, Next
    PROVE  \E t \in Tabs : Steps(t)
<1>1. PICK t \in Tabs :
         \/ Edit(t) \/ Switch(t) \/ Create(t) \/ Duplicate(t) \/ Rename(t) \/ Delete(t)
         \/ Import(t) \/ (\E s \in Bundled : PickBundled(t, s)) \/ (\E u \in Uploads : Upload(t, u))
         \/ DataLoaded(t) \/ DataFails(t) \/ Reload(t) \/ DieMigrating(t) \/ StorageEvent(t)
  BY DEF Next
<1> QED
  BY <1>1, EditSteps, SwitchSteps, CreateSteps, DuplicateSteps, RenameSteps, DeleteSteps,
     ImportSteps, PickSteps, UploadSteps, LoadSteps, FailSteps, ReloadSteps, DieSteps, EventSteps

LEMMA StutterInv ==
    ASSUME TabsInv, UNCHANGED vars
    PROVE  TabsInv'
<1>1. \A t \in Tabs : View(t, {})' = View(t, {})
  BY DEF vars, storage, history, View
<1>2. spent' = spent /\ choice' = choice /\ tabs' = tabs /\ next' = next
  BY DEF vars
<1>3. \A t \in Tabs : Settled(View(t, {})')
  BY <1>1 DEF TabsInv
<1> QED
  BY <1>2, <1>3 DEF TabsInv

LEMMA NextInv ==
    ASSUME TabsInv, [Next]_vars
    PROVE  TabsInv'
<1>1. CASE Next
  BY <1>1, NextSteps, StepKeeps DEF Steps
<1> QED
  BY <1>1, StutterInv

(* The invariant: every tab, over the storage shared, is in a view that     *)
(* each handler of store/persistence.ts may start from.                     *)
THEOREM TabsInvariant == Spec => []TabsInv
<1>1. Init => TabsInv
  BY InitInv
<1>2. TabsInv /\ [Next]_vars => TabsInv'
  BY NextInv
<1> QED
  BY <1>1, <1>2, PTL DEF Spec

(* What is stored under a plan's key, and what a tab on the plan shows, was *)
(* made in that plan or migrated into it.                                   *)
THEOREM TabsOwnContent == Spec => []OwnContent
<1>1. TabsInv => OwnContent
  <2> SUFFICES ASSUME TabsInv
               PROVE  OwnContent
    OBVIOUS
  <2>1. PICK t \in Tabs : TRUE
    BY PlanTabsAssumption
  <2>2. View(t, {}).docs = docs /\ OwnDocs(View(t, {}))
    BY DEF View, TabsInv, Settled, Stocked
  <2>3. \A s \in Sources, p \in Plans :
           docs[s][p].kind = "plan" => docs[s][p].plan \in {p, 0}
    BY <2>2 DEF OwnDocs
  <2>4. ASSUME NEW u \in Tabs, tabs[u].source # NoSource
        PROVE  tabs[u].shown.plan \in {tabs[u].active, 0}
    <3>1. Fit(View(u, {})) /\ View(u, {}).tab = tabs[u]
      BY <2>4, ViewSettled
    <3> QED
      BY <3>1 DEF Fit, OnScreen
  <2> QED
    BY <2>3, <2>4 DEF OwnContent
<1> QED
  BY <1>1, TabsInvariant, PTL

(* What a step does to the storage, seen past the views.                    *)
LEMMA NextSafe ==
    ASSUME TabsInv, [Next]_vars
    PROVE  /\ \A s \in Sources, p \in Plans :
                docs[s][p] = Corrupt /\ docs'[s][p].kind = "plan"
                    => PlanKey(s, p) \in copies' \cup uncopied'
           /\ \A s \in Sources :
                index[s] = Corrupt /\ Readable(index'[s])
                    => IndexKey(s) \in copies' \cup uncopied'
           /\ \A k \in DOMAIN legacy :
                legacy'[k] # legacy[k] =>
                    \/ k \in Uploads /\ index'[k] = Absent
                    \/ \E s \in Sources, p \in Plans :
                         /\ p \in Listed(index'[s])
                         /\ docs'[s][p] = legacy[k] \/ PlanKey(s, p) \in copies' \cup uncopied'
<1>1. CASE UNCHANGED vars
  <2>1. docs' = docs /\ index' = index /\ legacy' = legacy
    BY <1>1 DEF vars, storage
  <2> QED
    BY <2>1, CorruptKinds
<1>2. CASE Next
  <2> PICK t \in Tabs, refuses \in SUBSET Kinds : \E T : Safe(View(t, refuses), T) /\ Follows(t, T)
    BY <1>2, NextSteps DEF Steps, StepOf
  <2>1. PICK T : Safe(View(t, refuses), T) /\ Follows(t, T)
    OBVIOUS
  <2> DEFINE S == View(t, refuses)
  <2>2. S.docs = docs /\ S.index = index /\ S.legacy = legacy
    BY DEF View
  <2>3. S \in Views
    BY ViewSettled
  <2>4. DOMAIN legacy = Sources \cup {NoSource}
    <3> HIDE DEF S
    <3> QED
      BY <2>2, <2>3 DEF Views
  <2>5. /\ docs' = T.docs /\ index' = T.index /\ legacy' = T.legacy
        /\ copies' \cup uncopied' = Seen(T)
    BY <2>1 DEF Follows, Seen
  <2>6. Safe(S, T)
    BY <2>1
  <2> HIDE DEF S
  <2> QED
    BY <2>2, <2>4, <2>5, <2>6 DEF Safe, Migrated
<1> QED
  BY <1>1, <1>2

(* Nothing unreadable is overwritten before its copy was made or refused.   *)
THEOREM TabsUnreadableKept == Spec => UnreadableKept
<1>1. TabsInv /\ [Next]_vars =>
        [/\ \A s \in Sources, p \in Plans :
              docs[s][p] = Corrupt /\ docs'[s][p].kind = "plan"
                  => PlanKey(s, p) \in copies' \cup uncopied'
         /\ \A s \in Sources :
              index[s] = Corrupt /\ Readable(index'[s])
                  => IndexKey(s) \in copies' \cup uncopied']_vars
  BY NextSafe
<1> QED
  BY <1>1, TabsInvariant, PTL DEF Spec, UnreadableKept

(* A plan under a key of an older version leaves it only for a listed plan, *)
(* or with its upload.                                                      *)
THEOREM TabsLegacyKept == Spec => LegacyKept
<1>1. TabsInv /\ [Next]_vars =>
        [\A k \in DOMAIN legacy :
           legacy'[k] # legacy[k] =>
              \/ k \in Uploads /\ index'[k] = Absent
              \/ \E s \in Sources, p \in Plans :
                   /\ p \in Listed(index'[s])
                   /\ docs'[s][p] = legacy[k] \/ PlanKey(s, p) \in copies' \cup uncopied']_vars
  BY NextSafe
<1> QED
  BY <1>1, TabsInvariant, PTL DEF Spec, LegacyKept

-----------------------------------------------------------------------------
(* Plans that are gone stay gone.  A plan has one home, the data set it was *)
(* drawn for: it is stored and listed there or nowhere.                     *)
Homes(own, S) ==
    /\ \A r \in Sources, p \in Plans : S.docs[r][p] # Absent => own[p] = r
    /\ \A r \in Sources : \A p \in Listed(S.index[r]) : own[p] = r
    /\ \A r \in Sources : Readable(S.index[r]) => Distinct(S.index[r].plans)
    /\ \A u \in Uploads : S.index[u] # Corrupt
    /\ \A p \in S.gone \cup S.deleted : p < S.next
NoneBack(S) ==
    \A p \in S.gone \ S.unlisted, r \in Sources :
        S.docs[r][p] = Absent /\ p \notin Listed(S.index[r])
Tidy(own, S) == Homes(own, S) /\ NoneBack(S)

(* What a tab knows of the shared list: its plans are those it merged last, *)
(* those it could not list, and those deleted since.                        *)
Housed(own, S, list) == Distinct(list) /\ \A p \in ToSet(list) : own[p] = S.tab.source
Agrees(S) ==
    LET t == S.tab IN
    /\ t.pending \subseteq S.unlisted
    /\ Readable(t.synced) => ToSet(t.list) \subseteq Listed(t.synced) \cup t.pending
    /\ Listed(t.synced) \subseteq ToSet(t.list) \cup S.deleted
    /\ t.source \in Bundled /\ ~Readable(S.index[t.source]) => ToSet(t.list) \subseteq t.pending
    /\ ToSet(t.list) \subseteq t.pending \cup Listed(S.index[t.source]) \cup S.deleted
Homed(own, S) == Tidy(own, S) /\ Housed(own, S, S.tab.list) /\ Agrees(S)

(* A list that may be written as the shared one: all it leaves out was      *)
(* deleted, and it brings nothing back.                                     *)
Current(own, S, list) ==
    LET t == S.tab IN
    /\ Housed(own, S, list)
    /\ ~t.removed => ToSet(list) \cap S.gone \subseteq S.unlisted
    /\ Listed(S.index[t.source]) \cup Listed(t.synced) \subseteq ToSet(list) \cup S.deleted
    /\ Readable(S.index[t.source]) /\ Readable(t.synced) => t.synced = S.index[t.source]

(* What a step does that the other tabs rely on: a plan leaves a shared     *)
(* list only when it is deleted.                                            *)
Grows(S, T) ==
    /\ S.deleted \subseteq T.deleted /\ S.unlisted \subseteq T.unlisted
    /\ \A r \in Sources : Listed(S.index[r]) \subseteq Listed(T.index[r]) \cup T.deleted
    /\ \A r \in Bundled : Readable(S.index[r]) => Readable(T.index[r])

LEMMA GrowsItself ==
    ASSUME NEW S, NEW T, T.index = S.index, S.deleted \subseteq T.deleted,
           S.unlisted \subseteq T.unlisted
    PROVE  Grows(S, T)
BY DEF Grows

LEMMA GrowsBoth ==
    ASSUME NEW S, NEW T, NEW U, Grows(S, T), Grows(T, U)
    PROVE  Grows(S, U)
<1>1. \A r \in Sources : Listed(S.index[r]) \subseteq Listed(U.index[r]) \cup U.deleted
  BY DEF Grows
<1>2. \A r \in Bundled : Readable(S.index[r]) => Readable(U.index[r])
  BY DEF Grows
<1> QED
  BY <1>1, <1>2 DEF Grows

(* Writing the keys of plans at home there, none of them gone.              *)
LEMMA TidyDocs ==
    ASSUME NEW own, NEW S, NEW T, Tidy(own, S),
           T.index = S.index, T.gone = S.gone, T.deleted = S.deleted, T.unlisted = S.unlisted,
           T.next = S.next,
           \A r \in Sources, p \in Plans :
               \/ T.docs[r][p] = S.docs[r][p] \/ T.docs[r][p] = Absent
               \/ own[p] = r /\ p \notin S.gone \ S.unlisted,
           S.gone \subseteq Plans
    PROVE  Tidy(own, T)
<1>1. Homes(own, T)
  <2>1. \A r \in Sources, p \in Plans : T.docs[r][p] # Absent => own[p] = r
    BY DEF Tidy, Homes
  <2> QED
    BY <2>1 DEF Tidy, Homes
<1>2. NoneBack(T)
  BY DEF Tidy, NoneBack
<1> QED
  BY <1>1, <1>2 DEF Tidy

(* A tab that merges the shared list, or has no need to, may write its own. *)
LEMMA SyncedHomed ==
    ASSUME NEW own, NEW S, NEW T, Fit(S), Fit(T), Synced(S, T), IsLoaded(S.tab), Homed(own, S)
    PROVE  /\ Homed(own, T) /\ Current(own, T, T.tab.list) /\ Grows(S, T)
           /\ S.tab.removed => T.tab.removed
           /\ T.tab.synced = S.tab.synced \/ T.tab.synced = S.index[S.tab.source]
<1> DEFINE s == S.tab.source
           raw == S.index[s]
<1>1. /\ S \in Views /\ T \in Views /\ s \in Sources /\ raw \in Indexes
      /\ S.tab.active \in ToSet(S.tab.list) /\ T.tab.active \in ToSet(T.tab.list)
      /\ T.tab.active \in Plans
  <2>1. S \in Views /\ T \in Views /\ Opens(S) /\ Opens(T)
    BY FitViews
  <2>2. S.tab.source \in Sources /\ S.tab.active \in ToSet(S.tab.list)
        /\ T.tab.active \in ToSet(T.tab.list) /\ T.tab.active \in Plans
    BY <2>1, OpenType DEF Opens
  <2> QED
    BY <2>1, <2>2 DEF Views
<1>2. /\ T.index = S.index /\ T.gone = S.gone /\ T.deleted = S.deleted /\ T.unlisted = S.unlisted
      /\ T.next = S.next /\ T.tab.source = s
  BY DEF Synced, Only, OnlyTab, ViewFields, TabFields, SyncViews, SyncFields
<1>3. Grows(S, T)
  BY <1>2, GrowsItself
<1>4. /\ Tidy(own, S) /\ Homes(own, S) /\ NoneBack(S) /\ Housed(own, S, S.tab.list) /\ Agrees(S)
      /\ S.gone \subseteq Plans
  BY <1>1 DEF Homed, Tidy, Views
<1>5. Listed(raw) \cap S.gone \subseteq S.unlisted
  BY <1>1, <1>4 DEF NoneBack
<1>6. Readable(raw) => Listed(raw) = ToSet(raw.plans) /\ Distinct(raw.plans)
  BY <1>1, <1>4, IndexKinds DEF Homes
<1>7. \A p \in Listed(raw) : own[p] = s
  BY <1>1, <1>4 DEF Homes
<1>8. CASE Quiet(S, T)
  <2>1. /\ T.docs = S.docs /\ T.tab.list = S.tab.list /\ T.tab.pending = S.tab.pending
        /\ T.tab.synced = S.tab.synced
    BY <1>8 DEF Quiet, Only, OnlyTab, ViewFields, TabFields
  <2>2. Tidy(own, T)
    BY <1>2, <1>4, <2>1 DEF Tidy, Homes, NoneBack
  <2>3. Housed(own, T, T.tab.list) /\ Agrees(T)
    BY <1>2, <1>4, <2>1 DEF Housed, Agrees
  <2>4. ~Readable(raw) \/ (S.tab.pending = {} /\ S.tab.synced = raw)
    BY <1>8 DEF Quiet
  <2>5. ASSUME ~T.tab.removed, ~Readable(raw)
        PROVE  ToSet(T.tab.list) \subseteq S.unlisted
    <3>1. CASE s \in Bundled
      BY <1>4, <2>1, <2>5, <3>1 DEF Agrees
    <3>2. CASE s \in Uploads
      <4>1. raw = Absent
        BY <1>1, <1>4, <2>5, <3>2, IndexKinds DEF Homes
      <4>2. ToSet(S.tab.list) \subseteq S.tab.pending
        BY <1>8, <2>5, <3>2, <4>1 DEF Quiet
      <4> QED
        BY <1>4, <2>1, <4>2 DEF Agrees
    <3> QED
      BY <1>1, <3>1, <3>2 DEF Sources
  <2>6. ASSUME Readable(raw)
        PROVE  ToSet(T.tab.list) \cap S.gone \subseteq S.unlisted
    <3>1. S.tab.pending = {} /\ S.tab.synced = raw
      BY <2>4, <2>6
    <3> QED
      BY <1>4, <1>5, <2>1, <2>6, <3>1 DEF Agrees
  <2>7. ~Readable(raw) => Listed(raw) = {}
    BY DEF Listed
  <2>8. Listed(raw) \cup Listed(T.tab.synced) \subseteq ToSet(T.tab.list) \cup S.deleted
    BY <1>4, <2>1, <2>4, <2>7 DEF Agrees
  <2>9. Current(own, T, T.tab.list)
    BY <1>2, <2>1, <2>3, <2>4, <2>5, <2>6, <2>8 DEF Current
  <2>10. S.tab.removed => T.tab.removed
    BY <1>8 DEF Quiet
  <2> QED
    BY <1>3, <2>1, <2>2, <2>3, <2>9, <2>10 DEF Homed
<1>9. CASE Merging(S, T) /\ T.tab.removed = S.tab.removed
  <2>1. /\ Readable(raw) /\ T.tab.synced = raw
        /\ T.tab.pending = S.tab.pending \ Listed(raw)
        /\ ToSet(T.tab.list) = Listed(raw) \cup (T.tab.pending \cap ToSet(S.tab.list))
        /\ Distinct(raw.plans) /\ Distinct(S.tab.list) => Distinct(T.tab.list)
    BY <1>6, <1>9 DEF Merging
  <2>2. Housed(own, T, T.tab.list)
    BY <1>2, <1>4, <1>6, <1>7, <2>1 DEF Housed
  <2>3. S.tab.pending \subseteq S.unlisted
    BY <1>4 DEF Agrees
  <2>4. ToSet(T.tab.list) \cap S.gone \subseteq S.unlisted
    BY <1>5, <2>1, <2>3
  <2>5. Tidy(own, T)
    <3>1. own[T.tab.active] = s /\ T.tab.active \notin S.gone \ S.unlisted
      BY <1>1, <1>2, <2>2, <2>4 DEF Housed
    <3>2. \A r \in Sources, p \in Plans :
            \/ T.docs[r][p] = S.docs[r][p] \/ T.docs[r][p] = Absent
            \/ own[p] = r /\ p \notin S.gone \ S.unlisted
      BY <1>2, <1>9, <3>1 DEF Merging, Rewrites
    <3> QED
      BY <1>2, <1>4, <3>2, TidyDocs
  <2>6. Agrees(T)
    BY <1>2, <2>1, <2>3 DEF Agrees
  <2>7. Current(own, T, T.tab.list)
    BY <1>2, <2>1, <2>2, <2>4 DEF Current
  <2> QED
    BY <1>3, <1>9, <2>1, <2>2, <2>5, <2>6, <2>7 DEF Homed
<1> QED
  BY <1>8, <1>9 DEF Synced

(* What leaves the lists as they are. *)
SameLists(S, T) ==
    /\ T.index = S.index /\ T.gone = S.gone /\ T.deleted = S.deleted /\ T.unlisted = S.unlisted
    /\ T.next = S.next
    /\ T.tab.source = S.tab.source /\ T.tab.list = S.tab.list /\ T.tab.pending = S.tab.pending
    /\ T.tab.synced = S.tab.synced /\ T.tab.removed = S.tab.removed
    /\ T.tab.status = S.tab.status

LEMMA SameHomed ==
    ASSUME NEW own, NEW S, NEW T, SameLists(S, T), Homed(own, S), S.gone \subseteq Plans,
           \A r \in Sources, p \in Plans :
               \/ T.docs[r][p] = S.docs[r][p] \/ T.docs[r][p] = Absent
               \/ own[p] = r /\ p \notin S.gone \ S.unlisted
    PROVE  /\ Homed(own, T) /\ Grows(S, T) /\ IsLoaded(T.tab) = IsLoaded(S.tab)
           /\ \A list : Current(own, S, list) => Current(own, T, list)
<1>1. Tidy(own, T)
  BY TidyDocs DEF SameLists, Homed
<1>2. Housed(own, T, T.tab.list) /\ Agrees(T)
  BY DEF SameLists, Homed, Housed, Agrees
<1>3. Grows(S, T) /\ IsLoaded(T.tab) = IsLoaded(S.tab)
  BY GrowsItself DEF SameLists, IsLoaded
<1>4. \A list : Current(own, S, list) => Current(own, T, list)
  BY DEF SameLists, Current, Housed
<1> QED
  BY <1>1, <1>2, <1>3, <1>4 DEF Homed

LEMMA StoredHomed ==
    ASSUME NEW own, NEW S, Fit(S), Homed(own, S), Current(own, S, S.tab.list)
    PROVE  LET T == Stored(S)
           IN  /\ Homed(own, T) /\ Current(own, T, T.tab.list) /\ Grows(S, T) /\ T.tab = S.tab
<1> DEFINE T == Stored(S)
<1>1. S \in Views /\ Opens(S) /\ S.gone \subseteq Plans /\ S.tab.active \in ToSet(S.tab.list)
  <2>1. S \in Views /\ Opens(S)
    BY FitViews
  <2> QED
    BY <2>1 DEF Views, Opens
<1>2. Rewrites(S, T) /\ Only(S, T, {"docs", "writer"})
  BY <1>1, StoredRewrites
<1> HIDE DEF T
<1>3. SameLists(S, T) /\ T.tab = S.tab
  BY <1>2 DEF SameLists, Only, ViewFields
<1>4. ~S.tab.removed => own[S.tab.active] = S.tab.source /\ S.tab.active \notin S.gone \ S.unlisted
  BY <1>1 DEF Current, Housed
<1>5. \A r \in Sources, p \in Plans :
        \/ T.docs[r][p] = S.docs[r][p] \/ T.docs[r][p] = Absent
        \/ own[p] = r /\ p \notin S.gone \ S.unlisted
  BY <1>2, <1>3, <1>4 DEF Rewrites
<1>6. Homed(own, T) /\ Grows(S, T) /\ Current(own, T, S.tab.list)
  BY <1>1, <1>3, <1>5, SameHomed
<1> QED
  BY <1>3, <1>6 DEF T

(* What syncing and saving lead to. *)
Saved(own, S, T) ==
    /\ Homed(own, T) /\ Current(own, T, T.tab.list) /\ Grows(S, T)
    /\ IsLoaded(T.tab) /\ (S.tab.removed => T.tab.removed)
    /\ T.tab.synced = S.tab.synced \/ T.tab.synced = S.index[S.tab.source]

LEMMA SyncHomed ==
    ASSUME NEW own, NEW S, Fit(S), IsLoaded(S.tab), Homed(own, S)
    PROVE  Saved(own, S, Sync(S))
<1> DEFINE T == Sync(S)
<1>1. Fit(T) /\ Synced(S, T)
  BY SyncFit
<1> HIDE DEF T
<1>2. /\ Homed(own, T) /\ Current(own, T, T.tab.list) /\ Grows(S, T)
      /\ S.tab.removed => T.tab.removed
      /\ T.tab.synced = S.tab.synced \/ T.tab.synced = S.index[S.tab.source]
  BY <1>1, SyncedHomed
<1>3. IsLoaded(T.tab)
  BY <1>1, SyncKept DEF Kept, IsLoaded
<1> QED
  BY <1>2, <1>3 DEF T, Saved

LEMMA SaveHomed ==
    ASSUME NEW own, NEW S, Fit(S), IsLoaded(S.tab), Homed(own, S)
    PROVE  Saved(own, S, Save(S))
<1> DEFINE Y == Sync(S)
           T == Save(S)
<1>1. Fit(Y) /\ Saved(own, S, Y)
  BY SyncFit, SyncHomed
<1>2. T = Stored(Y)
  <2>1. S.tab.status.kind # "loading"
    BY DEF IsLoaded, Status
  <2> QED
    BY <2>1, SaveFit
<1> HIDE DEF Y, T
<1>3. Homed(own, T) /\ Current(own, T, T.tab.list) /\ Grows(Y, T) /\ T.tab = Y.tab
  BY <1>1, <1>2, StoredHomed DEF Saved
<1>4. Grows(S, T)
  BY <1>1, <1>3, GrowsBoth DEF Saved
<1> QED
  BY <1>1, <1>3, <1>4 DEF Saved, T

(* A list stays current when the tab saves. *)
LEMMA CurrentSaved ==
    ASSUME NEW own, NEW S, NEW T, Kept(S, T), Saved(own, S, T), NEW list, Current(own, S, list)
    PROVE  Current(own, T, list)
<1>1. /\ T.index = S.index /\ T.gone = S.gone /\ T.deleted = S.deleted /\ T.unlisted = S.unlisted
      /\ T.tab.source = S.tab.source
  BY DEF Kept
<1>2. Housed(own, T, list)
  BY <1>1 DEF Current, Housed
<1>3. ~T.tab.removed => ToSet(list) \cap T.gone \subseteq T.unlisted
  BY <1>1 DEF Current, Saved
<1>4. Listed(T.index[T.tab.source]) \cup Listed(T.tab.synced) \subseteq ToSet(list) \cup T.deleted
  BY <1>1 DEF Current, Saved
<1>5. Readable(T.index[T.tab.source]) /\ Readable(T.tab.synced) => T.tab.synced = T.index[T.tab.source]
  BY DEF Current, Saved
<1> QED
  BY <1>2, <1>3, <1>4, <1>5 DEF Current

LEMMA OpenedHomed ==
    ASSUME NEW own, NEW S \in Views, Opens(S), NEW raw \in Contents, Homed(own, S)
    PROVE  LET T == Opened(S, raw)
           IN  Homed(own, T) /\ Grows(S, T) /\ IsLoaded(T.tab) = IsLoaded(S.tab)
<1> DEFINE T == Opened(S, raw)
<1>1. S.tab.source \in Sources /\ S.tab.active \in Plans /\ S.gone \subseteq Plans
  BY OpenType DEF Opens, Views
<1>2. /\ Only(S, T, {"docs", "copies", "uncopied", "tab"}) /\ OnlyTab(S.tab, T.tab, {"shown"})
  BY <1>1, OpenedFacts
<1>3. \A r \in Sources, p \in Plans : T.docs[r][p] = S.docs[r][p] \/ T.docs[r][p] = Absent
  BY OpenedRewrites
<1> HIDE DEF T
<1>4. SameLists(S, T)
  BY <1>2 DEF SameLists, Only, ViewFields, OnlyTab, TabFields
<1> QED
  BY <1>1, <1>3, <1>4, SameHomed DEF T

(* A stored plan, or none, replaces the one on screen. *)
LEMMA LoadHomed ==
    ASSUME NEW own, NEW S, Ready(S), NEW raw \in Contents, Fit(Opened(S, raw)),
           IsLoaded(S.tab), Homed(own, S)
    PROVE  LET T == LoadActivePlan(S, raw)
           IN  Homed(own, T) /\ Grows(S, T) /\ IsLoaded(T.tab)
<1> DEFINE O == Opened(S, raw)
           T == Save(O)
<1>1. Homed(own, O) /\ Grows(S, O) /\ IsLoaded(O.tab)
  BY OpenedHomed DEF Ready, Stocked
<1>2. LoadActivePlan(S, raw) = T /\ Fit(O)
  BY DEF LoadActivePlan
<1> HIDE DEF O
<1>3. Saved(own, O, T)
  BY <1>1, <1>2, SaveHomed
<1> HIDE DEF T
<1>4. Grows(S, T)
  BY <1>1, <1>3, GrowsBoth DEF Saved
<1> QED
  BY <1>2, <1>3, <1>4 DEF Saved

LEMMA OpenActiveHomed ==
    ASSUME NEW own, NEW S, Ready(S), IsLoaded(S.tab), Homed(own, S)
    PROVE  LET T == OpenActive(S)
           IN  Homed(own, T) /\ Grows(S, T) /\ IsLoaded(T.tab)
<1>1. ActiveDoc(S) \in Contents
  <2>1. S \in Views /\ S.tab.source \in Sources /\ S.tab.active \in Plans
    BY OpenType DEF Ready, Stocked, Opens
  <2> QED
    BY <2>1 DEF ActiveDoc, Views
<1>2. Fit(Opened(S, ActiveDoc(S)))
  BY OpenedFit
<1>3. OpenActive(S) = LoadActivePlan(S, ActiveDoc(S))
  BY DEF OpenActive
<1> QED
  BY <1>1, <1>2, <1>3, LoadHomed

LEMMA ShowHomed ==
    ASSUME NEW own, NEW S, Ready(S), ActiveKept(S), NEW c \in Contents,
           c.kind = "plan", c.plan \in {S.tab.active, 0}, IsLoaded(S.tab), Homed(own, S)
    PROVE  LET T == Show(S, c)
           IN  Homed(own, T) /\ Grows(S, T) /\ IsLoaded(T.tab)
<1> DEFINE R == [S EXCEPT !.tab.shown = c]
           T == Save(R)
<1>1. S \in Views /\ S.gone \subseteq Plans
  BY DEF Ready, Stocked, Views
<1>2. R \in Views /\ Only(S, R, {"tab"}) /\ OnlyTab(S.tab, R.tab, {"shown"}) /\ R.tab.shown = c
  BY <1>1, ShownFacts
<1>3. Show(S, c) = T
  BY DEF Show
<1> HIDE DEF R
<1>4. /\ R.index = S.index /\ R.docs = S.docs /\ R.next = S.next
      /\ R.copies = S.copies /\ R.uncopied = S.uncopied
      /\ R.tab.source = S.tab.source /\ R.tab.list = S.tab.list /\ R.tab.active = S.tab.active
      /\ SameLists(S, R)
  BY <1>2 DEF Only, ViewFields, OnlyTab, TabFields, SameLists
<1>5. Seen(R) = Seen(S)
  BY <1>4 DEF Seen
<1>6. Fit(R)
  BY <1>2, <1>4, <1>5 DEF Fit, Ready, Stocked, OwnDocs, Drew, Opens, OnScreen, ActiveKept
<1>7. Homed(own, R) /\ Grows(S, R) /\ IsLoaded(R.tab)
  BY <1>1, <1>4, SameHomed
<1>8. Saved(own, R, T)
  BY <1>6, <1>7, SaveHomed
<1> HIDE DEF T
<1>9. Grows(S, T)
  BY <1>7, <1>8, GrowsBoth DEF Saved
<1> QED
  BY <1>3, <1>8, <1>9 DEF Saved

-----------------------------------------------------------------------------
(* Writing the list, and the plan actions. *)
LEMMA IndexListed ==
    ASSUME NEW list, NEW hint
    PROVE  Readable(Index(list, hint)) /\ Listed(Index(list, hint)) = ToSet(list)
           /\ Index(list, hint).plans = list
BY DEF Readable, Listed, Index

LEMMA PersistedHomed ==
    ASSUME NEW own, NEW S \in Views, NEW T, S.tab.source \in Sources,
           Tidy(own, S), NEW list, Current(own, S, list),
           T.docs = S.docs, T.gone = S.gone, T.deleted = S.deleted, T.next = S.next,
           T.tab.source = S.tab.source, T.tab.removed = S.tab.removed, T.tab.list = list,
           (\E hint : Written(S, T, list, hint)) \/ Unwritten(S, T, list)
    PROVE  Homed(own, T) /\ Current(own, T, list) /\ Grows(S, T)
<1> DEFINE s == S.tab.source
<1>1. /\ S.index \in [Sources -> Indexes]
      /\ Homes(own, S) /\ NoneBack(S) /\ Housed(own, T, list)
  BY DEF Views, Tidy, Current, Housed
<1>2. ASSUME NEW hint, Written(S, T, list, hint)
      PROVE  Homed(own, T) /\ Current(own, T, list) /\ Grows(S, T)
  <2>1. /\ ~S.tab.removed /\ T.tab.synced = Index(list, hint) /\ T.tab.pending = {}
        /\ T.unlisted = S.unlisted
        /\ \A r \in Sources : T.index[r] = IF r = s THEN Index(list, hint) ELSE S.index[r]
    BY <1>1, <1>2 DEF Written
  <2>2. /\ Readable(Index(list, hint)) /\ Listed(Index(list, hint)) = ToSet(list)
        /\ Index(list, hint).plans = list /\ Index(list, hint) # Corrupt
    BY IndexListed DEF Readable, Corrupt
  <2>3. Homes(own, T)
    <3>1. \A r \in Sources : \A p \in Listed(T.index[r]) : own[p] = r
      BY <1>1, <2>1, <2>2 DEF Homes, Current, Housed
    <3>2. \A r \in Sources : Readable(T.index[r]) => Distinct(T.index[r].plans)
      BY <1>1, <2>1, <2>2 DEF Homes, Current, Housed
    <3>3. \A u \in Uploads : T.index[u] # Corrupt
      BY <1>1, <2>1, <2>2 DEF Homes, Sources
    <3> QED
      BY <1>1, <3>1, <3>2, <3>3 DEF Homes
  <2>4. NoneBack(T)
    <3>1. \A p \in S.gone \ S.unlisted : p \notin ToSet(list)
      BY <2>1 DEF Current
    <3> QED
      BY <1>1, <2>1, <2>2, <3>1 DEF NoneBack
  <2>5. Agrees(T)
    BY <2>1, <2>2 DEF Agrees
  <2>6. Current(own, T, list)
    BY <1>1, <2>1, <2>2 DEF Current
  <2>7. Grows(S, T)
    <3>1. \A r \in Sources : Listed(S.index[r]) \subseteq Listed(T.index[r]) \cup T.deleted
      BY <2>1, <2>2 DEF Current
    <3>2. \A r \in Bundled : Readable(S.index[r]) => Readable(T.index[r])
      BY <2>1, <2>2 DEF Sources
    <3> QED
      BY <2>1, <3>1, <3>2 DEF Grows
  <2> QED
    BY <1>1, <2>3, <2>4, <2>5, <2>6, <2>7 DEF Homed, Tidy
<1>3. ASSUME Unwritten(S, T, list)
      PROVE  Homed(own, T) /\ Current(own, T, list) /\ Grows(S, T)
  <2>1. /\ T.index = S.index /\ T.tab.synced = S.tab.synced
        /\ T.tab.pending = ToSet(list) \ Listed(S.index[s])
        /\ T.unlisted = S.unlisted \cup T.tab.pending
    BY <1>3 DEF Unwritten
  <2>2. Tidy(own, T)
    <3>1. Homes(own, T)
      BY <1>1, <2>1 DEF Homes
    <3>2. NoneBack(T)
      BY <1>1, <2>1 DEF NoneBack
    <3> QED
      BY <3>1, <3>2 DEF Tidy
  <2>3. ~Readable(S.index[s]) => Listed(S.index[s]) = {}
    BY DEF Listed
  <2>4. Agrees(T)
    <3>1. Readable(T.tab.synced) => ToSet(list) \subseteq Listed(T.tab.synced) \cup T.tab.pending
      BY <2>1, <2>3 DEF Current
    <3>2. Listed(T.tab.synced) \subseteq ToSet(list) \cup T.deleted
      BY <2>1 DEF Current
    <3>3. ~Readable(T.index[s]) => ToSet(list) \subseteq T.tab.pending
      BY <2>1, <2>3
    <3>4. ToSet(list) \subseteq T.tab.pending \cup Listed(T.index[s])
      BY <2>1
    <3> QED
      BY <2>1, <3>1, <3>2, <3>3, <3>4 DEF Agrees
  <2>5. Current(own, T, list)
    BY <1>1, <2>1 DEF Current
  <2>6. Grows(S, T)
    BY <2>1, GrowsItself
  <2> QED
    BY <1>1, <2>2, <2>4, <2>5, <2>6 DEF Homed
<1> QED
  BY <1>2, <1>3

LEMMA CommitHomed ==
    ASSUME NEW own, NEW S, Ready(S), NEW list \in Lists, NEW active \in ToSet(list),
           NEW changed \in BOOLEAN, \A p \in ToSet(list) : p < S.next,
           Tidy(own, S), Current(own, S, list)
    PROVE  LET T == CommitIndex(S, list, active, changed)
           IN  /\ Homed(own, T) /\ Current(own, T, list) /\ Grows(S, T)
               /\ IsLoaded(S.tab) => IsLoaded(T.tab)
<1> DEFINE T == CommitIndex(S, list, active, changed)
<1>1. S \in Views /\ S.tab.source \in Sources
  BY DEF Ready, Stocked, Opens
<1>2. /\ Only(S, T, {"index", "tab", "unlisted"})
      /\ OnlyTab(S.tab, T.tab, {"list", "active", "pending", "synced", "unwritten"})
      /\ T.tab.list = list
      /\ (\E hint : Written(S, T, list, hint)) \/ Unwritten(S, T, list)
  BY CommitReady
<1> HIDE DEF T
<1>3. /\ T.docs = S.docs /\ T.gone = S.gone /\ T.deleted = S.deleted /\ T.next = S.next
      /\ T.tab.source = S.tab.source /\ T.tab.removed = S.tab.removed
      /\ T.tab.status = S.tab.status
  BY <1>2 DEF Only, OnlyTab, ViewFields, TabFields
<1>4. Homed(own, T) /\ Current(own, T, list) /\ Grows(S, T)
  BY <1>1, <1>2, <1>3, PersistedHomed
<1> QED
  BY <1>3, <1>4 DEF T, IsLoaded

(* What a handler leads to. *)
Done(own, S, T) == Homed(own, T) /\ Grows(S, T) /\ IsLoaded(T.tab)

LEMMA DoneBoth ==
    ASSUME NEW own, NEW S, NEW T, NEW U, Grows(S, T), Done(own, T, U)
    PROVE  Done(own, S, U)
BY GrowsBoth DEF Done

LEMMA DrawnTidy ==
    ASSUME NEW own, NEW S \in Views, Tidy(own, S)
    PROVE  LET D == Drawn(S)
           IN  /\ Tidy(own, D) /\ Grows(S, D) /\ S.next \notin S.gone
               /\ D.index = S.index /\ D.docs = S.docs /\ D.gone = S.gone /\ D.deleted = S.deleted
               /\ D.unlisted = S.unlisted /\ D.tab = S.tab /\ D.next = S.next + 1
<1> DEFINE D == Drawn(S)
<1>1. S.next \in Nat /\ S.gone \subseteq Plans /\ S.deleted \subseteq Plans
  BY DEF Views
<1>2. Only(S, D, {"next"}) /\ D.next = S.next + 1
  BY <1>1, DrawnFacts
<1> HIDE DEF D
<1>3. /\ D.index = S.index /\ D.docs = S.docs /\ D.gone = S.gone /\ D.deleted = S.deleted
      /\ D.unlisted = S.unlisted /\ D.tab = S.tab
  BY <1>2 DEF Only, ViewFields
<1>4. \A p \in S.gone \cup S.deleted : p \in Nat /\ p < S.next /\ p < S.next + 1
  BY <1>1 DEF Tidy, Homes, Plans
<1>5. Tidy(own, D)
  BY <1>2, <1>3, <1>4 DEF Tidy, Homes, NoneBack
<1>6. S.next \notin S.gone
  BY <1>1, <1>4
<1>7. Grows(S, D)
  BY <1>3, GrowsItself
<1> QED
  BY <1>2, <1>3, <1>5, <1>6, <1>7 DEF D

(* A plan drawn for the data set of the tab, at the end of a list or in it. *)
LEMMA DrawnCurrent ==
    ASSUME NEW own, NEW S \in Views, own[S.next] = S.tab.source,
           Tidy(own, S), NEW base, Current(own, S, base),
           NEW list, Distinct(list), ToSet(list) = ToSet(base) \cup {S.next}
    PROVE  Current(own, Drawn(S), list)
<1> DEFINE D == Drawn(S)
<1>1. /\ D.index = S.index /\ D.gone = S.gone /\ D.deleted = S.deleted
      /\ D.unlisted = S.unlisted /\ D.tab = S.tab /\ S.next \notin S.gone
  BY DrawnTidy
<1> HIDE DEF D
<1>2. Housed(own, D, list)
  BY <1>1 DEF Current, Housed
<1>3. ~D.tab.removed => ToSet(list) \cap D.gone \subseteq D.unlisted
  BY <1>1 DEF Current
<1>4. Listed(D.index[D.tab.source]) \cup Listed(D.tab.synced) \subseteq ToSet(list) \cup D.deleted
  BY <1>1 DEF Current
<1> QED
  BY <1>1, <1>2, <1>3, <1>4 DEF Current, D

LEMMA AddPlanHomed ==
    ASSUME NEW own, NEW M, Fit(M), M.next \in Plans, own[M.next] = M.tab.source,
           IsLoaded(M.tab), Homed(own, M),
           NEW base, Current(own, M, base), \A p \in ToSet(base) : p <= M.next,
           NEW list \in Lists, Distinct(list), ToSet(list) = ToSet(base) \cup {M.next},
           NEW c \in Contents, c.kind = "plan", c.plan = M.next
    PROVE  Done(own, M, AddPlan(M, list, c))
<1> DEFINE D == Drawn(M)
           C == CommitIndex(D, list, M.next, TRUE)
           T == Show(C, c)
<1>0. M \in Views /\ Ready(M) /\ M.tab.source \in Sources /\ Drew(M)
  BY FitViews DEF Opens
<1>1. Ready(D) /\ D.next = M.next + 1 /\ D.tab = M.tab /\ D.docs = M.docs
  <2>1. D.docs = M.docs
    BY <1>0, DrawnFacts DEF Only, ViewFields
  <2> QED
    BY <1>0, <2>1, DrawnPassed DEF Passed
<1>2. AddPlan(M, list, c) = T
  BY DEF AddPlan, Fresh
<1>3. Tidy(own, D) /\ Current(own, D, list) /\ Grows(M, D)
  BY <1>0, DrawnTidy, DrawnCurrent DEF Homed
<1> HIDE DEF D
<1>4. \A p \in ToSet(list) : p < D.next
  <2>1. ToSet(list) \subseteq Plans
    BY ListedPlans
  <2> QED
    BY <1>1, <2>1 DEF Plans
<1>10. M.next \in ToSet(list)
  OBVIOUS
<1>5. /\ Ready(C) /\ C.tab.active = M.next
      /\ C.docs = M.docs /\ C.tab.source = M.tab.source
  <2>1. /\ Ready(C) /\ Only(D, C, {"index", "tab", "unlisted"})
        /\ OnlyTab(D.tab, C.tab, {"list", "active", "pending", "synced", "unwritten"})
        /\ C.tab.active = M.next
    BY <1>1, <1>4, <1>10, CommitReady, ZenonT(30)
  <2> HIDE DEF C
  <2> QED
    BY <1>1, <2>1 DEF Only, ViewFields, OnlyTab, TabFields
<1>6. Homed(own, C) /\ Grows(D, C) /\ IsLoaded(C.tab)
  <2>1. IsLoaded(D.tab)
    BY <1>1
  <2>2. /\ Homed(own, C) /\ Current(own, C, list) /\ Grows(D, C)
        /\ IsLoaded(D.tab) => IsLoaded(C.tab)
    BY <1>1, <1>3, <1>4, <1>10, CommitHomed
  <2> QED
    BY <2>1, <2>2
<1> HIDE DEF C
<1>7. ActiveKept(C)
  <2>1. ~(M.next < M.next)
    BY DEF Plans
  <2>2. M.docs[M.tab.source][M.next] = Absent
    BY <1>0, <2>1 DEF Drew
  <2> QED
    BY <1>5, <2>2 DEF ActiveKept, Absent, Corrupt
<1>8. Done(own, C, T)
  BY <1>5, <1>6, <1>7, ShowHomed DEF Done
<1> HIDE DEF T
<1>9. Grows(M, C)
  BY <1>3, <1>6, GrowsBoth
<1> QED
  BY <1>2, <1>8, <1>9, DoneBoth

(* The list of a tab that synced: each plan once, drawn and at home. *)
LEMMA ListHomed ==
    ASSUME NEW own, NEW M, Fit(M), Homed(own, M)
    PROVE  /\ M.tab.list \in Lists /\ M.tab.list \in Seq(Plans) /\ Distinct(M.tab.list)
           /\ M.tab.active \in ToSet(M.tab.list) /\ M.tab.active \in Plans
           /\ \A p \in ToSet(M.tab.list) :
                 p \in Plans /\ p < M.next /\ p <= M.next /\ p # M.next /\ own[p] = M.tab.source
<1>1. /\ M.tab.list \in Lists /\ M.tab.list \in Seq(Plans) /\ M.tab.active \in ToSet(M.tab.list)
      /\ \A p \in ToSet(M.tab.list) : p \in Plans /\ p < M.next /\ p <= M.next
  BY FitViews, ListBelow
<1>2. \A p \in Plans : p < M.next => p # M.next
  BY DEF Plans
<1>3. Distinct(M.tab.list) /\ \A p \in ToSet(M.tab.list) : own[p] = M.tab.source
  BY DEF Homed, Housed
<1> QED
  BY <1>1, <1>2, <1>3

(* What a handler starts from: the data set is loaded, and a plan left to   *)
(* draw for it.                                                             *)
Starts(own, S) ==
    Fit(S) /\ IsLoaded(S.tab) /\ Homed(own, S) /\ S.next \in Plans /\ own[S.next] = S.tab.source

LEMMA StartsSync ==
    ASSUME NEW own, NEW S, Fit(S), IsLoaded(S.tab), Homed(own, S)
    PROVE  LET M == Sync(S)
               V == Save(M)
           IN  /\ Fit(M) /\ Saved(own, S, M) /\ Done(own, S, M) /\ Kept(S, M) /\ Synced(S, M)
               /\ Fit(V) /\ Saved(own, M, V) /\ Done(own, S, V) /\ Kept(M, V)
               /\ V.next = S.next /\ V.tab.source = S.tab.source
               /\ Starts(own, S) => Starts(own, M) /\ Starts(own, V)
<1> DEFINE M == Sync(S)
           V == Save(M)
<1>1. Fit(M) /\ Synced(S, M) /\ Saved(own, S, M) /\ Kept(S, M)
  BY SyncFit, SyncHomed, SyncKept
<1> HIDE DEF M
<1>2. Fit(V) /\ Saved(own, M, V) /\ Kept(M, V)
  BY <1>1, SaveFit, SaveHomed DEF Saved
<1> HIDE DEF V
<1>3. Grows(S, V)
  BY <1>1, <1>2, GrowsBoth DEF Saved
<1> QED
  BY <1>1, <1>2, <1>3 DEF M, V, Done, Saved, Starts, Kept

LEMMA AddLastHomed ==
    ASSUME NEW own, NEW S, Starts(own, S),
           NEW c \in Contents, c.kind = "plan", c.plan = S.next
    PROVE  Done(own, S, AddLast(Save(Sync(S)), c))
<1> DEFINE M == Save(Sync(S))
           list == Append(M.tab.list, M.next)
<1>1. /\ Fit(M) /\ Done(own, S, M) /\ Starts(own, M) /\ M.next = S.next
      /\ Current(own, M, M.tab.list)
  BY StartsSync DEF Starts, Saved
<1> HIDE DEF M
<1>2. Homed(own, M) /\ IsLoaded(M.tab) /\ M.next \in Plans /\ own[M.next] = M.tab.source
  BY <1>1 DEF Starts
<1>3. /\ M.tab.list \in Seq(Plans) /\ Distinct(M.tab.list)
      /\ \A p \in ToSet(M.tab.list) : p <= M.next /\ p # M.next
  BY <1>1, <1>2, ListHomed
<1>4. list \in Lists /\ ToSet(list) = ToSet(M.tab.list) \cup {M.next} /\ Distinct(list)
  BY <1>2, <1>3, AppendType
<1>5. AddLast(M, c) = AddPlan(M, list, c)
  BY DEF AddLast, Fresh
<1> HIDE DEF list
<1>6. Done(own, M, AddPlan(M, list, c))
  BY <1>1, <1>2, <1>3, <1>4, AddPlanHomed
<1>7. Done(own, S, AddPlan(M, list, c))
  BY <1>1, <1>6, DoneBoth DEF Done
<1> QED
  BY <1>5, <1>7 DEF M

LEMMA CreateHomed ==
    ASSUME NEW own, NEW S, Starts(own, S)
    PROVE  Done(own, S, CreatePlan(S))
<1>1. /\ Blank(S.next) \in Contents /\ Blank(S.next).kind = "plan"
      /\ Blank(S.next).plan = S.next
  BY ContentTypes DEF Blank, Starts
<1> QED
  BY <1>1, AddLastHomed DEF CreatePlan, Fresh

LEMMA ImportHomed ==
    ASSUME NEW own, NEW S, Starts(own, S), NEW edit \in Nat
    PROVE  Done(own, S, ImportPlanAsNew(S, edit))
<1>1. /\ Content(S.next, edit) \in Contents /\ Content(S.next, edit).kind = "plan"
      /\ Content(S.next, edit).plan = S.next
  BY ContentTypes DEF Starts
<1> QED
  BY <1>1, AddLastHomed DEF ImportPlanAsNew, Fresh

LEMMA EditHomed ==
    ASSUME NEW own, NEW S, Fit(S), IsLoaded(S.tab), Homed(own, S), NEW edit \in Nat
    PROVE  Done(own, S, EditBlocks(S, edit))
<1>1. S.tab.active \in Plans
  BY FitViews, OpenType
<1>2. /\ Content(S.tab.active, edit) \in Contents
      /\ Content(S.tab.active, edit).kind = "plan"
      /\ Content(S.tab.active, edit).plan = S.tab.active
  BY <1>1, ContentTypes
<1> QED
  BY <1>2, FitViews, ShowHomed DEF EditBlocks, Done

LEMMA DuplicateHomed ==
    ASSUME NEW own, NEW S, Starts(own, S)
    PROVE  Done(own, S, DuplicatePlan(S))
<1> DEFINE M == Sync(S)
           V == Save(M)
           at == PositionOf(M.tab.list, M.tab.active)
           list == InsertAt(M.tab.list, at + 1, M.next)
           c == Content(M.next, S.tab.shown.edit)
<1>1. /\ Fit(M) /\ Done(own, S, M) /\ Starts(own, M) /\ Fit(V) /\ Done(own, S, V)
      /\ Starts(own, V) /\ Kept(M, V) /\ Saved(own, M, V) /\ Saved(own, S, M)
      /\ V.next = S.next /\ M.next = S.next
  BY StartsSync DEF Starts, Kept
<1>2. S.tab.shown.edit \in Nat
  BY FitViews, ContentKinds DEF OnScreen, Views, TabViews, Starts
<1>3. DuplicatePlan(S) = IF M.tab.active # S.tab.active THEN M ELSE AddPlan(V, list, c)
  BY DEF DuplicatePlan, Duplicating, Fresh
<1>4. c \in Contents /\ c.kind = "plan" /\ c.plan = V.next
  BY <1>1, <1>2, ContentTypes DEF Starts
<1> HIDE DEF c, M, V
<1>5. Current(own, V, M.tab.list)
  BY <1>1, CurrentSaved DEF Saved
<1>6. /\ M.tab.list \in Seq(Plans) /\ Distinct(M.tab.list) /\ M.tab.active \in ToSet(M.tab.list)
      /\ \A p \in ToSet(M.tab.list) : p <= V.next /\ p # V.next
  BY <1>1, ListHomed DEF Starts
<1>7. list \in Lists /\ ToSet(list) = ToSet(M.tab.list) \cup {V.next} /\ Distinct(list)
  <2>1. Contains(M.tab.list, M.tab.active) /\ Len(M.tab.list) \in Nat
    BY <1>6, ContainsInSet, LenProperties
  <2>2. at \in 1..Len(M.tab.list)
    BY <1>6, <2>1, PositionFound, LenProperties
  <2> HIDE DEF at
  <2>3. at + 1 \in 1..(Len(M.tab.list) + 1)
    BY <2>1, <2>2
  <2>4. M.next \in Plans
    BY <1>1 DEF Starts
  <2> QED
    BY <1>1, <1>6, <2>3, <2>4, InsertType
<1> HIDE DEF list
<1>8. Done(own, V, AddPlan(V, list, c))
  BY <1>1, <1>4, <1>5, <1>6, <1>7, AddPlanHomed DEF Starts
<1>9. Done(own, S, AddPlan(V, list, c))
  BY <1>1, <1>8, DoneBoth DEF Done
<1> QED
  BY <1>1, <1>3, <1>9

(* Writing the list as it is after a sync, another plan perhaps active. *)
LEMMA CommitDone ==
    ASSUME NEW own, NEW S, Fit(S), IsLoaded(S.tab), Homed(own, S), NEW M, Current(own, S, M.tab.list),
           Fit(M), Homed(own, M), M.next = S.next, NEW p \in ToSet(M.tab.list), NEW changed \in BOOLEAN
    PROVE  LET T == CommitIndex(S, M.tab.list, p, changed)
           IN  Ready(T) /\ Done(own, S, T)
<1>1. Ready(S) /\ Tidy(own, S)
  BY FitViews DEF Homed
<1>2. M.tab.list \in Lists /\ \A q \in ToSet(M.tab.list) : q < S.next
  BY ListHomed
<1> QED
  BY <1>1, <1>2, CommitReady, CommitHomed DEF Done

LEMMA RenameHomed ==
    ASSUME NEW own, NEW S, Fit(S), IsLoaded(S.tab), Homed(own, S), NEW p
    PROVE  Done(own, S, RenamePlan(S, p))
<1> DEFINE M == Sync(S)
           T == CommitIndex(M, M.tab.list, M.tab.active, FALSE)
<1>1. Fit(M) /\ Done(own, S, M) /\ Saved(own, S, M)
  BY StartsSync
<1>2. RenamePlan(S, p) = M \/ RenamePlan(S, p) = T
  BY DEF RenamePlan, Renaming
<1> HIDE DEF M
<1>3. M.tab.active \in ToSet(M.tab.list) /\ Current(own, M, M.tab.list) /\ Homed(own, M) /\ IsLoaded(M.tab)
  BY <1>1, ListHomed DEF Done, Saved
<1>4. Done(own, M, T)
  BY <1>1, <1>3, CommitDone
<1> HIDE DEF T
<1>5. Done(own, S, T)
  BY <1>1, <1>4, DoneBoth DEF Done
<1> QED
  BY <1>1, <1>2, <1>5

LEMMA SwitchHomed ==
    ASSUME NEW own, NEW S, Fit(S), IsLoaded(S.tab), Homed(own, S), NEW p
    PROVE  Done(own, S, SwitchPlan(S, p))
<1> DEFINE M == Sync(S)
           V == Save(M)
           E == CommitIndex(M, M.tab.list, p, TRUE)
           C == CommitIndex(V, M.tab.list, p, TRUE)
           T == OpenActive(C)
<1>1. /\ Fit(M) /\ Done(own, S, M) /\ Saved(own, S, M) /\ Fit(V) /\ Done(own, S, V)
      /\ Saved(own, M, V) /\ Kept(M, V)
  BY StartsSync
<1>2. \/ SwitchPlan(S, p) = M
      \/ p = M.tab.active /\ SwitchPlan(S, p) = E
      \/ Contains(M.tab.list, p) /\ SwitchPlan(S, p) = T
  BY DEF SwitchPlan, Switching
<1> HIDE DEF M, V
<1>3. /\ M.tab.list \in Seq(Plans) /\ M.tab.active \in ToSet(M.tab.list)
      /\ Current(own, M, M.tab.list) /\ Current(own, V, M.tab.list) /\ V.next = M.next
      /\ Homed(own, M) /\ IsLoaded(M.tab) /\ Homed(own, V) /\ IsLoaded(V.tab)
  BY <1>1, ListHomed, CurrentSaved DEF Saved, Kept
<1>4. ASSUME p = M.tab.active
      PROVE  Done(own, S, E)
  <2>1. Done(own, M, E)
    BY <1>1, <1>3, <1>4, CommitDone
  <2> HIDE DEF E
  <2> QED
    BY <1>1, <2>1, DoneBoth DEF Done
<1>5. ASSUME Contains(M.tab.list, p)
      PROVE  Done(own, S, T)
  <2>1. p \in ToSet(M.tab.list)
    BY <1>3, <1>5, ContainsInSet
  <2>2. Ready(C) /\ Done(own, V, C)
    BY <1>1, <1>3, <2>1, CommitDone
  <2> HIDE DEF C
  <2>3. Done(own, C, T)
    BY <2>2, OpenActiveHomed DEF Done
  <2> HIDE DEF T
  <2>4. Done(own, V, T)
    BY <2>2, <2>3, DoneBoth DEF Done
  <2> QED
    BY <1>1, <2>4, DoneBoth DEF Done
<1> QED
  BY <1>1, <1>2, <1>4, <1>5

(* The key goes, then the list is written, and the plan is gone with both.  *)
LEMMA DroppedHomed ==
    ASSUME NEW own, NEW N, Ready(N), ActiveKept(N), IsLoaded(N.tab), Tidy(own, N),
           NEW list \in Lists, NEW at \in 1..(Len(list) + 1), \A q \in ToSet(list) : q < N.next,
           N.tab.active \notin ToSet(list), own[N.tab.active] = N.tab.source,
           Housed(own, N, list),
           ~N.tab.removed => ToSet(list) \cap N.gone \subseteq N.unlisted,
           Listed(N.index[N.tab.source]) \cup Listed(N.tab.synced)
               \subseteq ToSet(list) \cup {N.tab.active} \cup N.deleted,
           Readable(N.index[N.tab.source]) /\ Readable(N.tab.synced)
               => N.tab.synced = N.index[N.tab.source]
    PROVE  Done(own, N, Dropped(Dropping(N, N.tab.active, list, at), N.tab.active))
<1> DEFINE p == N.tab.active
           s == N.tab.source
           X == Unkeyed(N, p)
<1>1. N \in Views /\ p \in Plans /\ s \in Sources /\ p < N.next
  BY OpenType, ListBelow DEF Ready, Stocked, Opens
<1>2. /\ Only(N, X, {"docs", "writer", "deleted"})
      /\ X.docs = [N.docs EXCEPT ![s][p] = Absent] /\ X.deleted = N.deleted \cup {p}
  BY <1>1, UnkeyedFacts
<1>3. Ready(X)
  BY <1>1, UnkeyedPassed DEF ActiveKept, Passed
<1>4. PICK q \in ToSet(list) : Dropping(N, p, list, at) = CommitIndex(X, list, q, TRUE)
  BY DroppingCommits
<1> HIDE DEF X
<1>5. /\ X.index = N.index /\ X.gone = N.gone /\ X.unlisted = N.unlisted /\ X.next = N.next
      /\ X.tab = N.tab
  BY <1>2 DEF Only, ViewFields
<1>6. \A r \in Sources, a \in Plans : X.docs[r][a] = IF r = s /\ a = p THEN Absent ELSE N.docs[r][a]
  BY <1>1, <1>2 DEF Views
<1>7. Tidy(own, X)
  <2>1. Homes(own, X)
    BY <1>1, <1>2, <1>5, <1>6 DEF Tidy, Homes
  <2>2. N.gone \subseteq Plans
    BY <1>1 DEF Views
  <2>3. NoneBack(X)
    BY <1>5, <1>6, <2>2 DEF Tidy, NoneBack
  <2> QED
    BY <2>1, <2>3 DEF Tidy
<1>8. Current(own, X, list)
  BY <1>2, <1>5 DEF Current, Housed
<1>9. Grows(N, X)
  BY <1>2, <1>5, GrowsItself
<1> DEFINE C == CommitIndex(X, list, q, TRUE)
           T == [C EXCEPT !.gone = @ \cup {p}]
<1>10. /\ Ready(C) /\ Only(X, C, {"index", "tab", "unlisted"})
       /\ OnlyTab(X.tab, C.tab, {"list", "active", "pending", "synced", "unwritten"})
       /\ (\E hint \in ToSet(list) : Written(X, C, list, hint)) \/ Unwritten(X, C, list)
  BY <1>3, <1>5, CommitReady
<1>11. Homed(own, C) /\ Grows(X, C) /\ (IsLoaded(X.tab) => IsLoaded(C.tab))
  BY <1>3, <1>5, <1>7, <1>8, CommitHomed
<1>12. Dropped(C, p) = IF C.tab.unwritten THEN C ELSE T
  BY DEF Dropped
<1>13. C \in Views
  BY <1>10 DEF Ready, Stocked
<1>14. T \in Views /\ Only(C, T, {"gone"}) /\ T.gone = C.gone \cup {p}
  BY <1>1, <1>13 DEF Views, Only, ViewFields
<1> HIDE DEF C, T
<1>15. /\ C.docs = X.docs /\ C.next = X.next /\ C.tab.source = s
  BY <1>5, <1>10 DEF Only, OnlyTab, ViewFields, TabFields
<1>16. /\ T.index = C.index /\ T.docs = C.docs /\ T.next = C.next /\ T.deleted = C.deleted
       /\ T.unlisted = C.unlisted /\ T.tab = C.tab
  BY <1>14 DEF Only, ViewFields
<1>17. ASSUME ~C.tab.unwritten
       PROVE  Homed(own, T)
  <2>1. PICK hint : Written(X, C, list, hint)
    BY <1>10, <1>17 DEF Unwritten
  <2>2. Listed(C.index[s]) = ToSet(list)
    BY <1>1, <1>5, <2>1, IndexListed DEF Written, Views
  <2>3. \A r \in Sources : C.docs[r][p] = Absent
    <3>1. \A r \in Sources : N.docs[r][p] # Absent => r = s
      BY <1>1 DEF Tidy, Homes
    <3> QED
      BY <1>1, <1>6, <1>15, <3>1
  <2>4. \A r \in Sources : p \notin Listed(C.index[r])
    BY <1>11, <2>2 DEF Homed, Tidy, Homes
  <2>5. NoneBack(T)
    BY <1>11, <1>14, <1>16, <2>3, <2>4 DEF Homed, Tidy, NoneBack
  <2>6. Homes(own, T)
    BY <1>1, <1>5, <1>11, <1>14, <1>15, <1>16 DEF Homed, Tidy, Homes
  <2>7. Housed(own, T, T.tab.list) /\ Agrees(T)
    BY <1>11, <1>16 DEF Homed, Housed, Agrees
  <2> QED
    BY <2>5, <2>6, <2>7 DEF Homed, Tidy
<1>18. Grows(C, T)
  BY <1>16, GrowsItself
<1>19. IsLoaded(C.tab)
  BY <1>5, <1>11
<1>20. Done(own, N, C)
  BY <1>9, <1>11, <1>19, GrowsBoth DEF Done
<1>21. ~C.tab.unwritten => Done(own, N, T)
  <2>1. Grows(N, T)
    BY <1>18, <1>20, GrowsBoth DEF Done
  <2> QED
    BY <1>16, <1>17, <1>19, <2>1 DEF Done
<1>22. Dropping(N, p, list, at) = C
  BY <1>4 DEF C
<1> QED
  BY <1>12, <1>20, <1>21, <1>22

LEMMA WithoutHomed ==
    ASSUME NEW own, NEW M, Starts(own, M), Current(own, M, M.tab.list)
    PROVE  Done(own, M, WithoutPlan(M, M.tab.active, PositionOf(M.tab.list, M.tab.active)))
<1> DEFINE p == M.tab.active
           l == M.tab.list
           at == PositionOf(l, p)
           rest == RemoveAt(l, at)
           D == Drawn(M)
           A == Dropped(Dropping(D, p, <<M.next>>, at), p)
           B == Dropped(Dropping(M, p, rest, at), p)
           W == WithoutPlan(M, p, at)
<1>1. /\ M \in Views /\ Ready(M) /\ ActiveKept(M) /\ Fit(M) /\ Homed(own, M) /\ Tidy(own, M)
      /\ IsLoaded(M.tab) /\ M.next \in Plans /\ own[M.next] = M.tab.source
  BY FitViews DEF Starts, Homed
<1>2. /\ l \in Seq(Plans) /\ Distinct(l) /\ p \in Plans /\ Contains(l, p) /\ p \in ToSet(l)
      /\ \A q \in ToSet(l) : q < M.next /\ q # M.next /\ own[q] = M.tab.source
  BY <1>1, ListHomed, ContainsInSet
<1>3. at \in DOMAIN l /\ DOMAIN l = 1..Len(l) /\ Len(l) \in Nat /\ l[at] = p
  BY <1>2, PositionFound, LenProperties
<1> HIDE DEF at
<1>4. /\ rest \in Seq(Plans) /\ Len(rest) = Len(l) - 1 /\ Distinct(rest)
      /\ ToSet(rest) = ToSet(l) \ {p}
  <2>1. /\ rest \in Seq(Plans) /\ Len(rest) = Len(l) - 1
        /\ Distinct(l) => /\ Distinct(rest)
                          /\ ToSet(rest) = ToSet(l) \ {l[at]}
    BY <1>2, <1>3, RemoveType
  <2> HIDE DEF rest
  <2> QED
    BY <1>2, <1>3, <2>1
<1>5. W = IF rest = <<>> THEN A ELSE B
  BY DEF WithoutPlan, Fresh
<1> HIDE DEF rest, W
<1>6. Listed(M.index[M.tab.source]) \cup Listed(M.tab.synced) \subseteq ToSet(rest) \cup {p} \cup M.deleted
  BY <1>4 DEF Current
<1>7. Readable(M.index[M.tab.source]) /\ Readable(M.tab.synced) => M.tab.synced = M.index[M.tab.source]
  BY DEF Current
<1>8. ASSUME rest = <<>>
      PROVE  Done(own, M, A)
  <2>1. /\ Ready(D) /\ D.next = M.next + 1 /\ D.tab = M.tab /\ Only(M, D, {"next"})
    BY <1>1, DrawnPassed, DrawnFacts DEF Passed
  <2>2. /\ Tidy(own, D) /\ Grows(M, D) /\ M.next \notin M.gone
        /\ D.index = M.index /\ D.gone = M.gone /\ D.deleted = M.deleted /\ D.unlisted = M.unlisted
    BY <1>1, DrawnTidy
  <2> HIDE DEF D
  <2>3. ActiveKept(D)
    BY <1>1, <2>1 DEF ActiveKept, Only, ViewFields, Seen
  <2>4. <<M.next>> \in Lists /\ Len(<<M.next>>) = 1 /\ ToSet(<<M.next>>) = {M.next}
        /\ Distinct(<<M.next>>)
    BY <1>1 DEF Lists, ToSet, Distinct
  <2>5. at \in 1..(Len(<<M.next>>) + 1)
    <3>1. Len(rest) = 0
      BY <1>8, EmptySeq
    <3>2. Len(l) = 1 /\ at \in 1..Len(l)
      BY <1>3, <1>4, <3>1
    <3> QED
      BY <2>4, <3>2
  <2>6. \A q \in ToSet(<<M.next>>) : q < D.next
    BY <1>1, <2>1, <2>4 DEF Plans
  <2>7. Housed(own, D, <<M.next>>)
    BY <1>1, <2>1, <2>4 DEF Housed
  <2>8. ToSet(rest) = {}
    BY <1>8 DEF ToSet
  <2>9. Done(own, D, A)
    <3> DEFINE fresh == <<M.next>>
    <3>1. p \notin ToSet(fresh) /\ own[p] = D.tab.source /\ D.tab.active = p
      BY <1>2, <2>1, <2>4
    <3>2. ToSet(fresh) \cap D.gone \subseteq D.unlisted
      BY <2>2, <2>4
    <3>3. Listed(D.index[D.tab.source]) \cup Listed(D.tab.synced) \subseteq ToSet(fresh) \cup {p} \cup D.deleted
      BY <1>6, <2>1, <2>2, <2>8
    <3>4. Readable(D.index[D.tab.source]) /\ Readable(D.tab.synced) => D.tab.synced = D.index[D.tab.source]
      BY <1>7, <2>1, <2>2
    <3>5. IsLoaded(D.tab) /\ fresh \in Lists /\ at \in 1..(Len(fresh) + 1)
          /\ (\A q \in ToSet(fresh) : q < D.next) /\ Housed(own, D, fresh)
      BY <1>1, <2>1, <2>4, <2>5, <2>6, <2>7
    <3> HIDE DEF fresh
    <3>6. Done(own, D, Dropped(Dropping(D, p, fresh, at), p))
      BY <2>1, <2>2, <2>3, <3>1, <3>2, <3>3, <3>4, <3>5, DroppedHomed
    <3> QED
      BY <3>6 DEF fresh
  <2> HIDE DEF A
  <2> QED
    BY <2>2, <2>9, DoneBoth
<1>9. ASSUME rest # <<>>
      PROVE  Done(own, M, B)
  <2>1. rest \in Lists
    BY <1>4, <1>9 DEF Lists
  <2>2. at \in 1..(Len(rest) + 1)
    BY <1>3, <1>4
  <2>3. (\A q \in ToSet(rest) : q < M.next) /\ p \notin ToSet(rest) /\ own[p] = M.tab.source
    BY <1>2, <1>4
  <2>4. Housed(own, M, rest)
    BY <1>2, <1>4 DEF Housed
  <2>5. ~M.tab.removed => ToSet(rest) \cap M.gone \subseteq M.unlisted
    BY <1>4 DEF Current
  <2> QED
    BY <1>1, <1>6, <1>7, <2>1, <2>2, <2>3, <2>4, <2>5, DroppedHomed
<1> QED
  BY <1>5, <1>8, <1>9 DEF W, at

LEMMA DeleteHomed ==
    ASSUME NEW own, NEW S, Starts(own, S)
    PROVE  Done(own, S, DeletePlan(S, S.tab.active))
<1> DEFINE p == S.tab.active
           M == Sync(S)
           W == WithoutPlan(M, p, PositionOf(M.tab.list, p))
           T == OpenActive(W)
<1>1. /\ Fit(M) /\ Synced(S, M) /\ Done(own, S, M) /\ Saved(own, S, M) /\ Starts(own, M)
  BY StartsSync DEF Starts
<1>2. /\ ~Contains(M.tab.list, p) => DeletePlan(S, p) = M
      /\ Contains(M.tab.list, p) /\ p = M.tab.active => DeletePlan(S, p) = T
  BY DEF DeletePlan, Deleting
<1> HIDE DEF M
<1>3. M.tab.list \in Seq(Plans)
  BY <1>1, FitViews, ListBelow
<1>4. CASE ~Contains(M.tab.list, p)
  BY <1>1, <1>2, <1>4
<1>5. CASE Contains(M.tab.list, p)
  <2>1. p = M.tab.active
    BY <1>1, <1>3, <1>5, ContainsInSet, SyncedActive
  <2>2. Done(own, M, W) /\ Ready(W)
    BY <1>1, <2>1, WithoutHomed, WithoutPassed DEF Starts, Saved, Passed
  <2> HIDE DEF W
  <2>3. Done(own, W, T)
    BY <2>2, OpenActiveHomed DEF Done
  <2> HIDE DEF T
  <2>4. Done(own, S, W)
    BY <1>1, <2>2, DoneBoth DEF Done
  <2> QED
    BY <1>2, <1>5, <2>1, <2>3, <2>4, DoneBoth DEF Done
<1> QED
  BY <1>4, <1>5

-----------------------------------------------------------------------------
(* Activating a data set.  The plans of uploads that are removed are gone.  *)
LEMMA RemovedTidy ==
    ASSUME NEW own, NEW S, Stocked(S), Tidy(own, S), NEW keep
    PROVE  LET P == RemoveCustomPlans(S, keep)
           IN  Tidy(own, P) /\ Grows(S, P)
<1> DEFINE P == RemoveCustomPlans(S, keep)
           out == Replaced(keep)
<1>1. S \in Views /\ Drew(S) /\ Homes(own, S) /\ NoneBack(S)
  BY DEF Stocked, Tidy
<1>2. /\ P \in Views
      /\ Only(S, P, {"index", "docs", "legacy", "copies", "writer", "deleted", "gone"})
      /\ \A s \in Sources :
            /\ P.index[s] = IF s \in out THEN Absent ELSE S.index[s]
            /\ \A p \in Plans : P.docs[s][p] = IF s \in out THEN Absent ELSE S.docs[s][p]
      /\ P.deleted = S.deleted \cup ListedIn(S, out)
      /\ P.gone = S.gone \cup ListedIn(S, out)
  BY <1>1, RemoveFacts
<1> HIDE DEF P
<1>3. P.next = S.next /\ P.unlisted = S.unlisted
  BY <1>2 DEF Only, ViewFields
<1>4. out \subseteq Uploads /\ out \subseteq Sources /\ out \cap Bundled = {}
  BY PlanStoreAssumption DEF Replaced, Sources
<1> HIDE DEF out
<1>5. P.gone \subseteq Plans
  BY <1>2 DEF Views
<1>6. ASSUME NEW p \in ListedIn(S, out)
      PROVE  p < S.next /\ own[p] \in out
  BY <1>1, <1>4 DEF ListedIn, Drew, Homes
<1>7. Homes(own, P)
  <2>1. \A p \in P.gone \cup P.deleted : p < P.next
    BY <1>1, <1>2, <1>3, <1>6 DEF Homes
  <2>2. \A u \in Uploads : P.index[u] # Corrupt
    BY <1>1, <1>2, CorruptKinds DEF Homes, Sources
  <2> QED
    BY <1>1, <1>2, <2>1, <2>2, CorruptKinds DEF Homes
<1>8. ASSUME NEW p \in P.gone \ P.unlisted, NEW r \in Sources
      PROVE  P.docs[r][p] = Absent /\ p \notin Listed(P.index[r])
  <2>1. p \in Plans
    BY <1>5
  <2>2. CASE r \in out
    BY <1>2, <2>1, <2>2, CorruptKinds
  <2>3. CASE r \notin out
    <3>1. P.docs[r][p] = S.docs[r][p] /\ P.index[r] = S.index[r]
      BY <1>2, <2>1, <2>3
    <3>2. CASE p \in S.gone
      BY <1>1, <1>3, <3>1, <3>2 DEF NoneBack
    <3>3. CASE p \in ListedIn(S, out)
      BY <1>1, <1>6, <2>1, <2>3, <3>1, <3>3 DEF Homes
    <3> QED
      BY <1>2, <3>2, <3>3
  <2> QED
    BY <2>2, <2>3
<1>9. Grows(S, P)
  <2>1. \A r \in Sources : Listed(S.index[r]) \subseteq Listed(P.index[r]) \cup P.deleted
    BY <1>2 DEF ListedIn
  <2>2. \A r \in Bundled : Readable(S.index[r]) => Readable(P.index[r])
    BY <1>2, <1>4 DEF Sources
  <2> QED
    BY <1>2, <1>3, <2>1, <2>2 DEF Grows
<1> QED
  BY <1>7, <1>8, <1>9 DEF Tidy, NoneBack, P

LEMMA PreparedTidy ==
    ASSUME NEW own, NEW S, Stocked(S), Tidy(own, S), NEW s \in Sources
    PROVE  LET P == Prepare(S, s)
           IN  Tidy(own, P) /\ Grows(S, P)
<1>1. CASE s \in Uploads
  BY <1>1, RemovedTidy DEF Prepare
<1>2. CASE s \notin Uploads
  BY <1>2, GrowsItself DEF Prepare
<1> QED
  BY <1>1, <1>2

(* The list found holds the data set's plans, all those its index lists     *)
(* and none that is gone; moving an unreadable index away lists no less.    *)
LEMMA FoundHomed ==
    ASSUME NEW own, NEW P, Stocked(P), Tidy(own, P), NEW s \in Sources
    PROVE  LET list == StoredList(P, s)
               R == ReadIndex(P, s)
           IN  /\ Distinct(list) /\ \A p \in ToSet(list) : own[p] = s
               /\ ToSet(list) \cap R.gone \subseteq R.unlisted
               /\ Listed(R.index[s]) \subseteq ToSet(list)
               /\ Tidy(own, R) /\ Grows(P, R)
<1> DEFINE list == StoredList(P, s)
           R == ReadIndex(P, s)
           raw == P.index[s]
<1>1. P \in Views /\ raw \in Indexes /\ Homes(own, P) /\ NoneBack(P)
  BY DEF Stocked, Views, Tidy
<1>2. /\ R \in Views /\ Only(P, R, {"index", "copies", "uncopied"})
      /\ R.index = P.index \/ (raw = Corrupt /\ R.index = [P.index EXCEPT ![s] = Absent])
  BY <1>1, ReadFacts
<1> HIDE DEF R
<1>3. /\ R.docs = P.docs /\ R.next = P.next /\ R.gone = P.gone /\ R.deleted = P.deleted
      /\ R.unlisted = P.unlisted
  BY <1>2 DEF Only, ViewFields
<1>4. \A r \in Sources : R.index[r] = P.index[r] \/ (P.index[r] = Corrupt /\ R.index[r] = Absent)
  BY <1>1, <1>2 DEF Views
<1>5. Tidy(own, R)
  <2>1. Homes(own, R)
    BY <1>1, <1>3, <1>4, CorruptKinds DEF Homes, Sources
  <2>2. NoneBack(R)
    BY <1>1, <1>3, <1>4, CorruptKinds DEF NoneBack
  <2> QED
    BY <2>1, <2>2 DEF Tidy
<1>6. Grows(P, R)
  BY <1>3, <1>4, CorruptKinds DEF Grows, Sources
<1>7. /\ Distinct(list) /\ \A p \in ToSet(list) : own[p] = s
      /\ ToSet(list) \cap P.gone \subseteq P.unlisted
      /\ Listed(raw) \subseteq ToSet(list)
  <2>1. CASE Readable(raw)
    <3>1. list = raw.plans
      BY <2>1 DEF StoredList
    <3>2. Listed(raw) = ToSet(list)
      BY <1>1, <2>1, <3>1, IndexKinds
    <3> HIDE DEF list
    <3> QED
      BY <1>1, <2>1, <3>1, <3>2 DEF Homes, NoneBack
  <2>2. CASE raw = Corrupt
    <3>1. list = RecoverIndex(P, s)
      BY <2>2, CorruptKinds DEF StoredList
    <3> HIDE DEF list
    <3>2. Distinct(list) /\ ToSet(list) = {p \in Plans : P.docs[s][p] # Absent}
      BY <3>1, RecoverType
    <3> QED
      BY <1>1, <2>2, <3>2, CorruptKinds DEF Homes, NoneBack
  <2>3. CASE raw = Absent
    <3>1. list = <<>>
      BY <2>3, CorruptKinds DEF StoredList
    <3>2. Distinct(<<>>) /\ ToSet(<<>>) = {}
      BY DEF Distinct, ToSet
    <3> QED
      BY <2>3, <3>1, <3>2, CorruptKinds
  <2> QED
    BY <1>1, <2>1, <2>2, <2>3, IndexKinds
<1>8. Listed(R.index[s]) \subseteq Listed(raw)
  BY <1>4, CorruptKinds
<1> QED
  BY <1>3, <1>5, <1>6, <1>7, <1>8 DEF R, list

(* A plan drawn for a data set is stored there, and listed or not.          *)
LEMMA AdoptTidy ==
    ASSUME NEW own, NEW S, Stocked(S), Tidy(own, S), NEW s \in Sources,
           S.next \in Plans, own[S.next] = s,
           NEW list \in Seq(Plans), Distinct(list), \A p \in ToSet(list) : own[p] = s /\ p < S.next,
           ToSet(list) \cap S.gone \subseteq S.unlisted, Listed(S.index[s]) \subseteq ToSet(list),
           NEW raw, NEW T, Only(S, T, {"next", "docs", "index", "legacy", "tab"}),
           T.next = S.next + 1, Adopts(S, T, s, raw, list)
    PROVE  Tidy(own, T) /\ Grows(S, T)
<1> DEFINE f == S.next
           l == Append(list, f)
<1>1. S \in Views /\ Homes(own, S) /\ NoneBack(S)
  BY DEF Stocked, Tidy
<1>2. T.gone = S.gone /\ T.deleted = S.deleted /\ T.unlisted = S.unlisted
  BY DEF Only, ViewFields
<1>3. f \notin S.gone
  BY <1>1, DrawnTidy
<1>4. /\ ToSet(l) = ToSet(list) \cup {f} /\ Distinct(l)
      /\ \A p \in ToSet(l) : own[p] = s
  <2>1. f \notin ToSet(list)
    BY DEF Plans
  <2> QED
    BY <2>1, AppendType
<1> HIDE DEF l
<1>5. /\ Readable(Index(l, f)) /\ Listed(Index(l, f)) = ToSet(l) /\ Index(l, f).plans = l
      /\ Index(l, f) # Corrupt
  BY IndexListed DEF Readable, Corrupt
<1>6. /\ \A r \in Sources, p \in Plans : T.docs[r][p] = S.docs[r][p] \/ (r = s /\ p = f)
      /\ \A r \in Sources : T.index[r] = S.index[r] \/ (r = s /\ T.index[r] = Index(l, f))
  BY <1>1 DEF Adopts, Views, l
<1> HIDE DEF f
<1>7. Homes(own, T)
  <2>1. \A p \in S.gone \cup S.deleted : p < T.next
    <3>1. S.next \in Nat /\ S.gone \subseteq Plans /\ S.deleted \subseteq Plans
      BY <1>1 DEF Views
    <3> QED
      BY <1>1, <3>1 DEF Homes, Plans
  <2>2. \A r \in Sources, p \in Plans : T.docs[r][p] # Absent => own[p] = r
    BY <1>1, <1>6 DEF Homes, f
  <2>3. \A r \in Sources : \A p \in Listed(T.index[r]) : own[p] = r
    BY <1>1, <1>4, <1>5, <1>6 DEF Homes
  <2>4. \A r \in Sources : Readable(T.index[r]) => Distinct(T.index[r].plans)
    BY <1>1, <1>4, <1>5, <1>6 DEF Homes
  <2>5. \A u \in Uploads : T.index[u] # Corrupt
    BY <1>1, <1>5, <1>6 DEF Homes, Sources
  <2> QED
    BY <1>2, <2>1, <2>2, <2>3, <2>4, <2>5 DEF Homes
<1>8. NoneBack(T)
  <2>1. S.gone \subseteq Plans
    BY <1>1 DEF Views
  <2>2. \A p \in S.gone \ S.unlisted : p \notin ToSet(l) /\ p # f /\ p \in Plans
    BY <1>3, <1>4, <2>1
  <2> QED
    BY <1>1, <1>2, <1>5, <1>6, <2>2 DEF NoneBack
<1>9. Grows(S, T)
  <2>1. \A r \in Sources : Listed(S.index[r]) \subseteq Listed(T.index[r])
    BY <1>4, <1>5, <1>6
  <2>2. \A r \in Bundled : Readable(S.index[r]) => Readable(T.index[r])
    BY <1>5, <1>6 DEF Sources
  <2> QED
    BY <1>2, <2>1, <2>2 DEF Grows
<1> QED
  BY <1>7, <1>8, <1>9 DEF Tidy

LEMMA ActivateHomed ==
    ASSUME NEW own, NEW S, Stocked(S), Tidy(own, S), NEW s \in Sources,
           S.next \in Plans, own[S.next] = s,
           S.tab.source # s, S.tab.status = Status("loaded", s)
    PROVE  Done(own, S, Activate(S, s))
<1> DEFINE P == Prepare(S, s)
           R == ReadIndex(P, s)
           list == StoredList(P, s)
           T == Activate(S, s)
           f == S.next
<1>1. Stocked(P) /\ Entering(P, T, s, S.tab.status)
  BY ActivateEntered
<1>2. P.next = S.next
  BY PreparedCleared DEF Stocked, Cleared
<1>3. Tidy(own, P) /\ Grows(S, P)
  BY PreparedTidy
<1>4. \E N, A \in Views, raw \in Contents :
          /\ Ready(A) /\ Only(N, A, {"tab"}) /\ A.tab.source = s /\ A.tab.status = S.tab.status
          /\ A.tab.pending = {} /\ A.tab.synced = Absent /\ ~A.tab.removed
          /\ Only(R, N, {"next", "docs", "index", "legacy"})
          /\ \/ /\ A.tab.list = list
                /\ N.next = R.next /\ N.docs = R.docs /\ N.index = R.index
             \/ /\ A.tab.list = Append(list, R.next) /\ N.next = R.next + 1
                /\ (N.docs = R.docs /\ N.index = R.index) \/ Adopts(R, N, s, raw, list)
          /\ \/ T = OpenActive(PersistIndex(A, A.tab.active))
             \/ /\ T = LoadActivePlan(MarkUnwritten(A), raw)
                /\ Fit(Opened(MarkUnwritten(A), raw))
  BY <1>1 DEF Entering
<1> HIDE DEF P, T
<1>5. /\ Stocked(R) /\ R \in Views /\ R.next = f /\ list \in Seq(Plans)
      /\ \A p \in ToSet(list) : p < f
  BY <1>1, <1>2, ReadStocked, StoredListType DEF Stocked
<1>6. /\ Distinct(list) /\ \A p \in ToSet(list) : own[p] = s
      /\ ToSet(list) \cap R.gone \subseteq R.unlisted
      /\ Listed(R.index[s]) \subseteq ToSet(list)
      /\ Tidy(own, R) /\ Grows(P, R)
  BY <1>1, <1>3, FoundHomed
<1> HIDE DEF R, list
<1>7. PICK N, A \in Views, raw \in Contents :
          /\ Ready(A) /\ Only(N, A, {"tab"}) /\ A.tab.source = s /\ A.tab.status = S.tab.status
          /\ A.tab.pending = {} /\ A.tab.synced = Absent /\ ~A.tab.removed
          /\ Only(R, N, {"next", "docs", "index", "legacy"})
          /\ \/ /\ A.tab.list = list
                /\ N.next = R.next /\ N.docs = R.docs /\ N.index = R.index
             \/ /\ A.tab.list = Append(list, R.next) /\ N.next = R.next + 1
                /\ (N.docs = R.docs /\ N.index = R.index) \/ Adopts(R, N, s, raw, list)
          /\ \/ T = OpenActive(PersistIndex(A, A.tab.active))
             \/ /\ T = LoadActivePlan(MarkUnwritten(A), raw)
                /\ Fit(Opened(MarkUnwritten(A), raw))
  BY <1>4
<1>8. /\ N.gone = R.gone /\ N.deleted = R.deleted /\ N.unlisted = R.unlisted
      /\ A.gone = N.gone /\ A.deleted = N.deleted /\ A.unlisted = N.unlisted
      /\ A.index = N.index /\ A.docs = N.docs /\ A.next = N.next
      /\ Only(R, N, {"next", "docs", "index", "legacy", "tab"})
  BY <1>7 DEF Only, ViewFields
<1>9. /\ f \in Plans /\ f \in Nat /\ f < f + 1 /\ \A p \in Nat : p < f => p < f + 1
      /\ f \notin ToSet(list) /\ f \notin R.gone
  <2>1. f \in Nat /\ f \notin R.gone
    <3>1. R.next \notin R.gone
      BY <1>5, <1>6, DrawnTidy
    <3>2. S.next \in Nat
      BY DEF Plans
    <3> QED
      BY <1>5, <3>1, <3>2
  <2> QED
    BY <1>5, <2>1
<1>10. /\ ToSet(Append(list, f)) = ToSet(list) \cup {f} /\ Distinct(Append(list, f))
       /\ Readable(Index(Append(list, f), f))
       /\ Listed(Index(Append(list, f), f)) = ToSet(list) \cup {f}
  BY <1>5, <1>6, <1>9, AppendType, IndexListed
<1> HIDE DEF f
<1>11. Tidy(own, N) /\ Grows(R, N)
  <2>1. CASE N.docs = R.docs /\ N.index = R.index
    <3>1. \A p \in R.gone \cup R.deleted : p < N.next
      <4>1. \A p \in R.gone \cup R.deleted : p \in Nat /\ p < f
        BY <1>5, <1>6 DEF Tidy, Homes, Views, Plans
      <4> QED
        BY <1>5, <1>7, <1>9, <4>1
    <3>2. Tidy(own, N)
      BY <1>6, <1>8, <2>1, <3>1 DEF Tidy, Homes, NoneBack
    <3> QED
      BY <1>8, <2>1, <3>2, GrowsItself
  <2>2. CASE N.next = R.next + 1 /\ Adopts(R, N, s, raw, list)
    BY <1>5, <1>6, <1>8, <1>9, <2>2, AdoptTidy DEF f
  <2> QED
    BY <1>7, <2>1, <2>2
<1>12. Tidy(own, A) /\ Grows(R, A)
  BY <1>8, <1>11 DEF Tidy, Homes, NoneBack, Grows
<1>13. Current(own, A, A.tab.list)
  <2>1. Housed(own, A, A.tab.list)
    BY <1>5, <1>6, <1>7, <1>10 DEF Housed, f
  <2>2. ToSet(A.tab.list) \cap A.gone \subseteq A.unlisted
    BY <1>5, <1>6, <1>7, <1>8, <1>9, <1>10
  <2>3. Listed(A.index[s]) \subseteq ToSet(A.tab.list)
    <3>1. CASE N.index = R.index
      BY <1>5, <1>6, <1>7, <1>8, <1>10, <3>1
    <3>2. CASE A.tab.list = Append(list, f) /\ Adopts(R, N, s, raw, list)
      <4>1. R.index \in [Sources -> Indexes]
        BY <1>5 DEF Views
      <4>2. N.index[s] = R.index[s] \/ N.index[s] = Index(Append(list, f), f)
        BY <1>5, <3>2, <4>1 DEF Adopts
      <4> QED
        BY <1>6, <1>8, <1>10, <3>2, <4>2
    <3> QED
      BY <1>5, <1>7, <3>1, <3>2
  <2>4. ~Readable(A.tab.synced) /\ Listed(A.tab.synced) = {}
    BY <1>7, CorruptKinds
  <2> QED
    BY <1>7, <2>1, <2>2, <2>3, <2>4 DEF Current
<1>14. Grows(S, A)
  <2>1. Grows(S, R)
    BY <1>3, <1>6, GrowsBoth
  <2> QED
    BY <1>12, <2>1, GrowsBoth
<1>15. ASSUME NEW I, Ready(I), Only(A, I, {"index", "tab", "unlisted"}),
              OnlyTab(A.tab, I.tab, {"pending", "synced", "unwritten"}),
              (\E hint : Written(A, I, A.tab.list, hint)) \/ Unwritten(A, I, A.tab.list)
       PROVE  Done(own, S, I)
  <2>1. /\ I.docs = A.docs /\ I.gone = A.gone /\ I.deleted = A.deleted /\ I.next = A.next
        /\ I.tab.source = s /\ I.tab.removed = A.tab.removed
        /\ I.tab.status = A.tab.status /\ I.tab.list = A.tab.list
    BY <1>7, <1>15 DEF Only, OnlyTab, ViewFields, TabFields
  <2>2. Homed(own, I) /\ Grows(A, I)
    BY <1>7, <1>12, <1>13, <1>15, <2>1, PersistedHomed
  <2>3. IsLoaded(I.tab)
    BY <1>7, <2>1, PlanStoreAssumption DEF IsLoaded
  <2> QED
    BY <1>14, <2>2, <2>3, GrowsBoth DEF Done
<1>16. CASE T = OpenActive(PersistIndex(A, A.tab.active))
  <2> DEFINE I == PersistIndex(A, A.tab.active)
  <2>1. /\ Ready(I) /\ Only(A, I, {"index", "tab", "unlisted"})
        /\ OnlyTab(A.tab, I.tab, {"pending", "synced", "unwritten"})
        /\ (\E hint : Written(A, I, A.tab.list, hint)) \/ Unwritten(A, I, A.tab.list)
    BY <1>7, PersistReady
  <2> HIDE DEF I
  <2>2. Done(own, S, I)
    BY <1>15, <2>1
  <2>3. Done(own, I, T)
    BY <1>16, <2>1, <2>2, OpenActiveHomed DEF Done, I
  <2> QED
    BY <2>2, <2>3, DoneBoth DEF Done, T
<1>17. CASE T = LoadActivePlan(MarkUnwritten(A), raw) /\ Fit(Opened(MarkUnwritten(A), raw))
  <2> DEFINE I == MarkUnwritten(A)
  <2>1. /\ Ready(I) /\ Only(A, I, {"tab", "unlisted"})
        /\ OnlyTab(A.tab, I.tab, {"pending", "unwritten"}) /\ Unwritten(A, I, A.tab.list)
    BY <1>7, MarkReady
  <2> HIDE DEF I
  <2>2. Only(A, I, {"index", "tab", "unlisted"}) /\ OnlyTab(A.tab, I.tab, {"pending", "synced", "unwritten"})
    BY <2>1 DEF Only, OnlyTab
  <2>3. Done(own, S, I)
    BY <1>15, <2>1, <2>2
  <2>4. Done(own, I, T)
    BY <1>7, <1>17, <2>1, <2>3, LoadHomed DEF Done, I
  <2> QED
    BY <2>3, <2>4, DoneBoth DEF Done, T
<1> QED
  BY <1>7, <1>16, <1>17 DEF T

-----------------------------------------------------------------------------
(* What the tabs keep between the steps. *)
AtHome(own, S) == Tidy(own, S) /\ (S.tab.source # NoSource => Homed(own, S))

(* The same storage, and a tab with the same list.                          *)
LEMMA TabAtHome ==
    ASSUME NEW own, NEW S, NEW T, AtHome(own, S), Only(S, T, {"tab", "me", "refuses"}),
           \/ T.tab.source = NoSource
           \/ OnlyTab(S.tab, T.tab, {"told", "status"})
    PROVE  AtHome(own, T) /\ Grows(S, T)
<1>1. /\ T.index = S.index /\ T.docs = S.docs /\ T.next = S.next /\ T.gone = S.gone
      /\ T.deleted = S.deleted /\ T.unlisted = S.unlisted
  BY DEF Only, ViewFields
<1>2. Tidy(own, T) /\ Grows(S, T)
  BY <1>1, GrowsItself DEF AtHome, Tidy, Homes, NoneBack
<1>3. ASSUME T.tab.source # NoSource
      PROVE  Homed(own, T)
  <2>1. /\ T.tab.source = S.tab.source /\ T.tab.list = S.tab.list
        /\ T.tab.pending = S.tab.pending /\ T.tab.synced = S.tab.synced
    BY <1>3 DEF OnlyTab, TabFields
  <2>2. Housed(own, S, S.tab.list) /\ Agrees(S)
    BY <1>3, <2>1 DEF AtHome, Homed
  <2> QED
    BY <1>1, <1>2, <2>1, <2>2 DEF Homed, Housed, Agrees
<1> QED
  BY <1>2, <1>3 DEF AtHome

(* The lists of the other tabs agree with what a step of one leaves.        *)
LEMMA OthersAtHome ==
    ASSUME NEW own, NEW U, AtHome(own, U), NEW S, Only(U, S, {"tab", "me", "refuses"}),
           U.tab.source \in Sources \cup {NoSource},
           NEW T, Tidy(own, T), Grows(S, T),
           NEW V, Only(T, V, {"tab", "me", "refuses"}), OnlyTab(U.tab, V.tab, {"told"})
    PROVE  AtHome(own, V)
<1>1. /\ S.index = U.index /\ S.deleted = U.deleted /\ S.unlisted = U.unlisted
      /\ V.index = T.index /\ V.docs = T.docs /\ V.next = T.next /\ V.gone = T.gone
      /\ V.deleted = T.deleted /\ V.unlisted = T.unlisted
  BY DEF Only, ViewFields
<1>2. /\ V.tab.source = U.tab.source /\ V.tab.list = U.tab.list
      /\ V.tab.pending = U.tab.pending /\ V.tab.synced = U.tab.synced
  BY DEF OnlyTab, TabFields
<1>3. Tidy(own, V)
  BY <1>1 DEF Tidy, Homes, NoneBack
<1>4. ASSUME V.tab.source # NoSource
      PROVE  Homed(own, V)
  <2>1. Housed(own, U, U.tab.list) /\ Agrees(U) /\ U.tab.source \in Sources
    BY <1>2, <1>4 DEF AtHome, Homed
  <2>2. Housed(own, V, V.tab.list)
    BY <1>2, <2>1 DEF Housed
  <2>3. /\ U.deleted \subseteq V.deleted /\ U.unlisted \subseteq V.unlisted
        /\ Listed(U.index[U.tab.source]) \subseteq Listed(V.index[U.tab.source]) \cup V.deleted
        /\ U.tab.source \in Bundled /\ Readable(U.index[U.tab.source]) => Readable(V.index[U.tab.source])
    BY <1>1, <2>1 DEF Grows
  <2>4. Agrees(V)
    BY <1>2, <2>1, <2>3 DEF Agrees
  <2> QED
    BY <1>3, <2>2, <2>4 DEF Homed
<1> QED
  BY <1>3, <1>4 DEF AtHome

LEMMA DataHomed ==
    ASSUME NEW own, NEW S, Settled(S), S.next \in Plans, own[S.next] = S.tab.status.id, AtHome(own, S)
    PROVE  Homed(own, Load(S)) /\ Grows(S, Load(S))
<1> DEFINE s == S.tab.status.id
           L == [S EXCEPT !.tab.status = Status("loaded", s)]
           A == Activate(L, s)
           T == Sync(A)
<1>1. S \in Views /\ s \in Sources /\ Status("loaded", s) \in Statuses
  BY DEF Settled, Stocked, Views, TabViews, Statuses, Status
<1>2. Load(S) = T
  BY DEF Load
<1> HIDE DEF s
<1>3. /\ Settled(L) /\ L.tab.source = S.tab.source /\ L.next = S.next
      /\ L.tab.status = Status("loaded", s) /\ Only(S, L, {"tab"}) /\ OnlyTab(S.tab, L.tab, {"status"})
  BY <1>1, StatusSettled, StatusFacts
<1> HIDE DEF L
<1>4. AtHome(own, L) /\ Grows(S, L)
  <2>1. Only(S, L, {"tab", "me", "refuses"}) /\ OnlyTab(S.tab, L.tab, {"told", "status"})
    BY <1>3 DEF Only, OnlyTab
  <2> QED
    BY <2>1, TabAtHome
<1>5. Fit(A) /\ Done(own, L, A)
  <2>1. CASE S.tab.source = s
    <3>1. A = L
      BY <1>3, <2>1 DEF Activate
    <3>2. S.tab.source # NoSource
      BY <1>1, <2>1, PlanStoreAssumption
    <3>3. Fit(L) /\ Homed(own, L) /\ IsLoaded(L.tab)
      BY <1>3, <1>4, <2>1, <3>2 DEF Settled, AtHome, IsLoaded
    <3> QED
      BY <3>1, <3>3, GrowsItself DEF Done
  <2>2. CASE S.tab.source # s
    <3>1. Stocked(L) /\ Tidy(own, L) /\ own[L.next] = s
      BY <1>3, <1>4 DEF Settled, AtHome, s
    <3>2. Done(own, L, A)
      BY <1>1, <1>3, <2>2, <3>1, ActivateHomed
    <3>3. Fit(A)
      BY <1>1, <1>3, <2>2, <3>1, ActivateEntered DEF Entered
    <3> QED
      BY <3>2, <3>3
  <2> QED
    BY <2>1, <2>2
<1> HIDE DEF A
<1>6. Saved(own, A, T)
  BY <1>5, SyncHomed DEF Done
<1> HIDE DEF T
<1>7. Grows(S, A)
  BY <1>4, <1>5, GrowsBoth DEF Done
<1> QED
  BY <1>2, <1>6, <1>7, GrowsBoth DEF Saved

LEMMA PickHomed ==
    ASSUME NEW own, NEW S, Settled(S), AtHome(own, S), NEW status \in Statuses
    PROVE  LET T == [RemoveCustomPlans(S, NoSource) EXCEPT !.tab.status = status]
           IN  AtHome(own, T) /\ Grows(S, T)
<1> DEFINE R == RemoveCustomPlans(S, NoSource)
           T == [R EXCEPT !.tab.status = status]
<1>1. S \in Views /\ Stocked(S) /\ Tidy(own, S)
  BY DEF Settled, Stocked, AtHome
<1>2. Tidy(own, R) /\ Grows(S, R)
  BY <1>1, RemovedTidy
<1>3. R \in Views /\ R.tab = S.tab
  BY <1>1, RemovedCleared DEF Cleared
<1>4. S.tab.source \in Sources \cup {NoSource}
  BY <1>1 DEF Views, TabViews
<1> HIDE DEF R
<1>5. AtHome(own, R)
  <2>1. Only(S, S, {"tab", "me", "refuses"}) /\ Only(R, R, {"tab", "me", "refuses"})
        /\ OnlyTab(S.tab, R.tab, {"told"})
    BY <1>3 DEF Only, OnlyTab
  <2> QED
    BY <1>2, <1>4, <2>1, OthersAtHome
<1>6. Only(R, T, {"tab"}) /\ OnlyTab(R.tab, T.tab, {"status"})
  BY <1>3, StatusFacts
<1> HIDE DEF T
<1>7. Only(R, T, {"tab", "me", "refuses"}) /\ OnlyTab(R.tab, T.tab, {"told", "status"})
  BY <1>6 DEF Only, OnlyTab
<1>8. AtHome(own, T) /\ Grows(R, T)
  BY <1>5, <1>7, TabAtHome
<1> QED
  BY <1>2, <1>8, GrowsBoth DEF T, R

LEMMA DieHomed ==
    ASSUME NEW own, NEW S, Stocked(S), AtHome(own, S), S.next \in Plans, NEW s \in Sources,
           own[S.next] = s, NEW listed \in BOOLEAN, NEW status \in Statuses
    PROVE  LET P == Prepare(S, s)
               list == StoredList(P, s)
               R == ReadIndex(P, s)
               T == [MigrateAndDie(R, s, list, listed) EXCEPT !.tab = NewTab(status)]
           IN  AtHome(own, T) /\ Grows(S, T)
<1> DEFINE P == Prepare(S, s)
           list == StoredList(P, s)
           R == ReadIndex(P, s)
           raw == R.legacy[LegacyKey(R, s, list)]
           T == [MigrateAndDie(R, s, list, listed) EXCEPT !.tab = NewTab(status)]
<1>1. /\ T.tab = NewTab(status) /\ Adopts(R, T, s, raw, list)
      /\ Only(R, T, {"next", "docs", "index", "legacy", "tab"}) /\ T.next = R.next + 1
  BY DieSafe
<1> HIDE DEF T, raw
<1>2. /\ Tidy(own, P) /\ Grows(S, P) /\ Stocked(P) /\ P.next = S.next
  <2>1. Tidy(own, P) /\ Grows(S, P)
    BY PreparedTidy DEF AtHome
  <2>2. Stocked(P) /\ P.next = S.next
    <3>1. PICK removed : Cleared(S, P, removed)
      BY PreparedCleared DEF Stocked
    <3> HIDE DEF P
    <3> QED
      BY <3>1, ClearedFit DEF Cleared
  <2> QED
    BY <2>1, <2>2
<1> HIDE DEF P
<1>3. /\ Stocked(R) /\ R.next = S.next /\ list \in Seq(Plans)
      /\ \A p \in ToSet(list) : p < S.next
  BY <1>2, ReadStocked, StoredListType
<1>4. /\ Distinct(list) /\ \A p \in ToSet(list) : own[p] = s
      /\ ToSet(list) \cap R.gone \subseteq R.unlisted
      /\ Listed(R.index[s]) \subseteq ToSet(list)
      /\ Tidy(own, R) /\ Grows(P, R)
  BY <1>2, FoundHomed
<1> HIDE DEF R, list
<1>5. Tidy(own, T) /\ Grows(R, T)
  BY <1>1, <1>3, <1>4, AdoptTidy
<1>6. T.tab.source = NoSource
  BY <1>1 DEF NewTab
<1>7. Grows(S, T)
  <2>1. Grows(S, R)
    BY <1>2, <1>4, GrowsBoth
  <2> QED
    BY <1>5, <2>1, GrowsBoth
<1> QED
  BY <1>5, <1>6, <1>7 DEF AtHome, T, R, list, P

-----------------------------------------------------------------------------
(* The invariant of the shared lists, and the actions. *)
HomesOf(own) == own \in [Plans -> Sources] /\ \A t \in Tabs : AtHome(own, View(t, {}))
HomesInv == \E own : HomesOf(own)

(* A step of tab t after which the lists still agree.                       *)
HomeStep(t) ==
    \E own \in [Plans -> Sources], refuses \in SUBSET Kinds :
        \E T : /\ HomesOf(own) /\ Follows(t, T)
               /\ AtHome(own, T) /\ Grows(View(t, refuses), T)

LEMMA ViewHome ==
    ASSUME NEW own, HomesOf(own), NEW t \in Tabs, NEW refuses
    PROVE  AtHome(own, View(t, refuses))
<1> DEFINE S == View(t, {})
           V == View(t, refuses)
<1>1. Only(S, V, {"tab", "me", "refuses"}) /\ OnlyTab(S.tab, V.tab, {"told", "status"})
  BY DEF View, Only, OnlyTab, ViewFields
<1>2. AtHome(own, S)
  BY DEF HomesOf
<1> HIDE DEF S, V
<1>3. AtHome(own, V)
  BY <1>1, <1>2, TabAtHome
<1> QED
  BY <1>3 DEF V

(* The plan drawn next has no home yet. *)
LEMMA NextHome ==
    ASSUME TabsInv, NEW own, HomesOf(own), NEW s \in Sources
    PROVE  HomesOf([own EXCEPT ![next] = s])
<1> DEFINE own2 == [own EXCEPT ![next] = s]
<1>1. own \in [Plans -> Sources] /\ own2 \in [Plans -> Sources]
  BY DEF HomesOf
<1>2. \A p \in Plans : p # next => own2[p] = own[p]
  BY <1>1
<1> HIDE DEF own2
<1>3. ASSUME NEW t \in Tabs
      PROVE  AtHome(own2, View(t, {}))
  <2> DEFINE S == View(t, {})
  <2>1. /\ Settled(S) /\ S \in Views /\ S.next = next /\ S.tab = tabs[t]
        /\ S.tab.source # NoSource => Fit(S)
    BY ViewSettled
  <2>2. AtHome(own, S)
    BY DEF HomesOf
  <2> HIDE DEF S
  <2>3. Stocked(S) /\ \A p \in Plans : p < S.next => own2[p] = own[p]
    BY <1>2, <2>1 DEF Settled, Plans
  <2>4. \A r \in Sources : Listed(S.index[r]) \subseteq Plans
    BY <2>1, IndexKinds, ListedPlans DEF Views
  <2>5. Tidy(own2, S)
    <3>1. Homes(own, S) /\ NoneBack(S)
      BY <2>2 DEF AtHome, Tidy
    <3>2. Homes(own2, S)
      BY <2>3, <2>4, <3>1 DEF Stocked, Drew, Homes
    <3> QED
      BY <3>1, <3>2 DEF Tidy
  <2>6. ASSUME S.tab.source # NoSource
        PROVE  Homed(own2, S)
    <3>1. Homed(own, S) /\ Fit(S)
      BY <2>1, <2>2, <2>6 DEF AtHome
    <3>2. \A p \in ToSet(S.tab.list) : own2[p] = S.tab.source
      BY <2>3, <3>1, ListHomed
    <3>3. Housed(own2, S, S.tab.list)
      BY <3>1, <3>2 DEF Homed, Housed
    <3> QED
      BY <2>5, <3>1, <3>3 DEF Homed
  <2> QED
    BY <2>5, <2>6 DEF AtHome, S
<1> QED
  BY <1>1, <1>3 DEF HomesOf, own2

LEMMA HomeStepKeeps ==
    ASSUME TabsInv, NEW t \in Tabs, HomeStep(t)
    PROVE  HomesInv'
<1>1. PICK own \in [Plans -> Sources], refuses \in SUBSET Kinds :
         \E T : /\ HomesOf(own) /\ Follows(t, T)
                /\ AtHome(own, T) /\ Grows(View(t, refuses), T)
  BY DEF HomeStep
<1>2. PICK T : HomesOf(own) /\ Follows(t, T) /\ AtHome(own, T) /\ Grows(View(t, refuses), T)
  BY <1>1
<1>3. ASSUME NEW u \in Tabs
      PROVE  AtHome(own, View(u, {})')
  <2> DEFINE S == View(t, refuses)
             U == View(u, {})
             V == View(u, {})'
  <2>1. V.tab = tabs'[u] /\ Only(T, V, {"tab", "me", "refuses"})
    BY <1>2 DEF Follows, View, Only, ViewFields
  <2>2. U.tab = tabs[u] /\ Only(U, S, {"tab", "me", "refuses"})
    BY DEF View, Only, ViewFields
  <2>3. AtHome(own, U) /\ Grows(S, T)
    BY <1>2 DEF HomesOf
  <2>4. U.tab.source \in Sources \cup {NoSource}
    BY <2>2 DEF TabsInv, TabViews
  <2> HIDE DEF S, U, V
  <2>5. CASE u = t
    <3>1. V.tab = T.tab
      BY <1>2, <2>1, <2>5 DEF Follows
    <3>2. OnlyTab(T.tab, V.tab, {"told", "status"})
      BY <3>1 DEF OnlyTab
    <3>3. AtHome(own, V)
      BY <1>2, <2>1, <3>2, TabAtHome
    <3> QED
      BY <3>3 DEF V
  <2>6. CASE u # t
    <3>1. OnlyTab(U.tab, V.tab, {"told"})
      BY <1>2, <2>1, <2>2, <2>6 DEF Follows
    <3>2. AtHome(own, V)
      BY <1>2, <2>1, <2>2, <2>3, <2>4, <3>1, OthersAtHome DEF AtHome
    <3> QED
      BY <3>2 DEF V
  <2> QED
    BY <2>5, <2>6
<1>4. HomesOf(own)'
  BY <1>3 DEF HomesOf
<1> QED
  BY <1>4 DEF HomesInv

(* A handler's step, from the view of its tab. *)
LEMMA DoneStep ==
    ASSUME TabsInv, NEW t \in Tabs, NEW refuses \in SUBSET Kinds, NEW own, HomesOf(own),
           NEW T \in Views, Becomes(t, T), AtHome(own, T), Grows(View(t, refuses), T)
    PROVE  HomeStep(t)
<1>1. Follows(t, T)
  BY BecomesFollows
<1> QED
  BY <1>1 DEF HomeStep, HomesOf

LEMMA HandledHome ==
    ASSUME TabsInv, NEW t \in Tabs, NEW refuses \in SUBSET Kinds, NEW own, HomesOf(own),
           NEW T, Handled(View(t, refuses), T), Done(own, View(t, refuses), T), Becomes(t, T)
    PROVE  HomeStep(t)
<1>1. T \in Views
  BY FitViews DEF Handled
<1>2. AtHome(own, T) /\ Grows(View(t, refuses), T)
  BY DEF Done, Homed, AtHome
<1> QED
  BY <1>1, <1>2, DoneStep

(* What an action starts from; the plan it may draw is its data set's.      *)
LEMMA ActsStart ==
    ASSUME TabsInv, HomesInv, NEW t \in Tabs, IsLoaded(tabs[t]), CanDraw, NEW refuses \in SUBSET Kinds
    PROVE  \E own : HomesOf(own) /\ Starts(own, View(t, refuses))
<1> DEFINE S == View(t, refuses)
           s == tabs[t].source
<1>1. PICK own : HomesOf(own)
  BY DEF HomesInv
<1>2. Fit(S) /\ S.next \in Plans /\ S.tab = tabs[t] /\ S.next = next
  BY ActsFit, ViewSettled
<1>3. s \in Sources /\ s # NoSource
  BY DEF IsLoaded, TabsInv, TabViews
<1> DEFINE own2 == [own EXCEPT ![next] = s]
<1>4. HomesOf(own2)
  BY <1>1, <1>3, NextHome
<1>5. own2[next] = s
  BY <1>1, <1>2 DEF HomesOf
<1> HIDE DEF own2
<1>6. AtHome(own2, S)
  BY <1>4, ViewHome
<1> HIDE DEF S
<1>7. Homed(own2, S) /\ IsLoaded(S.tab)
  BY <1>2, <1>3, <1>6 DEF AtHome
<1>8. Starts(own2, S)
  BY <1>2, <1>5, <1>7 DEF Starts
<1> QED
  BY <1>4, <1>8 DEF S

(* An action without a draw. *)
LEMMA LoadedStart ==
    ASSUME TabsInv, NEW own, HomesOf(own), NEW t \in Tabs, IsLoaded(tabs[t]), NEW refuses \in SUBSET Kinds
    PROVE  LET S == View(t, refuses)
           IN  Fit(S) /\ IsLoaded(S.tab) /\ Homed(own, S)
<1> DEFINE S == View(t, refuses)
<1>1. Fit(S) /\ S.tab = tabs[t] /\ AtHome(own, S)
  BY ViewSettled, ViewHome DEF IsLoaded
<1> HIDE DEF S
<1> QED
  BY <1>1 DEF IsLoaded, AtHome, S

LEMMA EditHome ==
    ASSUME TabsInv, HomesInv, NEW t \in Tabs, Edit(t)
    PROVE  HomeStep(t)
<1>1. PICK refuses \in SUBSET Kinds :
         Becomes(t, EditBlocks(View(t, refuses), spent.edits + 1))
  BY DEF Edit, Runs, Kinds
<1>2. PICK own : HomesOf(own)
  BY DEF HomesInv
<1> DEFINE S == View(t, refuses)
           T == EditBlocks(S, spent.edits + 1)
<1>3. Fit(S) /\ IsLoaded(S.tab) /\ Homed(own, S)
  BY <1>2, LoadedStart DEF Edit
<1>4. spent.edits + 1 \in Nat
  BY DEF TabsInv, Counts
<1> HIDE DEF S
<1>5. Handled(S, T) /\ Done(own, S, T)
  BY <1>3, <1>4, EditHandled, EditHomed
<1> HIDE DEF T
<1>6. Becomes(t, T)
  BY <1>1 DEF T, S
<1> QED
  BY <1>2, <1>5, <1>6, HandledHome DEF S

LEMMA SwitchHome ==
    ASSUME TabsInv, HomesInv, NEW t \in Tabs, Switch(t)
    PROVE  HomeStep(t)
<1>1. PICK p \in Plans : Acts(t, LAMBDA S : SwitchPlan(S, p))
  BY DEF Switch
<1>2. PICK refuses \in SUBSET Kinds : Becomes(t, SwitchPlan(View(t, refuses), p))
  BY <1>1 DEF Acts, Runs, Kinds
<1> DEFINE S == View(t, refuses)
           T == SwitchPlan(S, p)
<1>3. PICK own : HomesOf(own) /\ Starts(own, S)
  BY <1>1, ActsStart DEF Acts
<1> HIDE DEF S
<1>4. Handled(S, T) /\ Done(own, S, T)
  BY <1>3, SwitchHandled, SwitchHomed DEF Starts
<1> HIDE DEF T
<1>5. Becomes(t, T)
  BY <1>2 DEF T, S
<1> QED
  BY <1>3, <1>4, <1>5, HandledHome DEF S

LEMMA CreateHome ==
    ASSUME TabsInv, HomesInv, NEW t \in Tabs, Create(t)
    PROVE  HomeStep(t)
<1>1. PICK refuses \in SUBSET Kinds : Becomes(t, CreatePlan(View(t, refuses)))
  BY DEF Create, Acts, Runs, Kinds
<1> DEFINE S == View(t, refuses)
           T == CreatePlan(S)
<1>2. PICK own : HomesOf(own) /\ Starts(own, S)
  BY ActsStart DEF Create, Acts
<1> HIDE DEF S
<1>3. Handled(S, T) /\ Done(own, S, T)
  BY <1>2, CreateHandled, CreateHomed DEF Starts
<1> HIDE DEF T
<1>4. Becomes(t, T)
  BY <1>1 DEF T, S
<1> QED
  BY <1>2, <1>3, <1>4, HandledHome DEF S

LEMMA DuplicateHome ==
    ASSUME TabsInv, HomesInv, NEW t \in Tabs, Duplicate(t)
    PROVE  HomeStep(t)
<1>1. PICK refuses \in SUBSET Kinds : Becomes(t, DuplicatePlan(View(t, refuses)))
  BY DEF Duplicate, Acts, Runs, Kinds
<1> DEFINE S == View(t, refuses)
           T == DuplicatePlan(S)
<1>2. PICK own : HomesOf(own) /\ Starts(own, S)
  BY ActsStart DEF Duplicate, Acts
<1> HIDE DEF S
<1>3. Handled(S, T) /\ Done(own, S, T)
  BY <1>2, DuplicateHandled, DuplicateHomed DEF Starts
<1> HIDE DEF T
<1>4. Becomes(t, T)
  BY <1>1 DEF T, S
<1> QED
  BY <1>2, <1>3, <1>4, HandledHome DEF S

LEMMA RenameHome ==
    ASSUME TabsInv, HomesInv, NEW t \in Tabs, Rename(t)
    PROVE  HomeStep(t)
<1>1. PICK refuses \in SUBSET Kinds : Becomes(t, RenamePlan(View(t, refuses), tabs[t].active))
  BY DEF Rename, Acts, Runs, Kinds
<1> DEFINE S == View(t, refuses)
           p == tabs[t].active
           T == RenamePlan(S, p)
<1>2. PICK own : HomesOf(own) /\ Starts(own, S)
  BY ActsStart DEF Rename, Acts
<1> HIDE DEF S, p
<1>3. Handled(S, T) /\ Done(own, S, T)
  BY <1>2, RenameHandled, RenameHomed DEF Starts
<1> HIDE DEF T
<1>4. Becomes(t, T)
  BY <1>1 DEF T, S, p
<1> QED
  BY <1>2, <1>3, <1>4, HandledHome DEF S

LEMMA DeleteHome ==
    ASSUME TabsInv, HomesInv, NEW t \in Tabs, Delete(t)
    PROVE  HomeStep(t)
<1>1. PICK refuses \in SUBSET Kinds : Becomes(t, DeletePlan(View(t, refuses), tabs[t].active))
  BY DEF Delete, Acts, Runs, Kinds
<1> DEFINE S == View(t, refuses)
           T == DeletePlan(S, S.tab.active)
<1>2. PICK own : HomesOf(own) /\ Starts(own, S)
  BY ActsStart DEF Delete, Acts
<1>3. S.tab = tabs[t]
  BY DEF View
<1> HIDE DEF S
<1>4. Handled(S, T) /\ Done(own, S, T)
  BY <1>2, DeleteHandled, DeleteHomed DEF Starts
<1> HIDE DEF T
<1>5. Becomes(t, T)
  BY <1>1, <1>3 DEF T, S
<1> QED
  BY <1>2, <1>4, <1>5, HandledHome DEF S

LEMMA ImportHome ==
    ASSUME TabsInv, HomesInv, NEW t \in Tabs, Import(t)
    PROVE  HomeStep(t)
<1>1. PICK refuses \in SUBSET Kinds : Becomes(t, ImportPlanAsNew(View(t, refuses), MaxEdits + 1))
  BY DEF Import, Acts, Runs, Kinds
<1> DEFINE S == View(t, refuses)
           T == ImportPlanAsNew(S, MaxEdits + 1)
<1>2. PICK own : HomesOf(own) /\ Starts(own, S)
  BY ActsStart DEF Import, Acts
<1>3. MaxEdits + 1 \in Nat
  BY PlanTabsAssumption
<1> HIDE DEF S
<1>4. Handled(S, T) /\ Done(own, S, T)
  BY <1>2, <1>3, ImportHandled, ImportHomed DEF Starts
<1> HIDE DEF T
<1>5. Becomes(t, T)
  BY <1>1 DEF T, S
<1> QED
  BY <1>2, <1>4, <1>5, HandledHome DEF S

LEMMA PickHome ==
    ASSUME TabsInv, HomesInv, NEW t \in Tabs, NEW s \in Bundled, PickBundled(t, s)
    PROVE  HomeStep(t)
<1> DEFINE S == View(t, {})
           status == Status("loading", s)
           T == [RemoveCustomPlans(S, NoSource) EXCEPT !.tab.status = status]
<1>1. Becomes(t, T) /\ {} \in SUBSET Kinds
  BY DEF PickBundled
<1>2. PICK own : HomesOf(own)
  BY DEF HomesInv
<1>3. Settled(S) /\ AtHome(own, S) /\ status \in Statuses
  BY <1>2, ViewHome DEF TabsInv, Status, Statuses, Sources
<1> HIDE DEF S, status
<1>4. AtHome(own, T) /\ Grows(S, T) /\ Settled(T)
  BY <1>3, PickHomed, PickSafe
<1> HIDE DEF T
<1>5. T \in Views
  BY <1>4 DEF Settled, Stocked
<1> QED
  BY <1>1, <1>2, <1>4, <1>5, DoneStep DEF S

LEMMA DataHome ==
    ASSUME TabsInv, HomesInv, NEW t \in Tabs, DataLoaded(t)
    PROVE  HomeStep(t)
<1>1. PICK refuses \in SUBSET Kinds : Becomes(t, Load(View(t, refuses)))
  BY DEF DataLoaded, Kinds
<1> DEFINE S == View(t, refuses)
           s == tabs[t].status.id
           T == Load(S)
<1>2. PICK own : HomesOf(own)
  BY DEF HomesInv
<1>3. Settled(S) /\ S \in Views /\ S.next = next /\ S.tab = tabs[t]
  BY ViewSettled
<1>4. s \in Sources
  BY DEF TabsInv, TabViews, Statuses
<1>5. next \in Plans
  <2>1. S.next \in Nat
    <3> HIDE DEF S
    <3> QED
      BY <1>3 DEF Views
  <2>2. next \in Nat /\ next < MaxPlans
    BY <1>3, <2>1 DEF DataLoaded, CanDraw
  <2> QED
    BY <2>2, PlanStoreAssumption DEF Plans, TabsInv
<1> DEFINE own2 == [own EXCEPT ![next] = s]
<1>6. HomesOf(own2) /\ own2[next] = s
  BY <1>2, <1>4, <1>5, NextHome DEF HomesOf
<1> HIDE DEF own2
<1>7. AtHome(own2, S) /\ own2[S.next] = S.tab.status.id
  BY <1>3, <1>6, ViewHome
<1> HIDE DEF S
<1>8. Fit(T) /\ Homed(own2, T) /\ Grows(S, T)
  BY <1>3, <1>5, <1>7, LoadSafe, DataHomed
<1> HIDE DEF T
<1>9. T \in Views /\ AtHome(own2, T)
  BY <1>8, FitViews DEF Homed, AtHome
<1>10. Becomes(t, T)
  BY <1>1 DEF T, S
<1> QED
  BY <1>6, <1>8, <1>9, <1>10, DoneStep DEF S

(* A step that changes nothing but the status of one tab, or opens it anew. *)
LEMMA TabHome ==
    ASSUME TabsInv, HomesInv, NEW t \in Tabs, NEW u \in TabViews, tabs' = [tabs EXCEPT ![t] = u],
           UNCHANGED <<storage, next, history>>,
           u.source = NoSource \/ OnlyTab(tabs[t], u, {"told", "status"})
    PROVE  HomeStep(t)
<1> DEFINE S == View(t, {})
           T == [S EXCEPT !.tab = u]
<1>1. PICK own : HomesOf(own)
  BY DEF HomesInv
<1>2. AtHome(own, S) /\ S.tab = tabs[t]
  BY <1>1, ViewHome DEF View
<1>3. Only(S, T, {"tab", "me", "refuses"}) /\ T.tab = u
  BY DEF Only, ViewFields, View
<1>4. Follows(t, T)
  <2>1. /\ index' = T.index /\ docs' = T.docs /\ legacy' = T.legacy /\ copies' = T.copies
        /\ next' = T.next /\ uncopied' = T.uncopied /\ writer' = T.writer
        /\ deleted' = T.deleted /\ gone' = T.gone /\ unlisted' = T.unlisted
    BY DEF View, storage, history
  <2>2. /\ tabs' \in [Tabs -> TabViews] /\ tabs'[t] = u
        /\ \A w \in Tabs \ {t} : tabs'[w] = tabs[w]
    BY DEF TabsInv
  <2> HIDE DEF T
  <2> QED
    BY <1>3, <2>1, <2>2 DEF Follows, OnlyTab
<1> HIDE DEF T, S
<1>5. AtHome(own, T) /\ Grows(S, T)
  BY <1>2, <1>3, TabAtHome
<1> QED
  BY <1>1, <1>4, <1>5 DEF HomeStep, HomesOf, S

LEMMA UploadHome ==
    ASSUME TabsInv, HomesInv, NEW t \in Tabs, NEW s \in Uploads, Upload(t, s)
    PROVE  HomeStep(t)
<1> DEFINE u == [tabs[t] EXCEPT !.status = Status("loading", s)]
<1>1. Status("loading", s) \in Statuses
  BY DEF Status, Statuses, Sources
<1>2. u \in TabViews /\ OnlyTab(tabs[t], u, {"told", "status"})
  BY <1>1 DEF TabsInv, TabViews, OnlyTab, TabFields
<1>3. tabs' = [tabs EXCEPT ![t] = u] /\ UNCHANGED <<storage, next, history>>
  BY DEF Upload
<1> HIDE DEF u
<1> QED
  BY <1>2, <1>3, TabHome

LEMMA FailHome ==
    ASSUME TabsInv, HomesInv, NEW t \in Tabs, DataFails(t)
    PROVE  HomeStep(t)
<1> DEFINE status == Status("error", tabs[t].status.id)
           u == [tabs[t] EXCEPT !.status = status]
<1>1. status \in Statuses
  BY DEF Status, Statuses, TabsInv, TabViews
<1>2. tabs' = [tabs EXCEPT ![t] = u] /\ UNCHANGED <<storage, next, history>>
  BY DEF DataFails, TabsInv, TabViews, vars
<1> HIDE DEF status
<1>3. u \in TabViews /\ OnlyTab(tabs[t], u, {"told", "status"})
  BY <1>1 DEF TabsInv, TabViews, OnlyTab, TabFields
<1> HIDE DEF u
<1> QED
  BY <1>2, <1>3, TabHome

LEMMA ReloadHome ==
    ASSUME TabsInv, HomesInv, NEW t \in Tabs, Reload(t)
    PROVE  HomeStep(t)
<1> DEFINE u == NewTab(Status("loading", choice))
<1>1. u \in TabViews /\ u.source = NoSource
  BY NewTabType DEF Status, Statuses, TabsInv
<1>2. tabs' = [tabs EXCEPT ![t] = u] /\ UNCHANGED <<storage, next, history>>
  BY DEF Reload
<1> HIDE DEF u
<1> QED
  BY <1>1, <1>2, TabHome

LEMMA DieHome ==
    ASSUME TabsInv, HomesInv, NEW t \in Tabs, DieMigrating(t)
    PROVE  HomeStep(t)
<1> DEFINE S == View(t, {})
           s == tabs[t].status.id
           status == Status("loading", choice)
           P == Prepare(S, s)
           list == StoredList(P, s)
           R == ReadIndex(P, s)
<1>1. PICK listed \in BOOLEAN :
         Becomes(t, [MigrateAndDie(R, s, list, listed) EXCEPT !.tab = NewTab(status)])
  BY DEF DieMigrating
<1> DEFINE T == [MigrateAndDie(R, s, list, listed) EXCEPT !.tab = NewTab(status)]
<1>2. PICK own : HomesOf(own)
  BY DEF HomesInv
<1>3. Stocked(S) /\ S \in Views /\ S.next = next
  BY ViewSettled DEF Settled
<1>4. s \in Sources /\ status \in Statuses
  BY DEF Status, Statuses, TabsInv, TabViews
<1>5. next \in Plans
  <2>1. S.next \in Nat
    <3> HIDE DEF S
    <3> QED
      BY <1>3 DEF Views
  <2>2. next \in Nat /\ next < MaxPlans
    BY <1>3, <2>1 DEF DieMigrating, CanDraw
  <2> QED
    BY <2>2, PlanStoreAssumption DEF Plans, TabsInv
<1> DEFINE own2 == [own EXCEPT ![next] = s]
<1>6. HomesOf(own2) /\ own2[next] = s
  BY <1>2, <1>4, <1>5, NextHome DEF HomesOf
<1> HIDE DEF own2
<1>7. AtHome(own2, S) /\ own2[S.next] = s /\ S.next \in Plans
  BY <1>3, <1>5, <1>6, ViewHome
<1> HIDE DEF S, s, status
<1>8. AtHome(own2, T) /\ Grows(S, T) /\ T \in Views
  BY <1>3, <1>4, <1>7, DieHomed, DieSafe
<1>9. Becomes(t, T) /\ {} \in SUBSET Kinds
  BY <1>1
<1> HIDE DEF T
<1> QED
  BY <1>6, <1>8, <1>9, DoneStep DEF S

LEMMA EventHome ==
    ASSUME TabsInv, HomesInv, NEW t \in Tabs, StorageEvent(t)
    PROVE  HomeStep(t)
<1> DEFINE S == View(t, {})
           T == Sync(S)
<1>1. Becomes(t, T) /\ {} \in SUBSET Kinds
  BY DEF StorageEvent
<1>2. PICK own : HomesOf(own)
  BY DEF HomesInv
<1>3. Fit(S) /\ IsLoaded(S.tab) /\ Homed(own, S)
  BY <1>1, <1>2, LoadedStart DEF StorageEvent
<1> HIDE DEF S
<1>4. Handled(S, T) /\ Done(own, S, T)
  BY <1>3, SyncHandled, SyncHomed DEF Saved, Done
<1> HIDE DEF T
<1> QED
  BY <1>1, <1>2, <1>4, HandledHome DEF S

LEMMA NextHomes ==
    ASSUME TabsInv, HomesInv, [Next]_vars
    PROVE  HomesInv'
<1>1. CASE Next
  <2>1. PICK t \in Tabs :
           \/ Edit(t) \/ Switch(t) \/ Create(t) \/ Duplicate(t) \/ Rename(t) \/ Delete(t)
           \/ Import(t) \/ (\E s \in Bundled : PickBundled(t, s)) \/ (\E u \in Uploads : Upload(t, u))
           \/ DataLoaded(t) \/ DataFails(t) \/ Reload(t) \/ DieMigrating(t) \/ StorageEvent(t)
    BY <1>1 DEF Next
  <2>2. HomeStep(t)
    BY <2>1, EditHome, SwitchHome, CreateHome, DuplicateHome, RenameHome, DeleteHome, ImportHome,
       PickHome, UploadHome, DataHome, FailHome, ReloadHome, DieHome, EventHome
  <2> QED
    BY <2>2, HomeStepKeeps
<1>2. CASE UNCHANGED vars
  <2>1. \A t \in Tabs : View(t, {})' = View(t, {})
    BY <1>2 DEF vars, storage, history, View
  <2>2. PICK own : HomesOf(own)
    BY DEF HomesInv
  <2>3. HomesOf(own)'
    BY <2>1, <2>2 DEF HomesOf
  <2> QED
    BY <2>3 DEF HomesInv
<1> QED
  BY <1>1, <1>2

LEMMA InitHomes ==
    ASSUME Init
    PROVE  HomesInv
<1>1. PICK raw \in {Absent, Corrupt, Index(<<1, 2>>, 1)}, bad \in BOOLEAN, b \in Bundled :
         /\ index = [s \in Sources |-> IF s = b THEN raw ELSE Absent]
         /\ docs = [s \in Sources |-> [p \in Plans |->
                      IF s # b \/ raw = Absent \/ p > 2 THEN Absent
                      ELSE IF bad /\ p = 1 THEN Corrupt ELSE Content(p, 0)]]
  BY DEF Init
<1> DEFINE own == [p \in Plans |-> b]
<1>2. gone = {} /\ deleted = {} /\ unlisted = {}
  BY DEF Init
<1>3. b \in Sources /\ b \notin Uploads /\ Distinct(<<1, 2>>)
  BY PlanStoreAssumption DEF Sources, Distinct
<1>4. \A s \in Sources, p \in Plans : docs[s][p] # Absent => s = b
  BY <1>1
<1>5. \A s \in Sources : index[s] # Absent => s = b /\ index[s] = raw
  BY <1>1
<1>6. \A p \in Listed(raw) : p \in Plans
  <2>1. 1 \in Plans /\ 2 \in Plans
    BY PlanTabsAssumption, PlanStoreAssumption DEF Plans
  <2>2. ToSet(<<1, 2>>) = {1, 2}
    BY DEF ToSet
  <2> QED
    BY <2>1, <2>2, CorruptKinds, IndexListed
<1>7. Readable(raw) => raw.plans = <<1, 2>>
  BY CorruptKinds, IndexListed
<1>8. ASSUME NEW t \in Tabs
      PROVE  AtHome(own, View(t, {}))
  <2> DEFINE S == View(t, {})
  <2>1. /\ S.docs = docs /\ S.index = index /\ S.gone = {} /\ S.deleted = {}
        /\ S.unlisted = {} /\ S.tab = tabs[t]
    BY <1>2 DEF View
  <2>2. S.tab.source = NoSource
    BY <2>1 DEF Init, NewTab
  <2> HIDE DEF S
  <2>3. Homes(own, S)
    <3>1. \A r \in Sources, p \in Plans : S.docs[r][p] # Absent => own[p] = r
      BY <1>4, <2>1
    <3>2. \A r \in Sources : \A p \in Listed(S.index[r]) : own[p] = r
      BY <1>5, <1>6, <2>1, CorruptKinds
    <3>3. \A r \in Sources : Readable(S.index[r]) => Distinct(S.index[r].plans)
      BY <1>3, <1>5, <1>7, <2>1, CorruptKinds
    <3>4. \A u \in Uploads : S.index[u] # Corrupt
      BY <1>3, <1>5, <2>1, CorruptKinds DEF Sources
    <3> QED
      BY <2>1, <3>1, <3>2, <3>3, <3>4 DEF Homes
  <2> QED
    BY <2>1, <2>2, <2>3 DEF AtHome, Tidy, NoneBack, S
<1>9. own \in [Plans -> Sources]
  BY <1>3
<1> HIDE DEF own
<1>10. HomesOf(own)
  BY <1>8, <1>9 DEF HomesOf
<1> QED
  BY <1>10 DEF HomesInv

(* The invariant of the shared lists: a plan has one data set to be stored  *)
(* and listed in, what is gone is in none, and every tab's list is the one  *)
(* it merged last, with what it could not list and what was deleted since.  *)
THEOREM TabsHomes == Spec => []HomesInv
<1>1. Init => HomesInv
  BY InitHomes
<1>2. TabsInv /\ HomesInv /\ [Next]_vars => HomesInv'
  BY NextHomes
<1> QED
  BY <1>1, <1>2, TabsInvariant, PTL DEF Spec

(* A plan deleted, or dropped with its upload, is neither listed nor stored *)
(* again, whatever the tabs do that were not told yet: every write of the   *)
(* list or of a plan's key comes after a merge (syncPlanIndex).             *)
THEOREM TabsGoneIsGone == Spec => []GoneIsGone
<1>1. HomesInv => GoneIsGone
  <2> SUFFICES ASSUME HomesInv
               PROVE  GoneIsGone
    OBVIOUS
  <2>1. PICK t \in Tabs : TRUE
    BY PlanTabsAssumption
  <2>2. PICK own : AtHome(own, View(t, {}))
    BY DEF HomesInv, HomesOf
  <2>3. NoneBack(View(t, {}))
    BY <2>2 DEF AtHome, Tidy
  <2> QED
    BY <2>3 DEF NoneBack, GoneIsGone, View
<1> QED
  BY <1>1, TabsHomes, PTL

LEMMA EventMoves ==
    ASSUME TabsInv, HomesInv, NEW t \in Tabs, StorageEvent(t), tabs'[t].active # tabs[t].active
    PROVE  tabs[t].active \in deleted
<1> DEFINE S == View(t, {})
           T == Sync(S)
           raw == S.index[S.tab.source]
<1>1. tabs'[t] = T.tab /\ S.tab = tabs[t] /\ S.deleted = deleted
  BY DEF StorageEvent, Becomes, View
<1>2. PICK own : HomesOf(own)
  BY DEF HomesInv
<1>3. Fit(S) /\ IsLoaded(S.tab) /\ Homed(own, S)
  BY <1>2, LoadedStart DEF StorageEvent
<1> HIDE DEF S
<1>4. Synced(S, T) /\ Fit(T)
  BY <1>3, SyncFit
<1>5. S.tab.active \in ToSet(S.tab.list)
  BY <1>3, ListHomed
<1> HIDE DEF T
<1>6. ~Quiet(S, T)
  BY <1>1 DEF Quiet, OnlyTab, TabFields
<1>7. Merging(S, T)
  BY <1>4, <1>6 DEF Synced
<1>8. /\ Readable(raw) /\ S.tab.active \notin ToSet(raw.plans)
      /\ S.tab.active \notin S.tab.pending
  BY <1>1, <1>5, <1>7 DEF Merging
<1>9. S.tab.active \notin Listed(raw)
  BY <1>8 DEF Listed
<1>10. S.tab.active \in S.deleted
  BY <1>3, <1>5, <1>8, <1>9 DEF Homed, Agrees
<1> QED
  BY <1>1, <1>10

(* A merge of the shared list moves a tab off its plan only when the plan   *)
(* was deleted (syncPlanIndex keeps the plans the tab could not list).      *)
THEOREM TabsNoEviction == Spec => NoEviction
<1>1. TabsInv /\ HomesInv /\ [Next]_vars =>
        [\A t \in Tabs :
           StorageEvent(t) /\ tabs'[t].active # tabs[t].active
              => tabs[t].active \in deleted]_vars
  BY EventMoves
<1> QED
  BY <1>1, TabsInvariant, TabsHomes, PTL DEF Spec, NoEviction

-----------------------------------------------------------------------------
(* What a tab shows of the plan it wrote last is what is stored: every      *)
(* change of the screen ends in a save, and every other tab that changes    *)
(* the key signs for it.                                                    *)
Saves(S, T) == Signed(S, T) /\ Autosaved(T)

LEMMA SavesBoth ==
    ASSUME NEW S, NEW T, NEW U, Signed(S, T)
    PROVE  /\ Saves(T, U) => Saves(S, U)
           /\ Saves(S, U) => Keeps(S, U)
BY SignedBoth DEF Saves, Keeps

LEMMA LoadedKept ==
    ASSUME NEW S, NEW T, Kept(S, T), IsLoaded(S.tab)
    PROVE  IsLoaded(T.tab)
BY DEF Kept, IsLoaded

LEMMA SyncKeeps ==
    ASSUME NEW S, Fit(S)
    PROVE  /\ Keeps(S, Sync(S)) /\ Kept(S, Sync(S)) /\ Fit(Sync(S))
           /\ IsLoaded(S.tab) => IsLoaded(Sync(S).tab)
<1> DEFINE T == Sync(S)
<1>1. Fit(T) /\ Synced(S, T) /\ Kept(S, T)
  BY SyncFit, SyncKept
<1> HIDE DEF T
<1>2. ASSUME Quiet(S, T)
      PROVE  Keeps(S, T)
  <2>1. /\ T.me = S.me /\ T.docs = S.docs /\ T.writer = S.writer
        /\ T.tab.source = S.tab.source /\ T.tab.active = S.tab.active /\ T.tab.shown = S.tab.shown
    BY <1>2 DEF Quiet, Only, OnlyTab, ViewFields, TabFields
  <2>2. S.tab.removed => T.tab.removed
    BY <1>2 DEF Quiet
  <2> QED
    BY <2>1, <2>2, SameKeeps
<1>3. Keeps(S, T)
  BY <1>1, <1>2 DEF Synced, Merging
<1> QED
  BY <1>1, <1>3, LoadedKept DEF T

LEMMA SaveSaves ==
    ASSUME NEW S, Fit(S), IsLoaded(S.tab)
    PROVE  Saves(S, Save(S))
<1> DEFINE Y == Sync(S)
<1>1. Fit(Y) /\ Keeps(S, Y)
  BY SyncKeeps
<1>2. Save(S) = Stored(Y)
  <2>1. S.tab.status.kind # "loading"
    BY DEF IsLoaded, Status
  <2> QED
    BY <2>1, SaveFit
<1> HIDE DEF Y
<1>3. Saves(Y, Stored(Y))
  BY <1>1, FitViews, StoredSigned DEF Saves
<1> QED
  BY <1>1, <1>2, <1>3, SavesBoth DEF Keeps

LEMMA ShowSaves ==
    ASSUME NEW S, Ready(S), ActiveKept(S), NEW c \in Contents,
           c.kind = "plan", c.plan \in {S.tab.active, 0}, IsLoaded(S.tab)
    PROVE  Saves(S, Show(S, c))
<1> DEFINE R == [S EXCEPT !.tab.shown = c]
<1>1. S \in Views
  BY DEF Ready, Stocked
<1>2. R \in Views /\ Only(S, R, {"tab"}) /\ OnlyTab(S.tab, R.tab, {"shown"}) /\ R.tab.shown = c
  BY <1>1, ShownFacts
<1>3. Show(S, c) = Save(R)
  BY DEF Show
<1> HIDE DEF R
<1>4. /\ R.index = S.index /\ R.docs = S.docs /\ R.next = S.next /\ R.me = S.me
      /\ R.copies = S.copies /\ R.uncopied = S.uncopied /\ R.writer = S.writer
      /\ R.tab.source = S.tab.source /\ R.tab.list = S.tab.list /\ R.tab.active = S.tab.active
      /\ R.tab.status = S.tab.status
  BY <1>2 DEF Only, ViewFields, OnlyTab, TabFields
<1>5. Seen(R) = Seen(S)
  BY <1>4 DEF Seen
<1>6. Fit(R)
  BY <1>2, <1>4, <1>5 DEF Fit, Ready, Stocked, OwnDocs, Drew, Opens, OnScreen, ActiveKept
<1>7. IsLoaded(R.tab)
  BY <1>4 DEF IsLoaded
<1>8. Signed(S, R) /\ Saves(R, Save(R))
  BY <1>4, <1>6, <1>7, SameKeeps, SaveSaves
<1> QED
  BY <1>3, <1>8, SavesBoth

(* A stored plan, or none, replaces the one on screen. *)
LEMMA LoadSaves ==
    ASSUME NEW S, Ready(S), NEW raw \in Contents, Fit(Opened(S, raw)), IsLoaded(S.tab),
           raw = Corrupt => ActiveDoc(S).kind # "plan"
    PROVE  Saves(S, LoadActivePlan(S, raw))
<1> DEFINE O == Opened(S, raw)
<1>1. S \in Views /\ Opens(S) /\ S.tab.source \in Sources /\ S.tab.active \in Plans
  BY OpenType DEF Ready, Stocked, Opens
<1>2. OnlyTab(S.tab, O.tab, {"shown"})
  BY <1>1, OpenedFacts
<1>3. Signed(S, O)
  BY <1>1, OpenedSigned
<1>4. LoadActivePlan(S, raw) = Save(O) /\ Fit(O)
  BY DEF LoadActivePlan
<1> HIDE DEF O
<1>5. IsLoaded(O.tab)
  BY <1>2 DEF IsLoaded, OnlyTab, TabFields
<1>6. Saves(O, Save(O))
  BY <1>4, <1>5, SaveSaves
<1> QED
  BY <1>3, <1>4, <1>6, SavesBoth

LEMMA OpenActiveSaves ==
    ASSUME NEW S, Ready(S), IsLoaded(S.tab)
    PROVE  Saves(S, OpenActive(S))
<1>1. ActiveDoc(S) \in Contents
  <2>1. S \in Views /\ S.tab.source \in Sources /\ S.tab.active \in Plans
    BY OpenType DEF Ready, Stocked, Opens
  <2> QED
    BY <2>1 DEF ActiveDoc, Views
<1>2. Fit(Opened(S, ActiveDoc(S)))
  BY OpenedFit
<1>3. OpenActive(S) = LoadActivePlan(S, ActiveDoc(S))
  BY DEF OpenActive
<1>4. ActiveDoc(S) = Corrupt => ActiveDoc(S).kind # "plan"
  BY DEF Corrupt
<1> QED
  BY <1>1, <1>2, <1>3, <1>4, LoadSaves

(* Writing the list moves no key. *)
LEMMA CommitSigned ==
    ASSUME NEW S, Ready(S), NEW list \in Lists, NEW active \in ToSet(list), NEW changed \in BOOLEAN,
           \A p \in ToSet(list) : p < S.next
    PROVE  LET T == CommitIndex(S, list, active, changed)
           IN  /\ Ready(T) /\ Signed(S, T) /\ (active = S.tab.active => Keeps(S, T))
               /\ IsLoaded(S.tab) => IsLoaded(T.tab)
               /\ T.tab.active = active /\ T.docs = S.docs /\ T.tab.source = S.tab.source
<1> DEFINE T == CommitIndex(S, list, active, changed)
<1>1. /\ Ready(T) /\ Only(S, T, {"index", "tab", "unlisted"})
      /\ OnlyTab(S.tab, T.tab, {"list", "active", "pending", "synced", "unwritten"})
      /\ T.tab.active = active
  BY CommitReady
<1> HIDE DEF T
<1>2. /\ T.me = S.me /\ T.docs = S.docs /\ T.writer = S.writer
      /\ T.tab.source = S.tab.source /\ T.tab.shown = S.tab.shown
      /\ T.tab.removed = S.tab.removed /\ T.tab.status = S.tab.status
  BY <1>1 DEF Only, OnlyTab, ViewFields, TabFields
<1>3. Signed(S, T) /\ (active = S.tab.active => Keeps(S, T))
  BY <1>1, <1>2, SameKeeps
<1>4. IsLoaded(S.tab) => IsLoaded(T.tab)
  BY <1>2 DEF IsLoaded
<1> QED
  BY <1>1, <1>2, <1>3, <1>4 DEF T

(* A fresh plan is shown. *)
LEMMA AddPlanSaves ==
    ASSUME NEW M, Fit(M), M.next \in Plans, IsLoaded(M.tab), NEW list \in Lists,
           M.next \in ToSet(list), \A p \in ToSet(list) : p <= M.next,
           NEW c \in Contents, c.kind = "plan", c.plan = M.next
    PROVE  Saves(M, AddPlan(M, list, c))
<1> DEFINE D == Drawn(M)
           C == CommitIndex(D, list, M.next, TRUE)
<1>0. M \in Views /\ Ready(M) /\ M.tab.source \in Sources /\ Drew(M)
  BY FitViews DEF Opens
<1>1. /\ Ready(D) /\ D.next = M.next + 1 /\ D.tab = M.tab /\ D.docs = M.docs
      /\ Signed(M, D)
  <2>1. D.docs = M.docs /\ D.me = M.me /\ D.writer = M.writer
    BY <1>0, DrawnFacts DEF Only, ViewFields
  <2> QED
    BY <1>0, <2>1, DrawnPassed, SameKeeps DEF Passed
<1>2. AddPlan(M, list, c) = Show(C, c)
  BY DEF AddPlan, Fresh
<1> HIDE DEF D
<1>3. \A p \in ToSet(list) : p < D.next
  <2>1. ToSet(list) \subseteq Plans
    BY ListedPlans
  <2> QED
    BY <1>1, <2>1 DEF Plans
<1>4. /\ Ready(C) /\ Signed(D, C) /\ IsLoaded(C.tab) /\ C.tab.active = M.next
      /\ C.docs = M.docs /\ C.tab.source = M.tab.source
  <2>1. /\ Ready(C) /\ Signed(D, C) /\ (IsLoaded(D.tab) => IsLoaded(C.tab))
        /\ C.tab.active = M.next /\ C.docs = D.docs /\ C.tab.source = D.tab.source
    BY <1>1, <1>3, CommitSigned
  <2> QED
    BY <1>1, <2>1
<1> HIDE DEF C
<1>5. ActiveKept(C)
  <2>1. ~(M.next < M.next)
    BY DEF Plans
  <2>2. M.docs[M.tab.source][M.next] = Absent
    BY <1>0, <2>1 DEF Drew
  <2> QED
    BY <1>4, <2>2 DEF ActiveKept, Absent, Corrupt
<1>6. Saves(C, Show(C, c))
  BY <1>4, <1>5, ShowSaves
<1>7. Signed(M, C)
  BY <1>1, <1>4, SignedBoth
<1> QED
  BY <1>2, <1>6, <1>7, SavesBoth

(* What the plan actions do to a tab that is loaded. *)
LEMMA HandlerStarts ==
    ASSUME NEW S, Fit(S), IsLoaded(S.tab)
    PROVE  LET M == Sync(S)
               V == Save(M)
           IN  /\ Fit(M) /\ Keeps(S, M) /\ Synced(S, M) /\ M.next = S.next /\ IsLoaded(M.tab)
               /\ Fit(V) /\ Signed(S, V) /\ Saves(M, V) /\ V.next = S.next /\ IsLoaded(V.tab)
<1> DEFINE M == Sync(S)
           V == Save(M)
<1>1. Fit(M) /\ Keeps(S, M) /\ Synced(S, M) /\ M.next = S.next /\ IsLoaded(M.tab)
  BY SyncFit, SyncKeeps DEF Kept
<1> HIDE DEF M
<1>2. Fit(V) /\ Saves(M, V) /\ V.next = M.next /\ IsLoaded(V.tab)
  BY <1>1, SaveFit, SaveSaves, LoadedKept DEF Kept
<1> HIDE DEF V
<1>3. Signed(S, V)
  BY <1>1, <1>2, SignedBoth DEF Keeps, Saves
<1> QED
  BY <1>1, <1>2, <1>3 DEF M, V

LEMMA AddLastKeeps ==
    ASSUME NEW S, Fit(S), IsLoaded(S.tab), S.next \in Plans,
           NEW c \in Contents, c.kind = "plan", c.plan = S.next
    PROVE  Keeps(S, AddLast(Save(Sync(S)), c))
<1> DEFINE M == Save(Sync(S))
           list == Append(M.tab.list, M.next)
<1>1. Fit(M) /\ Signed(S, M) /\ M.next = S.next /\ IsLoaded(M.tab)
  BY HandlerStarts
<1> HIDE DEF M
<1>2. M.tab.list \in Seq(Plans) /\ \A p \in ToSet(M.tab.list) : p <= M.next
  BY <1>1, FitViews, ListBelow
<1>3. list \in Lists /\ M.next \in ToSet(list) /\ \A p \in ToSet(list) : p <= M.next
  <2>1. list \in Lists /\ ToSet(list) = ToSet(M.tab.list) \cup {M.next}
    BY <1>1, <1>2, AppendType
  <2>2. M.next <= M.next
    BY <1>1 DEF Plans
  <2> QED
    BY <1>2, <2>1, <2>2
<1>4. AddLast(M, c) = AddPlan(M, list, c)
  BY DEF AddLast, Fresh
<1> HIDE DEF list
<1>5. Saves(M, AddPlan(M, list, c))
  BY <1>1, <1>3, AddPlanSaves
<1> QED
  BY <1>1, <1>4, <1>5, SavesBoth DEF M

LEMMA CreateKeeps ==
    ASSUME NEW S, Fit(S), IsLoaded(S.tab), S.next \in Plans
    PROVE  Keeps(S, CreatePlan(S))
<1>1. /\ Blank(S.next) \in Contents /\ Blank(S.next).kind = "plan"
      /\ Blank(S.next).plan = S.next
  BY ContentTypes DEF Blank
<1> QED
  BY <1>1, AddLastKeeps DEF CreatePlan, Fresh

LEMMA ImportKeeps ==
    ASSUME NEW S, Fit(S), IsLoaded(S.tab), S.next \in Plans, NEW edit \in Nat
    PROVE  Keeps(S, ImportPlanAsNew(S, edit))
<1>1. /\ Content(S.next, edit) \in Contents /\ Content(S.next, edit).kind = "plan"
      /\ Content(S.next, edit).plan = S.next
  BY ContentTypes
<1> QED
  BY <1>1, AddLastKeeps DEF ImportPlanAsNew, Fresh

LEMMA EditKeeps ==
    ASSUME NEW S, Fit(S), IsLoaded(S.tab), NEW edit \in Nat
    PROVE  Keeps(S, EditBlocks(S, edit))
<1>1. S.tab.active \in Plans
  BY FitViews, OpenType
<1>2. /\ Content(S.tab.active, edit) \in Contents
      /\ Content(S.tab.active, edit).kind = "plan"
      /\ Content(S.tab.active, edit).plan = S.tab.active
  BY <1>1, ContentTypes
<1>3. Saves(S, Show(S, Content(S.tab.active, edit)))
  BY <1>2, FitViews, ShowSaves
<1> QED
  BY <1>3 DEF EditBlocks, Saves, Keeps

LEMMA DuplicateKeeps ==
    ASSUME NEW S, Fit(S), IsLoaded(S.tab), S.next \in Plans
    PROVE  Keeps(S, DuplicatePlan(S))
<1> DEFINE M == Sync(S)
           V == Save(M)
           at == PositionOf(M.tab.list, M.tab.active)
           list == InsertAt(M.tab.list, at + 1, M.next)
           c == Content(M.next, S.tab.shown.edit)
<1>1. /\ Fit(M) /\ Keeps(S, M) /\ M.next = S.next
      /\ Fit(V) /\ Signed(S, V) /\ V.next = S.next /\ IsLoaded(V.tab)
  BY HandlerStarts
<1>2. S.tab.shown.edit \in Nat
  BY FitViews, ContentKinds DEF OnScreen, Views, TabViews
<1>3. DuplicatePlan(S) = IF M.tab.active # S.tab.active THEN M ELSE AddPlan(V, list, c)
  BY DEF DuplicatePlan, Duplicating, Fresh
<1>4. c \in Contents /\ c.kind = "plan" /\ c.plan = V.next
  BY <1>1, <1>2, ContentTypes
<1> HIDE DEF c, M, V
<1>5. /\ M.tab.list \in Seq(Plans) /\ M.tab.active \in ToSet(M.tab.list)
      /\ \A p \in ToSet(M.tab.list) : p <= M.next
  BY <1>1, FitViews, ListBelow
<1>6. list \in Lists /\ V.next \in ToSet(list) /\ \A p \in ToSet(list) : p <= V.next
  <2>1. Contains(M.tab.list, M.tab.active) /\ Len(M.tab.list) \in Nat
    BY <1>5, ContainsInSet, LenProperties
  <2>2. at \in 1..Len(M.tab.list)
    BY <1>5, <2>1, PositionFound, LenProperties
  <2> HIDE DEF at
  <2>3. at + 1 \in 1..(Len(M.tab.list) + 1)
    BY <2>1, <2>2
  <2>4. list \in Lists /\ ToSet(list) = ToSet(M.tab.list) \cup {M.next}
    BY <1>1, <1>5, <2>3, InsertType
  <2>5. M.next <= M.next
    BY <1>1 DEF Plans
  <2> QED
    BY <1>1, <1>5, <2>4, <2>5
<1> HIDE DEF list
<1>7. Saves(V, AddPlan(V, list, c))
  BY <1>1, <1>4, <1>6, AddPlanSaves
<1>8. Keeps(S, AddPlan(V, list, c))
  BY <1>1, <1>7, SavesBoth
<1> QED
  BY <1>1, <1>3, <1>8

LEMMA RenameKeeps ==
    ASSUME NEW S, Fit(S), IsLoaded(S.tab), NEW p
    PROVE  Keeps(S, RenamePlan(S, p))
<1> DEFINE M == Sync(S)
           T == CommitIndex(M, M.tab.list, M.tab.active, FALSE)
<1>1. Fit(M) /\ Keeps(S, M)
  BY HandlerStarts
<1>2. RenamePlan(S, p) = M \/ RenamePlan(S, p) = T
  BY DEF RenamePlan, Renaming
<1> HIDE DEF M
<1>3. /\ Ready(M) /\ M.tab.list \in Lists /\ M.tab.active \in ToSet(M.tab.list)
      /\ \A q \in ToSet(M.tab.list) : q < M.next
  BY <1>1, FitViews, ListBelow
<1>4. Keeps(M, T)
  BY <1>3, CommitSigned
<1> HIDE DEF T
<1>5. Keeps(S, T)
  BY <1>1, <1>4, KeepsBoth
<1> QED
  BY <1>1, <1>2, <1>5

LEMMA SwitchKeeps ==
    ASSUME NEW S, Fit(S), IsLoaded(S.tab), NEW p
    PROVE  Keeps(S, SwitchPlan(S, p))
<1> DEFINE M == Sync(S)
           V == Save(M)
           E == CommitIndex(M, M.tab.list, p, TRUE)
           C == CommitIndex(V, M.tab.list, p, TRUE)
           T == OpenActive(C)
<1>1. /\ Fit(M) /\ Keeps(S, M) /\ M.next = S.next
      /\ Fit(V) /\ Signed(S, V) /\ V.next = S.next /\ IsLoaded(V.tab)
  BY HandlerStarts
<1>2. \/ SwitchPlan(S, p) = M
      \/ p = M.tab.active /\ SwitchPlan(S, p) = E
      \/ Contains(M.tab.list, p) /\ SwitchPlan(S, p) = T
  BY DEF SwitchPlan, Switching
<1> HIDE DEF M, V
<1>3. /\ Ready(M) /\ Ready(V) /\ M.tab.list \in Lists /\ M.tab.active \in ToSet(M.tab.list)
      /\ M.tab.list \in Seq(Plans) /\ \A q \in ToSet(M.tab.list) : q < M.next /\ q < V.next
  BY <1>1, FitViews, ListBelow
<1>4. ASSUME p = M.tab.active
      PROVE  Keeps(S, E)
  <2>1. Keeps(M, E)
    BY <1>3, <1>4, CommitSigned
  <2> HIDE DEF E
  <2> QED
    BY <1>1, <2>1, KeepsBoth
<1>5. ASSUME Contains(M.tab.list, p)
      PROVE  Keeps(S, T)
  <2>1. p \in ToSet(M.tab.list)
    BY <1>3, <1>5, ContainsInSet
  <2>2. Ready(C) /\ Signed(V, C) /\ (IsLoaded(V.tab) => IsLoaded(C.tab))
    BY <1>3, <2>1, CommitSigned
  <2> HIDE DEF C
  <2>3. Saves(C, T)
    BY <1>1, <2>2, OpenActiveSaves
  <2> HIDE DEF T
  <2>4. Signed(S, C)
    BY <1>1, <2>2, SignedBoth
  <2> QED
    BY <2>3, <2>4, SavesBoth
<1> QED
  BY <1>1, <1>2, <1>4, <1>5

(* A deleted plan's key is nobody's. *)
LEMMA UnkeyedSigned ==
    ASSUME NEW S \in Views, S.tab.source \in Sources, NEW p \in Plans
    PROVE  Signed(S, Unkeyed(S, p)) /\ Unkeyed(S, p).tab = S.tab
<1> DEFINE T == Unkeyed(S, p)
<1>1. /\ T.me = S.me /\ T.tab = S.tab
      /\ T.docs = [S.docs EXCEPT ![S.tab.source][p] = Absent]
      /\ T.writer = [S.writer EXCEPT ![p] = 0]
  BY DEF Views, Unkeyed
<1>2. S.writer \in [Plans -> Tabs \cup {0}] /\ S.docs \in [Sources -> [Plans -> Contents]]
  BY DEF Views
<1> HIDE DEF T
<1>3. Signed(S, T)
  BY <1>1, <1>2 DEF Signed
<1> QED
  BY <1>1, <1>3 DEF T

LEMMA DroppingSigned ==
    ASSUME NEW S, Ready(S), ActiveKept(S), IsLoaded(S.tab),
           NEW list \in Lists, NEW at \in 1..(Len(list) + 1),
           \A p \in ToSet(list) : p < S.next
    PROVE  LET T == Dropped(Dropping(S, S.tab.active, list, at), S.tab.active)
           IN  Signed(S, T) /\ IsLoaded(T.tab)
<1> DEFINE p == S.tab.active
           X == Unkeyed(S, p)
<1>1. S \in Views /\ p \in Plans /\ S.tab.source \in Sources
  BY OpenType DEF Ready, Stocked, Opens
<1>2. Ready(X) /\ X.next = S.next /\ X.tab = S.tab /\ Signed(S, X)
  BY <1>1, UnkeyedPassed, UnkeyedSigned DEF ActiveKept, Passed
<1>3. PICK q \in ToSet(list) : Dropping(S, p, list, at) = CommitIndex(X, list, q, TRUE)
  BY DroppingCommits
<1> DEFINE C == CommitIndex(X, list, q, TRUE)
           T == [C EXCEPT !.gone = @ \cup {p}]
<1> HIDE DEF X
<1>4. Ready(C) /\ Signed(X, C) /\ (IsLoaded(X.tab) => IsLoaded(C.tab))
  BY <1>2, CommitSigned
<1>5. Dropping(S, p, list, at) = C /\ (Dropped(C, p) = C \/ Dropped(C, p) = T)
  BY <1>3 DEF Dropped
<1> HIDE DEF C
<1>6. T.me = C.me /\ T.docs = C.docs /\ T.writer = C.writer /\ T.tab = C.tab
  BY <1>4 DEF Ready, Stocked, Views
<1> HIDE DEF T
<1>7. Signed(S, C) /\ IsLoaded(C.tab)
  BY <1>2, <1>4, SignedBoth
<1>8. Signed(S, T) /\ IsLoaded(T.tab)
  BY <1>6, <1>7, SameKeeps, SignedBoth
<1> QED
  BY <1>5, <1>7, <1>8

LEMMA WithoutSigned ==
    ASSUME NEW M, Fit(M), M.next \in Plans, IsLoaded(M.tab)
    PROVE  LET W == WithoutPlan(M, M.tab.active, PositionOf(M.tab.list, M.tab.active))
           IN  Signed(M, W) /\ IsLoaded(W.tab)
<1> DEFINE p == M.tab.active
           l == M.tab.list
           at == PositionOf(l, p)
           rest == RemoveAt(l, at)
           D == Drawn(M)
           A == Dropped(Dropping(D, p, <<M.next>>, at), p)
           B == Dropped(Dropping(M, p, rest, at), p)
           W == WithoutPlan(M, p, at)
<1>1. /\ M \in Views /\ Ready(M) /\ ActiveKept(M) /\ l \in Seq(Plans) /\ Contains(l, p)
      /\ p \in Plans /\ \A q \in ToSet(l) : q < M.next
  BY FitViews, ListBelow, ContainsInSet
<1>2. at \in DOMAIN l /\ DOMAIN l = 1..Len(l) /\ Len(l) \in Nat
  BY <1>1, PositionFound, LenProperties
<1> HIDE DEF at
<1>3. /\ rest \in Seq(Plans) /\ Len(rest) = Len(l) - 1 /\ ToSet(rest) \subseteq ToSet(l)
  BY <1>1, <1>2, RemoveType
<1>4. W = IF rest = <<>> THEN A ELSE B
  BY DEF WithoutPlan, Fresh
<1> HIDE DEF rest, W
<1>5. ASSUME rest = <<>>
      PROVE  Signed(M, A) /\ IsLoaded(A.tab)
  <2> DEFINE fresh == <<M.next>>
  <2>1. /\ Ready(D) /\ D.next = M.next + 1 /\ D.tab = M.tab /\ Only(M, D, {"next"})
    BY <1>1, DrawnPassed, DrawnFacts DEF Passed
  <2> HIDE DEF D
  <2>2. ActiveKept(D)
    BY <1>1, <2>1 DEF ActiveKept, Only, ViewFields, Seen
  <2>3. D.me = M.me /\ D.docs = M.docs /\ D.writer = M.writer
    BY <2>1 DEF Only, ViewFields
  <2>4. fresh \in Lists /\ Len(fresh) = 1 /\ ToSet(fresh) = {M.next}
    BY DEF Lists, ToSet
  <2>5. at \in 1..(Len(fresh) + 1)
    <3>1. Len(rest) = 0
      BY <1>5, EmptySeq
    <3>2. Len(l) = 1 /\ at \in 1..Len(l)
      BY <1>2, <1>3, <3>1
    <3> QED
      BY <2>4, <3>2
  <2>6. \A q \in ToSet(fresh) : q < D.next
    BY <2>1, <2>4 DEF Plans
  <2>7. D.tab.active = p /\ IsLoaded(D.tab)
    BY <2>1
  <2> HIDE DEF fresh
  <2>8. LET T == Dropped(Dropping(D, D.tab.active, fresh, at), D.tab.active)
        IN  Signed(D, T) /\ IsLoaded(T.tab)
    BY <2>1, <2>2, <2>4, <2>5, <2>6, <2>7, DroppingSigned
  <2>9. Signed(D, A) /\ IsLoaded(A.tab)
    BY <2>7, <2>8 DEF fresh
  <2> HIDE DEF A
  <2> QED
    BY <2>3, <2>9, SameKeeps, SignedBoth
<1>6. ASSUME rest # <<>>
      PROVE  Signed(M, B) /\ IsLoaded(B.tab)
  <2>1. rest \in Lists
    BY <1>3, <1>6 DEF Lists
  <2>2. at \in 1..(Len(rest) + 1)
    BY <1>2, <1>3
  <2>3. \A q \in ToSet(rest) : q < M.next
    BY <1>1, <1>3
  <2> QED
    BY <1>1, <2>1, <2>2, <2>3, DroppingSigned
<1> HIDE DEF A, B
<1> QED
  BY <1>4, <1>5, <1>6 DEF W, at

LEMMA DeleteKeeps ==
    ASSUME NEW S, Fit(S), IsLoaded(S.tab), S.next \in Plans
    PROVE  Keeps(S, DeletePlan(S, S.tab.active))
<1> DEFINE p == S.tab.active
           M == Sync(S)
           W == WithoutPlan(M, p, PositionOf(M.tab.list, p))
           T == OpenActive(W)
<1>1. Fit(M) /\ Keeps(S, M) /\ Synced(S, M) /\ M.next = S.next /\ IsLoaded(M.tab)
  BY HandlerStarts
<1>2. /\ ~Contains(M.tab.list, p) => DeletePlan(S, p) = M
      /\ Contains(M.tab.list, p) /\ p = M.tab.active => DeletePlan(S, p) = T
  BY DEF DeletePlan, Deleting
<1> HIDE DEF M
<1>3. M.tab.list \in Seq(Plans)
  BY <1>1, FitViews, ListBelow
<1>4. CASE ~Contains(M.tab.list, p)
  BY <1>1, <1>2, <1>4
<1>5. CASE Contains(M.tab.list, p)
  <2>1. p = M.tab.active
    BY <1>1, <1>3, <1>5, ContainsInSet, SyncedActive
  <2>2. Ready(W) /\ Signed(M, W) /\ IsLoaded(W.tab)
    BY <1>1, <2>1, WithoutSigned, WithoutPassed DEF Passed
  <2> HIDE DEF W
  <2>3. Saves(W, T)
    BY <2>2, OpenActiveSaves
  <2> HIDE DEF T
  <2>4. Signed(S, W)
    BY <1>1, <2>2, SignedBoth DEF Keeps
  <2> QED
    BY <1>2, <1>5, <2>1, <2>3, <2>4, SavesBoth
<1> QED
  BY <1>4, <1>5

(* The keys of the uploads that are removed lose their writer with what was *)
(* in them.                                                                 *)
LEMMA RemovedKeeps ==
    ASSUME NEW S \in Views, NEW keep
    PROVE  LET P == RemoveCustomPlans(S, keep)
           IN  /\ Signed(S, P)
               /\ (S.tab.source # NoSource => Opens(S) /\ OnScreen(S)) => Keeps(S, P)
<1> DEFINE P == RemoveCustomPlans(S, keep)
           stale == Uploads \ {keep}
<1>1. /\ Only(S, P, {"index", "docs", "legacy", "copies", "writer", "deleted", "gone"})
      /\ \A s \in Sources, p \in Plans :
            P.docs[s][p] = IF s \in stale THEN Absent ELSE S.docs[s][p]
  <2>1. /\ Only(S, P, {"index", "docs", "legacy", "copies", "writer", "deleted", "gone"})
        /\ \A s \in Sources : \A p \in Plans :
              P.docs[s][p] = IF s \in Replaced(keep) THEN Absent ELSE S.docs[s][p]
    BY RemoveFacts
  <2> HIDE DEF P
  <2> QED
    BY <2>1 DEF Replaced
<1>2. P.writer = [p \in Plans |-> IF \E u \in stale : S.docs[u][p] # Absent THEN 0 ELSE S.writer[p]]
  BY DEF RemoveCustomPlans, Views
<1> HIDE DEF P
<1>3. P.me = S.me /\ P.tab = S.tab
  BY <1>1 DEF Only, ViewFields
<1>4. \A p \in Plans : P.writer[p] = S.writer[p] \/ P.writer[p] = 0
  BY <1>2
<1>5. \A r \in Sources, p \in Plans : P.docs[r][p] = S.docs[r][p] \/ P.writer[p] = 0
  BY <1>1, <1>2
<1>6. Signed(S, P)
  BY <1>3, <1>4, <1>5 DEF Signed
<1>7. ASSUME S.tab.source # NoSource => Opens(S) /\ OnScreen(S), Autosaved(S)
      PROVE  Autosaved(P)
  <2> SUFFICES ASSUME P.tab.source # NoSource, ~P.tab.removed, P.writer[P.tab.active] = P.me
               PROVE  P.docs[P.tab.source][P.tab.active] = P.tab.shown
    BY DEF Autosaved
  <2>1. S.tab.source \in Sources /\ S.tab.active \in Plans /\ S.me # 0
    BY <1>3, <1>7, OpenType, PlanTabsAssumption DEF Opens, Views
  <2>2. S.writer[S.tab.active] = S.me
    BY <1>3, <1>4, <2>1
  <2>3. S.docs[S.tab.source][S.tab.active] = S.tab.shown
    BY <1>3, <1>7, <2>2 DEF Autosaved
  <2> QED
    BY <1>3, <1>5, <2>1, <2>3
<1> QED
  BY <1>6, <1>7 DEF P, Keeps

LEMMA PreparedSigned ==
    ASSUME NEW S \in Views, NEW s
    PROVE  Signed(S, Prepare(S, s))
<1>1. Signed(S, S)
  BY SameKeeps
<1>2. Signed(S, RemoveCustomPlans(S, s))
  BY RemovedKeeps
<1> QED
  BY <1>1, <1>2 DEF Prepare

-----------------------------------------------------------------------------
(* Activating a data set: the plan that becomes active is drawn, stored by  *)
(* another version, or opened.                                              *)
LEMMA ActivateSaves ==
    ASSUME NEW S, Stocked(S), NEW s \in Sources, S.next \in Plans,
           S.tab.source # s, S.tab.status = Status("loaded", s)
    PROVE  Saves(S, Activate(S, s))
<1> DEFINE P == Prepare(S, s)
           R == ReadIndex(P, s)
           list == StoredList(P, s)
           T == Activate(S, s)
<1>1. Stocked(P) /\ Entering(P, T, s, S.tab.status) /\ S \in Views
  BY ActivateEntered DEF Stocked
<1>2. P.next = S.next /\ Signed(S, P)
  BY <1>1, PreparedCleared, PreparedSigned DEF Cleared
<1>3. \E N, A \in Views, raw \in Contents :
          /\ Ready(A) /\ Only(N, A, {"tab"}) /\ A.tab.source = s /\ A.tab.status = S.tab.status
          /\ Only(R, N, {"next", "docs", "index", "legacy"})
          /\ N.docs = R.docs \/ N.docs = [R.docs EXCEPT ![s][R.next] = raw]
          /\ \/ T = OpenActive(PersistIndex(A, A.tab.active))
             \/ /\ T = LoadActivePlan(MarkUnwritten(A), raw)
                /\ Fit(Opened(MarkUnwritten(A), raw))
                /\ ActiveDoc(MarkUnwritten(A)).kind # "plan"
  BY <1>1 DEF Entering, Adopts
<1> HIDE DEF P, T
<1>4. Stocked(R) /\ R \in Views /\ R.docs = P.docs /\ R.next = P.next
  BY <1>1, ReadStocked DEF Stocked
<1>5. Signed(P, R)
  <2>1. P \in Views
    BY <1>1 DEF Stocked
  <2>2. Only(P, R, {"index", "copies", "uncopied"})
    BY <2>1, ReadFacts
  <2> HIDE DEF R
  <2> QED
    BY <2>2, SameKeeps DEF Only, ViewFields
<1> HIDE DEF R
<1>6. PICK N, A \in Views, raw \in Contents :
          /\ Ready(A) /\ Only(N, A, {"tab"}) /\ A.tab.source = s /\ A.tab.status = S.tab.status
          /\ Only(R, N, {"next", "docs", "index", "legacy"})
          /\ N.docs = R.docs \/ N.docs = [R.docs EXCEPT ![s][R.next] = raw]
          /\ \/ T = OpenActive(PersistIndex(A, A.tab.active))
             \/ /\ T = LoadActivePlan(MarkUnwritten(A), raw)
                /\ Fit(Opened(MarkUnwritten(A), raw))
                /\ ActiveDoc(MarkUnwritten(A)).kind # "plan"
  BY <1>3
<1>7. Signed(R, A) /\ IsLoaded(A.tab)
  <2>1. A.me = R.me /\ A.writer = R.writer /\ A.docs = N.docs
    BY <1>6 DEF Only, ViewFields
  <2>2. R.docs[s][R.next] = Absent
    <3>1. R.next \in Plans /\ ~(R.next < R.next)
      BY <1>2, <1>4 DEF Plans
    <3> QED
      BY <1>4, <3>1 DEF Stocked, Drew
  <2>3. R.docs \in [Sources -> [Plans -> Contents]]
    BY <1>4 DEF Views
  <2>4. \A r \in Sources, p \in Plans : A.docs[r][p] = R.docs[r][p] \/ R.docs[r][p].kind # "plan"
    BY <1>6, <2>1, <2>2, <2>3, CorruptKinds
  <2>5. Signed(R, A)
    BY <2>1, <2>4 DEF Signed
  <2>6. s # NoSource
    BY PlanStoreAssumption
  <2> QED
    BY <1>6, <2>5, <2>6 DEF IsLoaded
<1>8. Signed(S, A)
  BY <1>2, <1>5, <1>7, SignedBoth
<1>9. ASSUME NEW I, Only(A, I, {"index", "tab", "unlisted"}),
             OnlyTab(A.tab, I.tab, {"pending", "synced", "unwritten"})
      PROVE  Signed(S, I) /\ IsLoaded(I.tab)
  <2>1. /\ I.me = A.me /\ I.docs = A.docs /\ I.writer = A.writer
        /\ I.tab.source = A.tab.source /\ I.tab.status = A.tab.status
    BY <1>9 DEF Only, OnlyTab, ViewFields, TabFields
  <2>2. Signed(A, I)
    BY <2>1, SameKeeps
  <2> QED
    BY <1>7, <1>8, <2>1, <2>2, SignedBoth DEF IsLoaded
<1>10. CASE T = OpenActive(PersistIndex(A, A.tab.active))
  <2> DEFINE I == PersistIndex(A, A.tab.active)
  <2>1. /\ Ready(I) /\ Only(A, I, {"index", "tab", "unlisted"})
        /\ OnlyTab(A.tab, I.tab, {"pending", "synced", "unwritten"})
    BY <1>6, PersistReady
  <2>2. T = OpenActive(I)
    BY <1>10
  <2> HIDE DEF I
  <2>3. Signed(S, I) /\ Saves(I, OpenActive(I))
    BY <1>9, <2>1, OpenActiveSaves
  <2> QED
    BY <2>2, <2>3, SavesBoth DEF T
<1>11. CASE /\ T = LoadActivePlan(MarkUnwritten(A), raw) /\ Fit(Opened(MarkUnwritten(A), raw))
            /\ ActiveDoc(MarkUnwritten(A)).kind # "plan"
  <2> DEFINE I == MarkUnwritten(A)
  <2>1. /\ Ready(I) /\ Only(A, I, {"tab", "unlisted"})
        /\ OnlyTab(A.tab, I.tab, {"pending", "unwritten"})
    BY <1>6, MarkReady
  <2>2. T = LoadActivePlan(I, raw) /\ Fit(Opened(I, raw)) /\ ActiveDoc(I).kind # "plan"
    BY <1>11
  <2> HIDE DEF I
  <2>3. Only(A, I, {"index", "tab", "unlisted"}) /\ OnlyTab(A.tab, I.tab, {"pending", "synced", "unwritten"})
    BY <2>1 DEF Only, OnlyTab
  <2>4. Signed(S, I) /\ IsLoaded(I.tab)
    BY <1>9, <2>3
  <2>5. Saves(I, LoadActivePlan(I, raw))
    BY <1>6, <2>1, <2>2, <2>4, LoadSaves
  <2> QED
    BY <2>2, <2>4, <2>5, SavesBoth DEF T
<1> QED
  BY <1>6, <1>10, <1>11 DEF T

LEMMA LoadKeeps ==
    ASSUME NEW S, Settled(S), S.next \in Plans
    PROVE  Keeps(S, Load(S))
<1> DEFINE s == S.tab.status.id
           L == [S EXCEPT !.tab.status = Status("loaded", s)]
           A == Activate(L, s)
           T == Sync(A)
<1>1. S \in Views /\ s \in Sources /\ Status("loaded", s) \in Statuses
  BY DEF Settled, Stocked, Views, TabViews, Statuses, Status
<1>2. Load(S) = T
  BY DEF Load
<1> HIDE DEF s
<1>3. /\ Settled(L) /\ L.tab.source = S.tab.source /\ L.next = S.next
      /\ L.tab.status = Status("loaded", s) /\ Only(S, L, {"tab"}) /\ OnlyTab(S.tab, L.tab, {"status"})
  BY <1>1, StatusSettled, StatusFacts
<1> HIDE DEF L
<1>4. Keeps(S, L)
  <2>1. /\ L.me = S.me /\ L.docs = S.docs /\ L.writer = S.writer /\ L.tab.source = S.tab.source
        /\ L.tab.active = S.tab.active /\ L.tab.shown = S.tab.shown
        /\ L.tab.removed = S.tab.removed
    BY <1>3 DEF Only, OnlyTab, ViewFields, TabFields
  <2> QED
    BY <2>1, SameKeeps
<1>5. Fit(A) /\ Keeps(L, A)
  <2>1. CASE S.tab.source = s
    <3>1. A = L
      BY <1>3, <2>1 DEF Activate
    <3>2. S.tab.source # NoSource
      BY <1>1, <2>1, PlanStoreAssumption
    <3>3. Fit(L) /\ Keeps(L, L)
      BY <1>3, <3>2, SameKeeps DEF Settled
    <3> QED
      BY <3>1, <3>3
  <2>2. CASE S.tab.source # s
    <3>1. Stocked(L)
      BY <1>3 DEF Settled
    <3>2. Saves(L, A)
      BY <1>1, <1>3, <2>2, <3>1, ActivateSaves
    <3>3. Fit(A)
      BY <1>1, <1>3, <2>2, <3>1, ActivateEntered DEF Entered
    <3> QED
      BY <3>2, <3>3 DEF Saves, Keeps
  <2> QED
    BY <2>1, <2>2
<1> HIDE DEF A
<1>6. Keeps(A, T)
  BY <1>5, SyncKeeps
<1> HIDE DEF T
<1>7. Keeps(S, A)
  BY <1>4, <1>5, KeepsBoth
<1> QED
  BY <1>2, <1>6, <1>7, KeepsBoth

LEMMA PickKeeps ==
    ASSUME NEW S, Settled(S), NEW status \in Statuses
    PROVE  Keeps(S, [RemoveCustomPlans(S, NoSource) EXCEPT !.tab.status = status])
<1> DEFINE R == RemoveCustomPlans(S, NoSource)
           T == [R EXCEPT !.tab.status = status]
<1>1. S \in Views /\ (S.tab.source # NoSource => Opens(S) /\ OnScreen(S))
  BY FitViews DEF Settled, Stocked
<1>2. Keeps(S, R)
  BY <1>1, RemovedKeeps
<1>3. R \in Views
  BY <1>1, RemovedCleared DEF Cleared
<1> HIDE DEF R
<1>4. Only(R, T, {"tab"}) /\ OnlyTab(R.tab, T.tab, {"status"})
  BY <1>3, StatusFacts
<1> HIDE DEF T
<1>5. /\ T.me = R.me /\ T.docs = R.docs /\ T.writer = R.writer /\ T.tab.source = R.tab.source
      /\ T.tab.active = R.tab.active /\ T.tab.shown = R.tab.shown /\ T.tab.removed = R.tab.removed
  BY <1>4 DEF Only, OnlyTab, ViewFields, TabFields
<1>6. Keeps(R, T)
  BY <1>5, SameKeeps
<1> QED
  BY <1>2, <1>6, KeepsBoth DEF T, R

LEMMA DieKeeps ==
    ASSUME NEW S, Stocked(S), S.next \in Plans, NEW s \in Sources,
           NEW listed \in BOOLEAN, NEW status \in Statuses
    PROVE  LET P == Prepare(S, s)
               list == StoredList(P, s)
               R == ReadIndex(P, s)
           IN  Keeps(S, [MigrateAndDie(R, s, list, listed) EXCEPT !.tab = NewTab(status)])
<1> DEFINE P == Prepare(S, s)
           list == StoredList(P, s)
           R == ReadIndex(P, s)
           raw == R.legacy[LegacyKey(R, s, list)]
           T == [MigrateAndDie(R, s, list, listed) EXCEPT !.tab = NewTab(status)]
<1>1. /\ T.tab = NewTab(status) /\ Adopts(R, T, s, raw, list)
      /\ Only(R, T, {"next", "docs", "index", "legacy", "tab"})
  BY DieSafe
<1> HIDE DEF T, raw
<1>2. Stocked(P) /\ P.next = S.next /\ Signed(S, P)
  <2>1. Signed(S, P)
    BY PreparedSigned DEF Stocked
  <2>2. PICK removed : Cleared(S, P, removed)
    BY PreparedCleared DEF Stocked
  <2> HIDE DEF P
  <2>3. Stocked(P)
    BY <2>2, ClearedFit
  <2> QED
    BY <2>1, <2>2, <2>3 DEF Cleared
<1> HIDE DEF P
<1>3. Stocked(R) /\ R.next = S.next /\ Signed(P, R)
  <2>1. Stocked(R) /\ R.next = P.next
    BY <1>2, ReadStocked
  <2>2. Only(P, R, {"index", "copies", "uncopied"})
    BY <1>2, ReadFacts DEF Stocked
  <2> HIDE DEF R
  <2>3. R.me = P.me /\ R.docs = P.docs /\ R.writer = P.writer
    BY <2>2 DEF Only, ViewFields
  <2> QED
    BY <1>2, <2>1, <2>3, SameKeeps
<1> HIDE DEF R, list
<1>4. Signed(R, T)
  <2>1. T.me = R.me /\ T.writer = R.writer
    BY <1>1 DEF Only, ViewFields
  <2>2. R.docs[s][R.next] = Absent
    <3>1. R.next \in Plans /\ ~(R.next < R.next)
      BY <1>3 DEF Plans
    <3> QED
      BY <1>3, <3>1 DEF Stocked, Drew
  <2>3. R.docs \in [Sources -> [Plans -> Contents]]
    BY <1>3 DEF Stocked, Views
  <2>4. \A r \in Sources, p \in Plans : T.docs[r][p] = R.docs[r][p] \/ R.docs[r][p].kind # "plan"
    BY <1>1, <2>2, <2>3, CorruptKinds DEF Adopts
  <2> QED
    BY <2>1, <2>4 DEF Signed
<1>5. Autosaved(T)
  BY <1>1 DEF Autosaved, NewTab
<1>6. Signed(S, T)
  BY <1>2, <1>3, <1>4, SignedBoth
<1> QED
  BY <1>5, <1>6 DEF Keeps, T, R, list, P

-----------------------------------------------------------------------------
(* What the tabs show between the steps, and the actions. *)
ScreensInv == \A t \in Tabs : Autosaved(View(t, {}))

LEMMA KeepsFollow ==
    ASSUME TabsInv, ScreensInv, NEW t \in Tabs, NEW refuses \in SUBSET Kinds,
           NEW T, Follows(t, T), Keeps(View(t, refuses), T)
    PROVE  ScreensInv'
<1> DEFINE S == View(t, refuses)
<1>1. /\ S.me = t /\ S.docs = docs /\ S.writer = writer /\ S.tab = tabs[t]
      /\ docs' = T.docs /\ writer' = T.writer /\ tabs'[t] = T.tab
  BY DEF View, Follows
<1>2. T.me = t /\ Signed(S, T) /\ (Autosaved(S) => Autosaved(T))
  BY <1>1 DEF Keeps, Signed
<1> HIDE DEF S
<1>3. ASSUME NEW u \in Tabs
      PROVE  Autosaved(View(u, {})')
  <2> DEFINE U == View(u, {})
             V == View(u, {})'
  <2>1. /\ U.me = u /\ U.docs = docs /\ U.writer = writer /\ U.tab = tabs[u]
        /\ V.me = u /\ V.docs = docs' /\ V.writer = writer' /\ V.tab = tabs'[u]
    BY DEF View
  <2>2. U \in Views /\ Autosaved(U) /\ (U.tab.source # NoSource => Opens(U) /\ OnScreen(U))
    BY FitViews DEF ScreensInv, TabsInv, Settled, Stocked
  <2> HIDE DEF U, V
  <2>3. CASE u = t
    <3>1. Autosaved(S)
      BY <1>1, <2>1, <2>2, <2>3 DEF Autosaved
    <3>2. Autosaved(T)
      BY <1>2, <3>1
    <3>3. Autosaved(V)
      BY <1>1, <1>2, <2>1, <2>3, <3>2 DEF Autosaved
    <3> QED
      BY <3>3 DEF V
  <2>4. CASE u # t
    <3>1. OnlyTab(U.tab, V.tab, {"told"})
      BY <2>1, <2>4 DEF Follows
    <3>2. /\ V.tab.source = U.tab.source /\ V.tab.active = U.tab.active
          /\ V.tab.shown = U.tab.shown /\ V.tab.removed = U.tab.removed
      BY <3>1 DEF OnlyTab, TabFields
    <3>3. ASSUME V.tab.source # NoSource, ~V.tab.removed, V.writer[V.tab.active] = u
          PROVE  V.docs[V.tab.source][V.tab.active] = V.tab.shown
      <4> DEFINE s == U.tab.source
                 p == U.tab.active
      <4>1. s \in Sources /\ p \in Plans /\ U.tab.shown.kind = "plan"
        BY <2>2, <3>2, <3>3, OpenType DEF Opens, OnScreen
      <4>2. T.writer[p] = u /\ u # 0
        BY <1>1, <2>1, <3>2, <3>3, PlanTabsAssumption
      <4>3. writer[p] = u
        BY <1>1, <1>2, <2>4, <4>1, <4>2 DEF Signed
      <4>4. docs[s][p] = U.tab.shown
        BY <2>1, <2>2, <3>2, <3>3, <4>3 DEF Autosaved
      <4>5. T.docs[s][p] = docs[s][p]
        BY <1>1, <1>2, <2>4, <4>1, <4>2, <4>4 DEF Signed
      <4> QED
        BY <1>1, <2>1, <3>2, <4>4, <4>5
    <3>4. Autosaved(V)
      BY <2>1, <3>3 DEF Autosaved
    <3> QED
      BY <3>4 DEF V
  <2> QED
    BY <2>3, <2>4
<1> QED
  BY <1>3 DEF ScreensInv

LEMMA HandledScreen ==
    ASSUME TabsInv, ScreensInv, NEW t \in Tabs, NEW refuses \in SUBSET Kinds,
           NEW T, Handled(View(t, refuses), T), Keeps(View(t, refuses), T), Becomes(t, T)
    PROVE  ScreensInv'
<1>1. T \in Views
  BY FitViews DEF Handled
<1>2. Follows(t, T)
  BY <1>1, BecomesFollows
<1> QED
  BY <1>2, KeepsFollow

LEMMA EditScreen ==
    ASSUME TabsInv, ScreensInv, NEW t \in Tabs, Edit(t)
    PROVE  ScreensInv'
<1>1. PICK refuses \in SUBSET Kinds :
         Becomes(t, EditBlocks(View(t, refuses), spent.edits + 1))
  BY DEF Edit, Runs, Kinds
<1> DEFINE S == View(t, refuses)
           T == EditBlocks(S, spent.edits + 1)
<1>2. Fit(S) /\ S.tab = tabs[t] /\ IsLoaded(tabs[t])
  BY ViewSettled DEF Edit, IsLoaded
<1>3. spent.edits + 1 \in Nat
  BY DEF TabsInv, Counts
<1> HIDE DEF S
<1>4. Handled(S, T) /\ Keeps(S, T)
  BY <1>2, <1>3, EditHandled, EditKeeps
<1> HIDE DEF T
<1>5. Becomes(t, T)
  BY <1>1 DEF T, S
<1> QED
  BY <1>4, <1>5, HandledScreen DEF S

LEMMA SwitchScreen ==
    ASSUME TabsInv, ScreensInv, NEW t \in Tabs, Switch(t)
    PROVE  ScreensInv'
<1>1. PICK p \in Plans : Acts(t, LAMBDA S : SwitchPlan(S, p))
  BY DEF Switch
<1>2. PICK refuses \in SUBSET Kinds : Becomes(t, SwitchPlan(View(t, refuses), p))
  BY <1>1 DEF Acts, Runs, Kinds
<1> DEFINE S == View(t, refuses)
           T == SwitchPlan(S, p)
<1>3. Fit(S) /\ IsLoaded(S.tab)
  BY <1>1, ActsFit DEF Acts
<1> HIDE DEF S
<1>4. Handled(S, T) /\ Keeps(S, T)
  BY <1>3, SwitchHandled, SwitchKeeps
<1> HIDE DEF T
<1>5. Becomes(t, T)
  BY <1>2 DEF T, S
<1> QED
  BY <1>4, <1>5, HandledScreen DEF S

LEMMA CreateScreen ==
    ASSUME TabsInv, ScreensInv, NEW t \in Tabs, Create(t)
    PROVE  ScreensInv'
<1>1. PICK refuses \in SUBSET Kinds : Becomes(t, CreatePlan(View(t, refuses)))
  BY DEF Create, Acts, Runs, Kinds
<1> DEFINE S == View(t, refuses)
           T == CreatePlan(S)
<1>2. Fit(S) /\ IsLoaded(S.tab) /\ S.next \in Plans
  BY ActsFit DEF Create, Acts
<1> HIDE DEF S
<1>3. Handled(S, T) /\ Keeps(S, T)
  BY <1>2, CreateHandled, CreateKeeps
<1> HIDE DEF T
<1>4. Becomes(t, T)
  BY <1>1 DEF T, S
<1> QED
  BY <1>3, <1>4, HandledScreen DEF S

LEMMA DuplicateScreen ==
    ASSUME TabsInv, ScreensInv, NEW t \in Tabs, Duplicate(t)
    PROVE  ScreensInv'
<1>1. PICK refuses \in SUBSET Kinds : Becomes(t, DuplicatePlan(View(t, refuses)))
  BY DEF Duplicate, Acts, Runs, Kinds
<1> DEFINE S == View(t, refuses)
           T == DuplicatePlan(S)
<1>2. Fit(S) /\ IsLoaded(S.tab) /\ S.next \in Plans
  BY ActsFit DEF Duplicate, Acts
<1> HIDE DEF S
<1>3. Handled(S, T) /\ Keeps(S, T)
  BY <1>2, DuplicateHandled, DuplicateKeeps
<1> HIDE DEF T
<1>4. Becomes(t, T)
  BY <1>1 DEF T, S
<1> QED
  BY <1>3, <1>4, HandledScreen DEF S

LEMMA RenameScreen ==
    ASSUME TabsInv, ScreensInv, NEW t \in Tabs, Rename(t)
    PROVE  ScreensInv'
<1>1. PICK refuses \in SUBSET Kinds : Becomes(t, RenamePlan(View(t, refuses), tabs[t].active))
  BY DEF Rename, Acts, Runs, Kinds
<1> DEFINE S == View(t, refuses)
           T == RenamePlan(S, S.tab.active)
<1>2. Fit(S) /\ IsLoaded(S.tab) /\ S.next \in Plans /\ S.tab = tabs[t]
  BY ActsFit DEF Rename, Acts
<1> HIDE DEF S
<1>3. Handled(S, T) /\ Keeps(S, T)
  BY <1>2, RenameHandled, RenameKeeps
<1> HIDE DEF T
<1>4. Becomes(t, T)
  BY <1>1, <1>2 DEF T, S
<1> QED
  BY <1>3, <1>4, HandledScreen DEF S

LEMMA DeleteScreen ==
    ASSUME TabsInv, ScreensInv, NEW t \in Tabs, Delete(t)
    PROVE  ScreensInv'
<1>1. PICK refuses \in SUBSET Kinds : Becomes(t, DeletePlan(View(t, refuses), tabs[t].active))
  BY DEF Delete, Acts, Runs, Kinds
<1> DEFINE S == View(t, refuses)
           T == DeletePlan(S, S.tab.active)
<1>2. Fit(S) /\ IsLoaded(S.tab) /\ S.next \in Plans /\ S.tab = tabs[t]
  BY ActsFit DEF Delete, Acts
<1> HIDE DEF S
<1>3. Handled(S, T) /\ Keeps(S, T)
  BY <1>2, DeleteHandled, DeleteKeeps
<1> HIDE DEF T
<1>4. Becomes(t, T)
  BY <1>1, <1>2 DEF T, S
<1> QED
  BY <1>3, <1>4, HandledScreen DEF S

LEMMA ImportScreen ==
    ASSUME TabsInv, ScreensInv, NEW t \in Tabs, Import(t)
    PROVE  ScreensInv'
<1>1. PICK refuses \in SUBSET Kinds : Becomes(t, ImportPlanAsNew(View(t, refuses), MaxEdits + 1))
  BY DEF Import, Acts, Runs, Kinds
<1> DEFINE S == View(t, refuses)
           T == ImportPlanAsNew(S, MaxEdits + 1)
<1>2. Fit(S) /\ IsLoaded(S.tab) /\ S.next \in Plans
  BY ActsFit DEF Import, Acts
<1>3. MaxEdits + 1 \in Nat
  BY PlanTabsAssumption
<1> HIDE DEF S
<1>4. Handled(S, T) /\ Keeps(S, T)
  BY <1>2, <1>3, ImportHandled, ImportKeeps
<1> HIDE DEF T
<1>5. Becomes(t, T)
  BY <1>1 DEF T, S
<1> QED
  BY <1>4, <1>5, HandledScreen DEF S

LEMMA EventScreen ==
    ASSUME TabsInv, ScreensInv, NEW t \in Tabs, StorageEvent(t)
    PROVE  ScreensInv'
<1> DEFINE S == View(t, {})
           T == Sync(S)
<1>1. Becomes(t, T) /\ {} \in SUBSET Kinds
  BY DEF StorageEvent
<1>2. Fit(S)
  BY <1>1, ViewSettled DEF StorageEvent, IsLoaded
<1> HIDE DEF S
<1>3. Handled(S, T) /\ Keeps(S, T)
  BY <1>2, SyncHandled, SyncKeeps
<1> HIDE DEF T
<1> QED
  BY <1>1, <1>3, HandledScreen DEF S

LEMMA PickScreen ==
    ASSUME TabsInv, ScreensInv, NEW t \in Tabs, NEW s \in Bundled, PickBundled(t, s)
    PROVE  ScreensInv'
<1> DEFINE S == View(t, {})
           status == Status("loading", s)
           T == [RemoveCustomPlans(S, NoSource) EXCEPT !.tab.status = status]
<1>1. Becomes(t, T) /\ {} \in SUBSET Kinds
  BY DEF PickBundled
<1>2. Settled(S) /\ status \in Statuses
  BY DEF TabsInv, Status, Statuses, Sources
<1> HIDE DEF S, status
<1>3. Keeps(S, T) /\ Settled(T)
  BY <1>2, PickKeeps, PickSafe
<1> HIDE DEF T
<1>4. Follows(t, T)
  BY <1>1, <1>3, BecomesFollows DEF Settled, Stocked
<1> QED
  BY <1>1, <1>3, <1>4, KeepsFollow DEF S

(* The plan drawn next is one of the plans. *)
LEMMA NextDrawn ==
    ASSUME TabsInv, CanDraw
    PROVE  next \in Plans
<1>1. PICK t \in Tabs : TRUE
  BY PlanTabsAssumption
<1> DEFINE S == View(t, {})
<1>2. S \in Views /\ S.next = next
  BY DEF TabsInv, Settled, Stocked, View
<1> HIDE DEF S
<1>3. next \in Nat
  BY <1>2 DEF Views
<1> QED
  BY <1>3, PlanStoreAssumption DEF Plans, CanDraw, TabsInv

LEMMA DataScreen ==
    ASSUME TabsInv, ScreensInv, NEW t \in Tabs, DataLoaded(t)
    PROVE  ScreensInv'
<1>1. PICK refuses \in SUBSET Kinds : Becomes(t, Load(View(t, refuses)))
  BY DEF DataLoaded, Kinds
<1> DEFINE S == View(t, refuses)
           T == Load(S)
<1>2. Settled(S) /\ S.next \in Plans
  BY ViewSettled, NextDrawn DEF DataLoaded
<1> HIDE DEF S
<1>3. Fit(T) /\ Keeps(S, T)
  BY <1>2, LoadSafe, LoadKeeps
<1> HIDE DEF T
<1>4. T \in Views
  BY <1>3, FitViews
<1>5. Becomes(t, T)
  BY <1>1 DEF T, S
<1>6. Follows(t, T)
  BY <1>4, <1>5, BecomesFollows
<1> QED
  BY <1>3, <1>6, KeepsFollow DEF S

LEMMA DieScreen ==
    ASSUME TabsInv, ScreensInv, NEW t \in Tabs, DieMigrating(t)
    PROVE  ScreensInv'
<1> DEFINE S == View(t, {})
           s == tabs[t].status.id
           status == Status("loading", choice)
           P == Prepare(S, s)
           list == StoredList(P, s)
           R == ReadIndex(P, s)
<1>1. PICK listed \in BOOLEAN :
         Becomes(t, [MigrateAndDie(R, s, list, listed) EXCEPT !.tab = NewTab(status)])
  BY DEF DieMigrating
<1> DEFINE T == [MigrateAndDie(R, s, list, listed) EXCEPT !.tab = NewTab(status)]
<1>2. Stocked(S) /\ S.next \in Plans
  BY ViewSettled, NextDrawn DEF Settled, DieMigrating
<1>3. s \in Sources /\ status \in Statuses
  BY DEF Status, Statuses, TabsInv, TabViews
<1> HIDE DEF S, s, status
<1>4. Keeps(S, T) /\ T \in Views
  BY <1>2, <1>3, DieKeeps, DieSafe
<1>5. Becomes(t, T) /\ {} \in SUBSET Kinds
  BY <1>1
<1> HIDE DEF T
<1>6. Follows(t, T)
  BY <1>4, <1>5, BecomesFollows
<1> QED
  BY <1>4, <1>5, <1>6, KeepsFollow DEF S

(* A step that changes nothing but the status of one tab, or opens it anew. *)
LEMMA TabScreen ==
    ASSUME TabsInv, ScreensInv, NEW t \in Tabs, NEW u \in TabViews, tabs' = [tabs EXCEPT ![t] = u],
           UNCHANGED <<storage, next, history>>,
           u.source = NoSource \/ OnlyTab(tabs[t], u, {"told", "status"})
    PROVE  ScreensInv'
<1> DEFINE S == View(t, {})
           T == [S EXCEPT !.tab = u]
<1>1. S.tab = tabs[t] /\ {} \in SUBSET Kinds
  BY DEF View
<1>2. Only(S, T, {"tab"}) /\ T.tab = u
  BY DEF Only, ViewFields, View
<1>3. Follows(t, T)
  <2>1. /\ index' = T.index /\ docs' = T.docs /\ legacy' = T.legacy /\ copies' = T.copies
        /\ next' = T.next /\ uncopied' = T.uncopied /\ writer' = T.writer
        /\ deleted' = T.deleted /\ gone' = T.gone /\ unlisted' = T.unlisted
    BY DEF View, storage, history
  <2>2. /\ tabs' \in [Tabs -> TabViews] /\ tabs'[t] = u
        /\ \A w \in Tabs \ {t} : tabs'[w] = tabs[w]
    BY DEF TabsInv
  <2> HIDE DEF T
  <2> QED
    BY <1>2, <2>1, <2>2 DEF Follows, OnlyTab
<1> HIDE DEF T, S
<1>4. T.me = S.me /\ T.docs = S.docs /\ T.writer = S.writer
  BY <1>2 DEF Only, ViewFields
<1>5. Keeps(S, T)
  <2>1. CASE u.source = NoSource
    BY <1>2, <1>4, <2>1, SameKeeps DEF Keeps, Autosaved
  <2>2. CASE OnlyTab(tabs[t], u, {"told", "status"})
    <3>1. /\ T.tab.source = S.tab.source /\ T.tab.active = S.tab.active
          /\ T.tab.shown = S.tab.shown /\ T.tab.removed = S.tab.removed
      BY <1>1, <1>2, <2>2 DEF OnlyTab, TabFields
    <3> QED
      BY <1>4, <3>1, SameKeeps
  <2> QED
    BY <2>1, <2>2
<1> QED
  BY <1>1, <1>3, <1>5, KeepsFollow DEF S

LEMMA UploadScreen ==
    ASSUME TabsInv, ScreensInv, NEW t \in Tabs, NEW s \in Uploads, Upload(t, s)
    PROVE  ScreensInv'
<1> DEFINE u == [tabs[t] EXCEPT !.status = Status("loading", s)]
<1>1. Status("loading", s) \in Statuses
  BY DEF Status, Statuses, Sources
<1>2. u \in TabViews /\ OnlyTab(tabs[t], u, {"told", "status"})
  BY <1>1 DEF TabsInv, TabViews, OnlyTab, TabFields
<1>3. tabs' = [tabs EXCEPT ![t] = u] /\ UNCHANGED <<storage, next, history>>
  BY DEF Upload
<1> HIDE DEF u
<1> QED
  BY <1>2, <1>3, TabScreen

LEMMA FailScreen ==
    ASSUME TabsInv, ScreensInv, NEW t \in Tabs, DataFails(t)
    PROVE  ScreensInv'
<1> DEFINE status == Status("error", tabs[t].status.id)
           u == [tabs[t] EXCEPT !.status = status]
<1>1. status \in Statuses
  BY DEF Status, Statuses, TabsInv, TabViews
<1>2. tabs' = [tabs EXCEPT ![t] = u] /\ UNCHANGED <<storage, next, history>>
  BY DEF DataFails, TabsInv, TabViews, vars
<1> HIDE DEF status
<1>3. u \in TabViews /\ OnlyTab(tabs[t], u, {"told", "status"})
  BY <1>1 DEF TabsInv, TabViews, OnlyTab, TabFields
<1> HIDE DEF u
<1> QED
  BY <1>2, <1>3, TabScreen

LEMMA ReloadScreen ==
    ASSUME TabsInv, ScreensInv, NEW t \in Tabs, Reload(t)
    PROVE  ScreensInv'
<1> DEFINE u == NewTab(Status("loading", choice))
<1>1. u \in TabViews /\ u.source = NoSource
  BY NewTabType DEF Status, Statuses, TabsInv
<1>2. tabs' = [tabs EXCEPT ![t] = u] /\ UNCHANGED <<storage, next, history>>
  BY DEF Reload
<1> HIDE DEF u
<1> QED
  BY <1>1, <1>2, TabScreen

LEMMA NextScreens ==
    ASSUME TabsInv, ScreensInv, [Next]_vars
    PROVE  ScreensInv'
<1>1. CASE Next
  <2>1. PICK t \in Tabs :
           \/ Edit(t) \/ Switch(t) \/ Create(t) \/ Duplicate(t) \/ Rename(t) \/ Delete(t)
           \/ Import(t) \/ (\E s \in Bundled : PickBundled(t, s)) \/ (\E u \in Uploads : Upload(t, u))
           \/ DataLoaded(t) \/ DataFails(t) \/ Reload(t) \/ DieMigrating(t) \/ StorageEvent(t)
    BY <1>1 DEF Next
  <2> QED
    BY <2>1, EditScreen, SwitchScreen, CreateScreen, DuplicateScreen, RenameScreen, DeleteScreen,
       ImportScreen, PickScreen, UploadScreen, DataScreen, FailScreen, ReloadScreen, DieScreen, EventScreen
<1>2. CASE UNCHANGED vars
  <2>1. \A t \in Tabs : View(t, {})' = View(t, {})
    BY <1>2 DEF vars, storage, history, View
  <2> QED
    BY <2>1 DEF ScreensInv
<1> QED
  BY <1>1, <1>2

(* The invariant: a tab on the plan it wrote last shows what is stored.     *)
THEOREM TabsScreens == Spec => []ScreensInv
<1>1. Init => ScreensInv
  <2>1. ASSUME Init, NEW t \in Tabs
        PROVE  View(t, {}).tab.source = NoSource
    BY <2>1 DEF Init, View, NewTab
  <2> QED
    BY <2>1 DEF ScreensInv, Autosaved
<1>2. TabsInv /\ ScreensInv /\ [Next]_vars => ScreensInv'
  BY NextScreens
<1> QED
  BY <1>1, <1>2, TabsInvariant, PTL DEF Spec

(* No change of the screen misses the autosave: the tab that wrote a plan   *)
(* last and is still on it shows what is stored, whatever the other tabs    *)
(* save, delete, or remove meanwhile.  (saveAppState, loadActivePlan, and   *)
(* the sync that moves a tab off a deleted plan)                            *)
THEOREM TabsScreenIsStored == Spec => []ScreenIsStored
<1>1. ScreensInv => ScreenIsStored
  <2> SUFFICES ASSUME ScreensInv, NEW t \in Tabs, IsLoaded(tabs[t]), ~tabs[t].removed,
                      writer[tabs[t].active] = t
               PROVE  docs[tabs[t].source][tabs[t].active] = tabs[t].shown
    BY DEF ScreenIsStored
  <2>1. Autosaved(View(t, {}))
    BY DEF ScreensInv
  <2> QED
    BY <2>1 DEF Autosaved, View, IsLoaded
<1> QED
  BY <1>1, TabsScreens, PTL

=============================================================================
