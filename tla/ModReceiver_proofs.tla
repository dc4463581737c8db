-------------------------- MODULE ModReceiver_proofs --------------------------
(* The report of an end of window, for every reassembly and every limit on  *)
(* its ranges: it lists what it names, each chunk once and lowest first,    *)
(* and it passes over no missing chunk below one it names.                  *)
EXTENDS ModReceiver, FiniteSetTheorems, TLAPS

-----------------------------------------------------------------------------
(* How many elements of S are below i. *)
Rank(S, i) == Cardinality({j \in S : j < i})

LEMMA FiniteBelow ==
    ASSUME NEW S \in SUBSET Nat, IsFiniteSet(S), NEW i \in S
    PROVE  /\ IsFiniteSet({j \in S : j < i})
           /\ Rank(S, i) \in 0..(Cardinality(S) - 1)
<1>1. {j \in S : j < i} \in SUBSET S /\ {j \in S : j < i} # S
  <2>1. ~(i < i) /\ i \in Nat
    OBVIOUS
  <2> QED
    BY <2>1
<1>2. /\ IsFiniteSet({j \in S : j < i})
      /\ Cardinality({j \in S : j < i}) <= Cardinality(S)
      /\ Cardinality({j \in S : j < i}) # Cardinality(S)
  BY <1>1, FS_Subset
<1>3. Cardinality({j \in S : j < i}) \in Nat /\ Cardinality(S) \in Nat
  BY <1>2, FS_CardinalityType
<1> QED
  BY <1>2, <1>3 DEF Rank

LEMMA RankGrows ==
    ASSUME NEW S \in SUBSET Nat, IsFiniteSet(S), NEW i \in S, NEW j \in S, i < j
    PROVE  Rank(S, i) < Rank(S, j)
<1> DEFINE below(k) == {n \in S : n < k}
<1>1. below(i) \in SUBSET below(j)
  <2>1. ASSUME NEW n \in below(i)
        PROVE  n \in below(j)
    <3>1. n \in S /\ n < i
      OBVIOUS
    <3>2. n \in Nat /\ i \in Nat /\ j \in Nat
      BY <3>1
    <3>3. n < j
      BY <3>1, <3>2
    <3> QED
      BY <3>1, <3>3
  <2> QED
    BY <2>1
<1>2. i \in below(j) /\ i \notin below(i)
  OBVIOUS
<1>3. IsFiniteSet(below(j)) /\ IsFiniteSet(below(i))
  BY FiniteBelow
<1>4. /\ Cardinality(below(i)) <= Cardinality(below(j))
      /\ Cardinality(below(i)) # Cardinality(below(j))
  BY <1>1, <1>2, <1>3, FS_Subset
<1>5. Cardinality(below(i)) \in Nat /\ Cardinality(below(j)) \in Nat
  BY <1>3, FS_CardinalityType
<1> QED
  BY <1>4, <1>5 DEF Rank

LEMMA RankInjective ==
    ASSUME NEW S \in SUBSET Nat, IsFiniteSet(S), NEW i \in S, NEW j \in S,
           Rank(S, i) = Rank(S, j)
    PROVE  i = j
<1>1. i \in Nat /\ j \in Nat
  OBVIOUS
<1>2. Rank(S, i) \in Int
  <2>1. Rank(S, i) \in 0..(Cardinality(S) - 1)
    BY FiniteBelow
  <2> QED
    BY <2>1
<1>3. i < j => Rank(S, i) < Rank(S, j)
  BY RankGrows
<1>4. j < i => Rank(S, j) < Rank(S, i)
  BY RankGrows
<1>5. ~(i < j) /\ ~(j < i)
  BY <1>2, <1>3, <1>4
<1> QED
  BY <1>1, <1>5

(* Every rank is taken: ranks differ, and a set with a gap in its ranks     *)
(* would have more elements than ranks.                                     *)
LEMMA RankTaken ==
    ASSUME NEW S \in SUBSET Nat, IsFiniteSet(S),
           NEW r \in 0..(Cardinality(S) - 1)
    PROVE  \E i \in S : Rank(S, i) = r
<1> SUFFICES ASSUME \A i \in S : Rank(S, i) # r
             PROVE  FALSE
  OBVIOUS
<1> DEFINE all == 0..(Cardinality(S) - 1)
           rank == [i \in S |-> Rank(S, i)]
<1>1. Cardinality(S) \in Nat
  BY FS_CardinalityType
<1>2. IsFiniteSet(all) /\ Cardinality(all) = Cardinality(S)
  <2>1. 0 \in Int /\ Cardinality(S) - 1 \in Int
    BY <1>1
  <2>2. /\ IsFiniteSet(all)
        /\ Cardinality(all) = IF 0 > Cardinality(S) - 1 THEN 0
                              ELSE (Cardinality(S) - 1) - 0 + 1
    BY <2>1, FS_Interval
  <2> QED
    BY <1>1, <2>2
<1>3. \A i \in S : Rank(S, i) \in all
  BY FiniteBelow
<1> HIDE DEF all
<1>4. r \in all
  BY DEF all
<1>5. /\ IsFiniteSet(all \ {r})
      /\ Cardinality(all \ {r}) = Cardinality(all) - 1
  BY <1>2, <1>4, FS_RemoveElement
<1>6. Cardinality(all \ {r}) < Cardinality(S)
  BY <1>1, <1>2, <1>5
<1>7. rank \in [S -> all \ {r}]
  BY <1>3
<1>8. \E i, j \in S : i # j /\ rank[i] = rank[j]
  <2> HIDE DEF rank
  <2> QED
    BY <1>5, <1>6, <1>7, FS_PigeonHole
<1> QED
  BY <1>8, RankInjective

-----------------------------------------------------------------------------
LEMMA ReportedFinite ==
    ASSUME NEW held, NEW upto \in Nat
    PROVE  /\ Reported(held, upto) \in SUBSET (0..(upto - 1))
           /\ Reported(held, upto) \in SUBSET Nat
           /\ IsFiniteSet(Reported(held, upto))
<1>1. Reported(held, upto) \in SUBSET (0..(upto - 1))
  BY DEF Reported, MissingBelow
<1>2. IsFiniteSet(0..(upto - 1))
  BY FS_Interval
<1>3. IsFiniteSet(Reported(held, upto))
  BY <1>1, <1>2, FS_Subset
<1> QED
  BY <1>1, <1>3

(* The k-th chunk of a report is the one it names with k - 1 before it. *)
LEMMA ReportOrdered ==
    ASSUME NEW held, NEW upto \in Nat
    PROVE  LET named == Reported(held, upto)
               report == MissingRanges(held, upto)
           IN  /\ report \in Seq(Nat)
               /\ Len(report) = Cardinality(named)
               /\ \A k \in 1..Len(report) :
                    report[k] \in named /\ Rank(named, report[k]) = k - 1
<1> DEFINE named == Reported(held, upto)
           n == Cardinality(named)
           report == MissingRanges(held, upto)
<1>1. named \in SUBSET Nat /\ IsFiniteSet(named) /\ n \in Nat
  BY ReportedFinite, FS_CardinalityType
<1>2. report = [k \in 1..n |-> CHOOSE i \in named : Rank(named, i) = k - 1]
  BY DEF MissingRanges, Rank
<1> HIDE DEF named, n, report
<1>3. ASSUME NEW k \in 1..n
      PROVE  report[k] \in named /\ Rank(named, report[k]) = k - 1
  <2>1. k - 1 \in 0..(Cardinality(named) - 1)
    BY <1>1 DEF n
  <2>2. \E i \in named : Rank(named, i) = k - 1
    BY <1>1, <2>1, RankTaken
  <2>3. report[k] = CHOOSE i \in named : Rank(named, i) = k - 1
    BY <1>2
  <2> QED
    BY <2>2, <2>3
<1>4. \A k \in 1..n : report[k] \in Nat
  BY <1>1, <1>3
<1>5. report = [k \in 1..n |-> report[k]]
  BY <1>2
<1>6. report \in Seq(Nat) /\ Len(report) = n
  BY <1>1, <1>4, <1>5
<1> QED
  BY <1>3, <1>6 DEF named, n, report

(* A report lists all it names. *)
LEMMA ReportListsNamed ==
    ASSUME NEW held, NEW upto \in Nat
    PROVE  ToSet(MissingRanges(held, upto)) = Reported(held, upto)
<1> DEFINE named == Reported(held, upto)
           report == MissingRanges(held, upto)
<1>1. named \in SUBSET Nat /\ IsFiniteSet(named) /\ Cardinality(named) \in Nat
  BY ReportedFinite, FS_CardinalityType
<1>2. /\ report \in Seq(Nat) /\ Len(report) = Cardinality(named)
      /\ \A k \in 1..Len(report) :
           report[k] \in named /\ Rank(named, report[k]) = k - 1
  BY ReportOrdered
<1> HIDE DEF named, report
<1>0. \A a, b \in named : Rank(named, a) = Rank(named, b) => a = b
  BY <1>1, RankInjective
<1>3. ToSet(report) = {report[k] : k \in 1..Len(report)}
  BY <1>2 DEF ToSet
<1>4. ASSUME NEW i \in named
      PROVE  \E k \in 1..Len(report) : report[k] = i
  <2>1. Rank(named, i) \in 0..(Cardinality(named) - 1)
    BY <1>1, FiniteBelow
  <2>2. Rank(named, i) + 1 \in 1..Len(report)
    BY <1>1, <1>2, <2>1
  <2>3. /\ report[Rank(named, i) + 1] \in named
        /\ Rank(named, report[Rank(named, i) + 1]) = Rank(named, i)
    BY <1>2, <2>1, <2>2
  <2>4. PICK l \in 1..Len(report) : /\ report[l] \in named
                                   /\ Rank(named, report[l]) = Rank(named, i)
    BY <2>2, <2>3
  <2>5. report[l] = i
    BY <1>0, <2>4
  <2> QED
    BY <2>5
<1> QED
  BY <1>2, <1>3, <1>4 DEF named, report

(* Lowest first, and each chunk once. *)
LEMMA ReportAscending ==
    ASSUME NEW held, NEW upto \in Nat
    PROVE  LET report == MissingRanges(held, upto)
           IN  \A k, l \in 1..Len(report) : k < l => report[k] < report[l]
<1> DEFINE named == Reported(held, upto)
           report == MissingRanges(held, upto)
<1>1. named \in SUBSET Nat /\ IsFiniteSet(named)
  BY ReportedFinite
<1>2. /\ report \in Seq(Nat)
      /\ \A k \in 1..Len(report) :
           report[k] \in named /\ Rank(named, report[k]) = k - 1
  BY ReportOrdered
<1> HIDE DEF named, report
<1>3. ASSUME NEW k \in 1..Len(report), NEW l \in 1..Len(report), k < l
      PROVE  report[k] < report[l]
  <2>1. report[k] \in named /\ report[l] \in named
    BY <1>2
  <2>2. Rank(named, report[k]) = k - 1 /\ Rank(named, report[l]) = l - 1
    BY <1>2
  <2>3. report[k] # report[l]
    BY <1>3, <2>2
  <2>4. ~(report[l] < report[k])
    <3>1. report[l] < report[k]
            => Rank(named, report[l]) < Rank(named, report[k])
      BY <1>1, <2>1, RankGrows
    <3> QED
      BY <1>3, <2>2, <3>1
  <2>5. report[k] \in Nat /\ report[l] \in Nat
    BY <1>1, <2>1
  <2> QED
    BY <2>3, <2>4, <2>5
<1> QED
  BY <1>3 DEF named, report

LEMMA ReportTyped ==
    ASSUME NEW held, NEW upto \in Nat
    PROVE  MissingRanges(held, upto) \in Ascending
<1> DEFINE report == MissingRanges(held, upto)
<1>1. report \in Seq(Nat)
  BY ReportOrdered
<1>2. \A j, k \in 1..Len(report) : j < k => report[j] < report[k]
  BY ReportAscending
<1> HIDE DEF report
<1>3. DOMAIN report = 1..Len(report)
  BY <1>1
<1> QED
  BY <1>1, <1>2, <1>3 DEF Ascending, report

(* The limit on the ranges cuts from the top. *)
LEMMA ReportedFromBelow ==
    ASSUME NEW held, NEW upto \in Nat, NEW i \in Reported(held, upto),
           NEW j \in 0..i
    PROVE  j \in Reported(held, upto) \cup held
<1> SUFFICES ASSUME j \notin held
             PROVE  j \in Reported(held, upto)
  OBVIOUS
<1> DEFINE missing == MissingBelow(held, upto)
           runs(k) == {n \in missing : n <= k /\ n - 1 \notin missing}
<1>1. i \in missing /\ RunsUpTo(missing, i) <= MAX_REPORT_RANGES
  BY DEF Reported
<1>2. missing \in SUBSET Nat /\ IsFiniteSet(missing)
  <2>1. missing \in SUBSET (0..(upto - 1))
    BY DEF MissingBelow
  <2>2. IsFiniteSet(0..(upto - 1))
    BY FS_Interval
  <2> QED
    BY <2>1, <2>2, FS_Subset
<1>3. j \in missing
  BY <1>1 DEF MissingBelow
<1> HIDE DEF missing
<1>4. runs(j) \in SUBSET runs(i) /\ runs(i) \in SUBSET missing
  <2>1. i \in Nat /\ j \in Nat /\ j <= i
    BY <1>1, <1>2, <1>3
  <2>2. ASSUME NEW n \in runs(j)
        PROVE  n \in runs(i)
    <3>1. n \in missing /\ n <= j /\ n - 1 \notin missing /\ n \in Nat
      BY <1>2
    <3>2. n <= i
      BY <2>1, <3>1
    <3> QED
      BY <3>1, <3>2
  <2> QED
    BY <2>2
<1>5. IsFiniteSet(runs(i))
  BY <1>2, <1>4, FS_Subset
<1>6. IsFiniteSet(runs(j)) /\ Cardinality(runs(j)) <= Cardinality(runs(i))
  BY <1>4, <1>5, FS_Subset
<1>7. Cardinality(runs(j)) \in Nat /\ Cardinality(runs(i)) \in Nat
  BY <1>5, <1>6, FS_CardinalityType
<1>8. RunsUpTo(missing, j) <= MAX_REPORT_RANGES
  BY <1>1, <1>6, <1>7, RangesAssumption DEF RunsUpTo
<1> QED
  BY <1>3, <1>8 DEF Reported, missing
=============================================================================
