-------------------------- MODULE ListRouter_proofs --------------------------
(***************************************************************************)
(* Proofs about ListRouter, for any requests, limits and latency tables,   *)
(* and about the five schedulers that keep one list.                       *)
(***************************************************************************)
EXTENDS ListRouter, Admission_proofs
LOCAL INSTANCE SequencesExt

-----------------------------------------------------------------------------
(* Lists.  What a list holds, and that it holds nothing twice.             *)

Distinct(s) == \A i, j \in DOMAIN s : s[i] = s[j] => i = j

LEMMA ListIs ==
  ASSUME NEW S, NEW s \in Seq(S)
  PROVE  /\ Len(s) \in Nat /\ DOMAIN s = 1..Len(s)
         /\ s \in [1..Len(s) -> S]
         /\ ToSet(s) \subseteq S
         /\ \A x : x \in ToSet(s) <=> \E i \in 1..Len(s) : s[i] = x
BY DEF ToSet

(* A function on an initial segment is a list.                             *)
LEMMA MakesList ==
  ASSUME NEW S, NEW n \in Nat, NEW s \in [1..n -> S]
  PROVE  s \in Seq(S) /\ Len(s) = n
OBVIOUS

(* Place is the inverse of the rank among the places.                      *)
LEMMA PlaceIs ==
  ASSUME NEW I \in SUBSET Nat, IsFiniteSet(I)
  PROVE  /\ Cardinality(I) \in Nat
         /\ \A k \in 1..Cardinality(I) : Place(I, k) \in I /\ Rank(I, Place(I, k)) = k
         /\ \A i \in I : Rank(I, i) \in 1..Cardinality(I) /\ Place(I, Rank(I, i)) = i
<1>1. Cardinality(I) \in Nat
  BY FS_CardinalityType
<1>2. ASSUME NEW k \in 1..Cardinality(I)
      PROVE  Place(I, k) \in I /\ Rank(I, Place(I, k)) = k
  <2>1. \E i \in I : Rank(I, i) = k
    BY RankTaken
  <2>2. QED
    BY <2>1 DEF Place, Rank
<1>3. ASSUME NEW i \in I
      PROVE  Rank(I, i) \in 1..Cardinality(I) /\ Place(I, Rank(I, i)) = i
  <2>1. Rank(I, i) \in 1..Cardinality(I)
    BY RankIsPlace
  <2>2. Place(I, Rank(I, i)) \in I /\ Rank(I, Place(I, Rank(I, i))) = Rank(I, i)
    BY <1>2, <2>1
  <2> DEFINE j == Place(I, Rank(I, i))
  <2>3. j \in I /\ Rank(I, j) = Rank(I, i)
    BY <2>2
  <2> HIDE DEF j
  <2>4. j = i
    BY <2>3, RankUnique
  <2>5. QED
    BY <2>1, <2>4 DEF j
<1>4. QED
  BY <1>1, <1>2, <1>3

(* A filter keeps the elements at its places, in order, each once.         *)
LEMMA PickedIs ==
  ASSUME NEW S, NEW s \in Seq(S), NEW I \in SUBSET DOMAIN s
  PROVE  /\ Picked(s, I) \in Seq(S)
         /\ Len(Picked(s, I)) = Cardinality(I)
         /\ ToSet(Picked(s, I)) = {s[i] : i \in I}
         /\ Distinct(s) => Distinct(Picked(s, I))
<1> DEFINE n == Cardinality(I)
<1>1. DOMAIN s = 1..Len(s) /\ s \in [DOMAIN s -> S] /\ Len(s) \in Nat
  BY ListIs
<1>2. I \in SUBSET Nat /\ IsFiniteSet(I)
  <2>1. IsFiniteSet(DOMAIN s)
    <3>1. 1 \in Int /\ Len(s) \in Int
      BY <1>1
    <3>2. IsFiniteSet(1..Len(s))
      BY <3>1, FS_Interval
    <3>3. QED
      BY <1>1, <3>2
  <2>2. QED
    BY <1>1, <2>1, FS_Subset
<1>3. /\ n \in Nat
      /\ \A k \in 1..n : Place(I, k) \in I /\ Rank(I, Place(I, k)) = k
      /\ \A i \in I : Rank(I, i) \in 1..n /\ Place(I, Rank(I, i)) = i
  BY <1>2, PlaceIs
<1> HIDE DEF n
<1>4. Picked(s, I) = [k \in 1..n |-> s[Place(I, k)]]
  BY DEF Picked, n
<1>5. \A k \in 1..n : s[Place(I, k)] \in S
  BY <1>1, <1>3
<1>6. Picked(s, I) \in [1..n -> S]
  BY <1>4, <1>5
<1>7. Picked(s, I) \in Seq(S) /\ Len(Picked(s, I)) = n
  BY <1>3, <1>6, MakesList
<1>8. ToSet(Picked(s, I)) = {s[i] : i \in I}
  <2>1. ToSet(Picked(s, I)) = {s[Place(I, k)] : k \in 1..n}
    BY <1>4 DEF ToSet
  <2>2. QED
    BY <1>3, <2>1
<1>9. Distinct(s) => Distinct(Picked(s, I))
  <2>1. SUFFICES ASSUME Distinct(s), NEW k \in 1..n, NEW l \in 1..n,
                        s[Place(I, k)] = s[Place(I, l)]
                 PROVE  k = l
    BY <1>4 DEF Distinct
  <2>2. Place(I, k) = Place(I, l)
    BY <1>3, <2>1 DEF Distinct
  <2>3. QED
    BY <1>3, <2>2
<1>10. QED
  BY <1>7, <1>8, <1>9 DEF n

LEMMA SliceIs ==
  ASSUME NEW S, NEW s \in Seq(S), NEW a \in Nat \ {0}, NEW b \in 0..Len(s)
  PROVE  /\ SubSeq(s, a, b) \in Seq(S)
         /\ ToSet(SubSeq(s, a, b)) = {s[i] : i \in a..b}
         /\ Distinct(s) => Distinct(SubSeq(s, a, b))
<1> DEFINE t == SubSeq(s, a, b)
           n == IF a <= b THEN b - a + 1 ELSE 0
<1>1. DOMAIN s = 1..Len(s) /\ s \in [1..Len(s) -> S] /\ Len(s) \in Nat
  BY ListIs
<1>2. n \in Nat /\ \A k \in 1..n : a + k - 1 \in 1..Len(s) /\ a + k - 1 \in a..b
  BY <1>1
<1>3. t = [k \in 1..n |-> s[a + k - 1]]
  BY <1>1
<1>4. t \in Seq(S)
  <2> HIDE DEF n
  <2>1. t \in [1..n -> S]
    BY <1>1, <1>2, <1>3
  <2> HIDE DEF t
  <2>2. QED
    BY <1>2, <2>1, MakesList
<1>5. \A i \in a..b : i - a + 1 \in 1..n /\ a + (i - a + 1) - 1 = i
  BY <1>1
<1> HIDE DEF n, t
<1>6. ToSet(t) = {s[i] : i \in a..b}
  <2>1. ToSet(t) = {s[a + k - 1] : k \in 1..n}
    BY <1>3 DEF ToSet
  <2>2. ASSUME NEW i \in a..b PROVE \E k \in 1..n : s[i] = s[a + k - 1]
    BY <1>5
  <2>3. QED
    BY <1>2, <2>1, <2>2
<1>7. Distinct(s) => Distinct(t)
  <2>1. SUFFICES ASSUME Distinct(s), NEW k \in 1..n, NEW l \in 1..n,
                        s[a + k - 1] = s[a + l - 1]
                 PROVE  k = l
    BY <1>3 DEF Distinct
  <2>2. a + k - 1 \in DOMAIN s /\ a + l - 1 \in DOMAIN s
    BY <1>1, <1>2
  <2>3. a + k - 1 = a + l - 1
    BY <2>1, <2>2 DEF Distinct
  <2>4. k \in Nat /\ l \in Nat
    BY <1>2
  <2>5. QED
    BY <2>3, <2>4
<1>8. QED
  BY <1>4, <1>6, <1>7 DEF t

LEMMA HeadIs ==
  ASSUME NEW S, NEW s \in Seq(S), NEW i \in 0..Len(s)
  PROVE  /\ SubSeq(s, 1, i) \in Seq(S) /\ Len(SubSeq(s, 1, i)) = i
         /\ ToSet(SubSeq(s, 1, i)) = {s[k] : k \in 1..i}
<1> DEFINE one == 1
<1>1. one \in Nat \ {0} /\ one = 1
  OBVIOUS
<1> HIDE DEF one
<1>2. SubSeq(s, one, i) \in Seq(S) /\ ToSet(SubSeq(s, one, i)) = {s[k] : k \in one..i}
  BY <1>1, SliceIs
<1>3. Len(SubSeq(s, 1, i)) = i
  OBVIOUS
<1>4. QED
  BY <1>1, <1>2, <1>3

LEMMA JoinIs ==
  ASSUME NEW S, NEW s \in Seq(S), NEW t \in Seq(S)
  PROVE  /\ s \o t \in Seq(S)
         /\ ToSet(s \o t) = ToSet(s) \cup ToSet(t)
         /\ Distinct(s) /\ Distinct(t) /\ ToSet(s) \cap ToSet(t) = {} => Distinct(s \o t)
<1> DEFINE u == s \o t
           m == Len(s)
           n == Len(t)
<1>1. /\ DOMAIN s = 1..m /\ m \in Nat /\ DOMAIN t = 1..n /\ n \in Nat
      /\ u \in Seq(S) /\ DOMAIN u = 1..m + n
      /\ \A i \in 1..m : u[i] = s[i] /\ s[i] \in ToSet(s)
      /\ \A i \in m + 1..m + n : u[i] = t[i - m] /\ i - m \in 1..n /\ t[i - m] \in ToSet(t)
  BY DEF ToSet
<1> HIDE DEF u
<1>2. ToSet(u) = ToSet(s) \cup ToSet(t)
  <2>1. ASSUME NEW i \in 1..n PROVE t[i] \in ToSet(u)
    <3>1. m + i \in m + 1..m + n /\ (m + i) - m = i /\ m + i \in 1..m + n
      BY <1>1
    <3>2. QED
      BY <1>1, <3>1 DEF ToSet
  <2>2. ASSUME NEW i \in 1..m PROVE s[i] \in ToSet(u)
    <3>1. i \in 1..m + n
      BY <1>1
    <3>2. QED
      BY <1>1, <3>1 DEF ToSet
  <2>3. ASSUME NEW i \in 1..m + n PROVE u[i] \in ToSet(s) \cup ToSet(t)
    <3>1. i \in 1..m \/ i \in m + 1..m + n
      BY <1>1
    <3>2. QED
      BY <1>1, <3>1
  <2>4. /\ ToSet(u) = {u[i] : i \in 1..m + n} /\ ToSet(s) = {s[i] : i \in 1..m}
        /\ ToSet(t) = {t[i] : i \in 1..n}
    BY <1>1 DEF ToSet
  <2>5. QED
    BY <2>1, <2>2, <2>3, <2>4
<1>3. ASSUME Distinct(s), Distinct(t), ToSet(s) \cap ToSet(t) = {}
      PROVE  Distinct(u)
  <2>1. SUFFICES ASSUME NEW i \in 1..m + n, NEW j \in 1..m + n, u[i] = u[j] PROVE i = j
    BY <1>1 DEF Distinct
  <2>2. (i \in 1..m \/ i \in m + 1..m + n) /\ (j \in 1..m \/ j \in m + 1..m + n)
    BY <1>1
  <2>3. CASE i \in 1..m /\ j \in 1..m
    BY <1>1, <1>3, <2>1, <2>3 DEF Distinct
  <2>4. CASE i \in m + 1..m + n /\ j \in m + 1..m + n
    <3>1. i - m = j - m
      BY <1>1, <1>3, <2>1, <2>4 DEF Distinct
    <3>2. QED
      BY <1>1, <3>1
  <2>5. CASE i \in 1..m /\ j \in m + 1..m + n
    BY <1>1, <1>3, <2>1, <2>5
  <2>6. CASE i \in m + 1..m + n /\ j \in 1..m
    BY <1>1, <1>3, <2>1, <2>6
  <2>7. QED
    BY <2>2, <2>3, <2>4, <2>5, <2>6
<1>4. QED
  BY <1>1, <1>2, <1>3 DEF u

LEMMA ReverseIs ==
  ASSUME NEW S, NEW s \in Seq(S)
  PROVE  /\ Reverse(s) \in Seq(S)
         /\ ToSet(Reverse(s)) = ToSet(s)
         /\ Distinct(s) => Distinct(Reverse(s))
<1> DEFINE n == Len(s)
           t == Reverse(s)
<1>1. DOMAIN s = 1..n /\ s \in [1..n -> S] /\ n \in Nat
  BY ListIs
<1>2. t = [i \in 1..n |-> s[(n - i) + 1]]
  BY DEF Reverse
<1> HIDE DEF n, t
<1>3. \A i \in 1..n : (n - i) + 1 \in 1..n /\ (n - ((n - i) + 1)) + 1 = i
  BY <1>1
<1>4. t \in [1..n -> S]
  BY <1>1, <1>2, <1>3
<1>5. t \in Seq(S)
  BY <1>1, <1>4, MakesList
<1>6. ToSet(t) = ToSet(s)
  <2>1. ToSet(t) = {t[i] : i \in 1..n} /\ ToSet(s) = {s[i] : i \in 1..n}
    BY <1>1, <1>4 DEF ToSet
  <2>2. \A i \in 1..n : t[i] = s[(n - i) + 1]
    BY <1>2
  <2>3. \A i \in 1..n : s[i] = t[(n - i) + 1]
    BY <1>3, <2>2
  <2>4. QED
    BY <1>3, <2>1, <2>2, <2>3
<1>7. Distinct(s) => Distinct(t)
  <2>1. SUFFICES ASSUME Distinct(s), NEW i \in 1..n, NEW j \in 1..n,
                        s[(n - i) + 1] = s[(n - j) + 1]
                 PROVE  i = j
    BY <1>2, <1>4 DEF Distinct
  <2>2. (n - i) + 1 = (n - j) + 1
    BY <1>1, <1>3, <2>1 DEF Distinct
  <2>3. QED
    BY <1>1, <2>2
<1>8. QED
  BY <1>5, <1>6, <1>7 DEF t

LEMMA WithoutIs ==
  ASSUME NEW S, NEW s \in Seq(S), NEW gone
  PROVE  /\ Without(s, gone) \in Seq(S)
         /\ ToSet(Without(s, gone)) = ToSet(s) \ gone
         /\ Distinct(s) => Distinct(Without(s, gone))
         /\ Len(Without(s, gone)) \in 0..Len(s)
<1> DEFINE I == {i \in DOMAIN s : s[i] \notin gone}
<1>1. DOMAIN s = 1..Len(s) /\ Len(s) \in Nat /\ ToSet(s) = {s[i] : i \in DOMAIN s}
  BY ListIs DEF ToSet
<1>2. {s[i] : i \in I} = ToSet(s) \ gone
  BY <1>1
<1>3. Cardinality(I) \in 0..Len(s)
  <2>1. 1 \in Int /\ Len(s) \in Int
    BY <1>1
  <2>2. IsFiniteSet(1..Len(s)) /\ Cardinality(1..Len(s)) = IF 1 > Len(s) THEN 0 ELSE Len(s) - 1 + 1
    BY <2>1, FS_Interval
  <2>3. I \in SUBSET (1..Len(s))
    BY <1>1
  <2> HIDE DEF I
  <2>4. IsFiniteSet(I) /\ Cardinality(I) <= Cardinality(1..Len(s))
    BY <2>2, <2>3, FS_Subset
  <2>5. Cardinality(I) \in Nat
    BY <2>4, FS_CardinalityType
  <2>6. QED
    BY <1>1, <2>2, <2>4, <2>5
<1>4. I \in SUBSET DOMAIN s
  OBVIOUS
<1>5. Without(s, gone) = Picked(s, I)
  BY DEF Without
<1> HIDE DEF I
<1>6. /\ Picked(s, I) \in Seq(S)
      /\ Len(Picked(s, I)) = Cardinality(I)
      /\ ToSet(Picked(s, I)) = {s[i] : i \in I}
      /\ Distinct(s) => Distinct(Picked(s, I))
  BY <1>4, PickedIs
<1>7. QED
  BY <1>2, <1>3, <1>5, <1>6

LEMMA OfAdaptersIs ==
  ASSUME NEW s \in Seq(Req), NEW dirs
  PROVE  /\ OfAdapters(s, dirs) \in Seq(Req)
         /\ ToSet(OfAdapters(s, dirs)) = {r \in ToSet(s) : adapter_dir[r] \in dirs}
         /\ Distinct(s) => Distinct(OfAdapters(s, dirs))
<1> DEFINE I == {i \in DOMAIN s : adapter_dir[s[i]] \in dirs}
<1>1. {s[i] : i \in I} = {r \in ToSet(s) : adapter_dir[r] \in dirs}
  BY DEF ToSet
<1>2. I \in SUBSET DOMAIN s
  OBVIOUS
<1>3. OfAdapters(s, dirs) = Picked(s, I)
  BY DEF OfAdapters
<1> HIDE DEF I
<1>4. /\ Picked(s, I) \in Seq(Req)
      /\ ToSet(Picked(s, I)) = {s[i] : i \in I}
      /\ Distinct(s) => Distinct(Picked(s, I))
  BY <1>2, PickedIs
<1>5. QED
  BY <1>1, <1>3, <1>4

LEMMA MinIs ==
  ASSUME NEW N \in SUBSET Nat, N # {}
  PROVE  Min(N) \in N /\ \A y \in N : Min(N) <= y
<1>1. \E x \in N : \A y \in N : x <= y
  BY LeastNumber
<1>2. QED
  BY <1>1, Zenon DEF Min

-----------------------------------------------------------------------------
(* The loop over waiting requests.                                         *)

(* Requests that were judged together, and fitted.                         *)
Judged(j, T) == j \in Seq(Req) /\ ToSet(j) = T

IsScan(s, reqs, judged, taken) == s = Scan(reqs, judged, taken)

(* What a loop has seen, taken and judged.                                 *)
Scanned(s, reqs, judged, taken) ==
  /\ Len(s.seen) \in 0..Len(reqs)
  /\ s.seen = SubSeq(reqs, 1, Len(s.seen))
  /\ s.seen \in Seq(Req) /\ ToSet(s.seen) \subseteq ToSet(reqs)
  /\ s.taken \in Seq(Req)
  /\ ToSet(s.taken) = ToSet(taken) \cup (ToSet(s.seen) \ aborted)
  /\ s.judged \in Seq(Req)
  /\ ToSet(judged) \cup (ToSet(s.seen) \ aborted) \subseteq ToSet(s.judged)
  /\ ToSet(s.judged) \subseteq ToSet(judged) \cup (ToSet(reqs) \ aborted)
  /\ taken = <<>> => Len(s.taken) + s.aborted_count = Len(s.seen)
  /\ \/ ToSet(s.seen) \subseteq aborted
     \/ \E j : /\ Judged(j, ToSet(judged) \cup (ToSet(s.seen) \ aborted))
               /\ CanAdd(j)

LEMMA ScanIs ==
  ASSUME NEW reqs \in Seq(Req), NEW judged \in Seq(Req), NEW taken \in Seq(Req),
         NEW s, IsScan(s, reqs, judged, taken)
  PROVE  Scanned(s, reqs, judged, taken)
<1> DEFINE live(i) == Without(SubSeq(reqs, 1, i), aborted)
           fits(i) == /\ CanAdd(judged \o live(i))
                      /\ InputTokens(ToSet(taken \o live(i))) <= batch_max_tokens
           Stops == {i \in DOMAIN reqs : reqs[i] \notin aborted /\ ~fits(i)} \cup {Len(reqs) + 1}
           stop == Min(Stops)
           last == IF stop > Len(reqs) THEN Len(reqs) ELSE stop
           seen == SubSeq(reqs, 1, stop - 1)
<1>1. /\ s.seen = seen /\ s.taken = taken \o live(stop - 1)
      /\ s.aborted_count = stop - 1 - Len(live(stop - 1))
      /\ s.judged = judged \o live(last)
  BY DEF Scan, IsScan
<1>2. DOMAIN reqs = 1..Len(reqs) /\ Len(reqs) \in Nat /\ reqs \in [1..Len(reqs) -> Req]
  BY ListIs
<1>3. /\ stop \in 1..Len(reqs) + 1
      /\ \A i \in 1..stop - 1 : reqs[i] \notin aborted => fits(i)
  <2>1. Stops \in SUBSET (1..Len(reqs) + 1) /\ Stops # {} /\ Stops \in SUBSET Nat
    BY <1>2
  <2>2. \A i \in 1..Len(reqs) : reqs[i] \notin aborted /\ i \notin Stops => fits(i)
    BY <1>2
  <2> HIDE DEF Stops, fits
  <2>3. stop \in Stops /\ \A i \in Stops : stop <= i
    BY <2>1, MinIs
  <2>4. stop \in 1..Len(reqs) + 1
    BY <2>1, <2>3
  <2>5. ASSUME NEW i \in 1..stop - 1 PROVE i \in 1..Len(reqs) /\ i \notin Stops
    <3>1. i \in 1..Len(reqs)
      BY <1>2, <2>4
    <3>2. ~(stop <= i)
      BY <1>2, <2>4
    <3>3. QED
      BY <2>3, <3>1, <3>2
  <2>6. QED
    BY <2>2, <2>4, <2>5
<1> HIDE DEF Stops, stop, fits
<1>4. stop - 1 \in 0..Len(reqs) /\ last \in 0..Len(reqs) /\ stop - 1 <= last
  BY <1>2, <1>3
<1> HIDE DEF last
<1>5. ASSUME NEW i \in 0..Len(reqs)
      PROVE  /\ SubSeq(reqs, 1, i) \in Seq(Req) /\ Len(SubSeq(reqs, 1, i)) = i
             /\ ToSet(SubSeq(reqs, 1, i)) = {reqs[k] : k \in 1..i}
             /\ live(i) \in Seq(Req) /\ Len(live(i)) \in 0..i
             /\ ToSet(live(i)) = {reqs[k] : k \in 1..i} \ aborted
  <2> DEFINE h == SubSeq(reqs, 1, i)
  <2>1. h \in Seq(Req) /\ ToSet(h) = {reqs[k] : k \in 1..i} /\ Len(h) = i
    BY <1>2, HeadIs
  <2>2. live(i) = Without(h, aborted)
    OBVIOUS
  <2> HIDE DEF live
  <2>4. /\ h \in Seq(Req) /\ Len(h) = i /\ ToSet(h) = {reqs[k] : k \in 1..i}
        /\ live(i) = Without(h, aborted)
    BY <2>1, <2>2
  <2> HIDE DEF h
  <2>5. /\ Without(h, aborted) \in Seq(Req)
        /\ ToSet(Without(h, aborted)) = ToSet(h) \ aborted
        /\ Len(Without(h, aborted)) \in 0..Len(h)
    BY <2>4, WithoutIs
  <2>6. live(i) \in Seq(Req) /\ Len(live(i)) \in 0..i
    BY <2>4, <2>5
  <2>7. ToSet(live(i)) = {reqs[k] : k \in 1..i} \ aborted
    BY <2>4, <2>5
  <2>8. QED
    BY <2>4, <2>6, <2>7 DEF h
<1>6. /\ seen \in Seq(Req) /\ Len(seen) = stop - 1 /\ ToSet(seen) = {reqs[k] : k \in 1..stop - 1}
      /\ live(stop - 1) \in Seq(Req) /\ live(last) \in Seq(Req)
      /\ Len(live(stop - 1)) \in 0..stop - 1
      /\ ToSet(live(stop - 1)) = ToSet(seen) \ aborted
      /\ ToSet(live(last)) = {reqs[k] : k \in 1..last} \ aborted
  BY <1>4, <1>5
<1>7. ToSet(seen) \subseteq ToSet(reqs) /\ {reqs[k] : k \in 1..last} \subseteq ToSet(reqs)
      /\ ToSet(seen) \subseteq {reqs[k] : k \in 1..last}
  <2>1. ToSet(reqs) = {reqs[k] : k \in 1..Len(reqs)}
    BY <1>2 DEF ToSet
  <2>2. 1..stop - 1 \subseteq 1..last /\ 1..last \subseteq 1..Len(reqs)
    BY <1>2, <1>4
  <2>3. QED
    BY <1>6, <2>1, <2>2
<1>8. /\ s.taken \in Seq(Req) /\ ToSet(s.taken) = ToSet(taken) \cup (ToSet(seen) \ aborted)
      /\ s.judged \in Seq(Req)
      /\ ToSet(s.judged) = ToSet(judged) \cup ({reqs[k] : k \in 1..last} \ aborted)
  BY <1>1, <1>6, JoinIs
<1>9. taken = <<>> => Len(s.taken) + s.aborted_count = stop - 1
  <2>1. Len(<<>> \o live(stop - 1)) = Len(live(stop - 1))
    BY <1>6
  <2>2. QED
    BY <1>1, <1>4, <1>6, <2>1
<1>10. ASSUME ~(ToSet(seen) \subseteq aborted)
       PROVE  \E j : /\ Judged(j, ToSet(judged) \cup (ToSet(seen) \ aborted))
                     /\ CanAdd(j)
  <2> DEFINE L == {k \in 1..stop - 1 : reqs[k] \notin aborted}
  <2>1. L # {} /\ L \in SUBSET Nat /\ IsFiniteSet(L)
    <3>1. L # {}
      BY <1>6, <1>10
    <3>2. stop - 1 \in Nat
      BY <1>2, <1>4
    <3>3. L \in SUBSET (1..stop - 1) /\ L \in SUBSET Nat
      BY <3>2
    <3> DEFINE n == stop - 1
    <3>4. 1 \in Int /\ n \in Int
      BY <3>2
    <3> HIDE DEF n
    <3>5. IsFiniteSet(1..n)
      BY <3>4, FS_Interval
    <3> HIDE DEF L
    <3>6. IsFiniteSet(L)
      BY <3>3, <3>5, FS_Subset DEF n
    <3>7. QED
      BY <3>1, <3>3, <3>6
  <2>2. PICK i \in L : \A k \in L : k <= i
    <3> HIDE DEF L
    <3>1. Max(L) \in L /\ \A k \in L : k <= Max(L)
      BY <2>1, GreatestNumber
    <3>2. QED
      BY <3>1
  <2>3. fits(i) /\ i \in 0..Len(reqs) /\ i \in 1..stop - 1
    BY <1>3, <1>4
  <2>4. ToSet(live(i)) = ToSet(seen) \ aborted
    <3>1. ToSet(live(i)) = {reqs[k] : k \in 1..i} \ aborted
      BY <1>5, <2>3
    <3>2. ASSUME NEW k \in 1..stop - 1, reqs[k] \notin aborted PROVE k \in 1..i
      BY <1>4, <2>2, <2>3, <3>2
    <3>3. 1..i \subseteq 1..stop - 1
      BY <1>4, <2>3
    <3>4. QED
      BY <1>6, <3>1, <3>2, <3>3
  <2>5. Judged(judged \o live(i), ToSet(judged) \cup (ToSet(seen) \ aborted))
    BY <1>5, <2>3, <2>4, JoinIs DEF Judged
  <2>6. CanAdd(judged \o live(i))
    BY <2>3 DEF fits
  <2> HIDE DEF seen, live
  <2>7. \E j : Judged(j, ToSet(judged) \cup (ToSet(seen) \ aborted)) /\ CanAdd(j)
    BY <2>5, <2>6
  <2>8. QED
    BY <2>7
<1> DEFINE Fits == \/ ToSet(seen) \subseteq aborted
                   \/ \E j : /\ Judged(j, ToSet(judged) \cup (ToSet(seen) \ aborted))
                             /\ CanAdd(j)
<1>11. Fits
  BY <1>10
<1> HIDE DEF seen, live
<1>12. s.seen = seen /\ Len(s.seen) = stop - 1
  BY <1>1, <1>6
<1>13. s.seen = SubSeq(reqs, 1, Len(s.seen))
  BY <1>1, <1>12 DEF seen
<1>14. /\ Len(s.seen) \in 0..Len(reqs)
       /\ s.seen \in Seq(Req) /\ ToSet(s.seen) \subseteq ToSet(reqs)
  BY <1>4, <1>6, <1>7, <1>12
<1>15. /\ s.taken \in Seq(Req) /\ s.judged \in Seq(Req)
       /\ ToSet(s.taken) = ToSet(taken) \cup (ToSet(s.seen) \ aborted)
       /\ ToSet(judged) \cup (ToSet(s.seen) \ aborted) \subseteq ToSet(s.judged)
       /\ ToSet(s.judged) \subseteq ToSet(judged) \cup (ToSet(reqs) \ aborted)
  BY <1>7, <1>8, <1>12
<1>16. taken = <<>> => Len(s.taken) + s.aborted_count = Len(s.seen)
  BY <1>9, <1>12
<1>17. \/ ToSet(s.seen) \subseteq aborted
       \/ \E j : /\ Judged(j, ToSet(judged) \cup (ToSet(s.seen) \ aborted))
                 /\ CanAdd(j)
  BY <1>11, <1>12
<1>18. QED
  BY <1>13, <1>14, <1>15, <1>16, <1>17 DEF Scanned

-----------------------------------------------------------------------------
(* The estimate.  The batch that runs together with new requests T that    *)
(* were judged, however often and with whatever others, fits for good.     *)
LEMMA ListCovers ==
  ASSUME running \in SUBSET Req, outputs \in [Req -> Nat],
         \A r \in running : outputs[r] # 0 /\ outputs[r] < max_output_len[r],
         NEW j \in Seq(Req), CanAdd(j),
         NEW T \in SUBSET ToSet(j), T # {}, \A r \in T : outputs[r] = 0
  PROVE  /\ PeaksFit(outputs, running \cup T)
         /\ Cardinality(running \cup T) <= running_max_req_size
<1> DEFINE A == running \cup T
           L == {<<i, j[i]>> : i \in DOMAIN j}
           R == {0} \X running
           D == R \cup L
           cache == CacheList(j)
           at(x) == CHOOSE i \in DOMAIN j : j[i] = x
           own == [x \in A |-> IF x \in running THEN <<0, x>> ELSE <<at(x), x>>]
<1>1. /\ DOMAIN j = 1..Len(j) /\ Len(j) \in Nat /\ j \in [DOMAIN j -> Req]
      /\ ToSet(j) = {j[i] : i \in DOMAIN j} /\ ToSet(j) \subseteq Req
  BY ListIs DEF ToSet
<1>2. A \in SUBSET Req /\ A # {} /\ running \cup ToSet(j) \in SUBSET Req
  BY <1>1
<1>3. IsFiniteSet(D)
  <2>1. IsFiniteSet(R)
    <3>1. IsFiniteSet({0}) /\ IsFiniteSet(running)
      BY FS_Singleton, PartsFinite
    <3>2. QED
      BY <3>1, FS_Product
  <2>2. IsFiniteSet(L)
    <3> DEFINE f == [i \in DOMAIN j |-> <<i, j[i]>>]
               n == Len(j)
    <3>1. f \in Surjection(DOMAIN j, L)
      BY DEF Surjection
    <3>2. 1 \in Int /\ n \in Int /\ DOMAIN j = 1..n
      BY <1>1
    <3> HIDE DEF n, f, L
    <3>3. IsFiniteSet(1..n)
      BY <3>2, FS_Interval
    <3>4. QED
      BY <3>1, <3>2, <3>3, FS_Surjection
  <2> HIDE DEF R, L
  <2>3. QED
    BY <2>1, <2>2, FS_Union
<1>4. /\ DOMAIN cache = D
      /\ \A x \in running : cache[<<0, x>>] = RunningEntry(x, outputs[x]) /\ <<0, x>> \in D
      /\ \A i \in DOMAIN j : cache[<<i, j[i]>>] = NewEntry(j[i]) /\ <<i, j[i]>> \in D
  BY <1>1 DEF CacheList
<1>5. \A d \in D : (\E x \in running : d = <<0, x>>) \/ (\E i \in DOMAIN j : d = <<i, j[i]>>)
  OBVIOUS
<1> HIDE DEF cache, D
<1>6. ASSUME NEW x \in running
      PROVE  /\ cache[<<0, x>>].has_run = HasRun(outputs, x) /\ HasRun(outputs, x) \in Nat
             /\ cache[<<0, x>>].left = LeftOut(outputs, x) /\ LeftOut(outputs, x) \in Nat
  <2>1. /\ x \in Req /\ input_len[x] \in Nat /\ max_output_len[x] \in Nat /\ outputs[x] \in Nat
        /\ outputs[x] # 0 /\ outputs[x] < max_output_len[x]
    BY RunNat
  <2>2. cache[<<0, x>>] = [has_run |-> input_len[x] + outputs[x],
                           left |-> max_output_len[x] - outputs[x] - 1]
    BY <1>4 DEF RunningEntry
  <2>3. QED
    BY <2>1, <2>2 DEF HasRun, LeftOut
<1>7. ASSUME NEW i \in DOMAIN j
      PROVE  /\ cache[<<i, j[i]>>].has_run = input_len[j[i]] + 1 /\ input_len[j[i]] + 1 \in Nat
             /\ cache[<<i, j[i]>>].left = max_output_len[j[i]] - 1 /\ max_output_len[j[i]] - 1 \in Nat
  <2>1. /\ j[i] \in Req /\ input_len[j[i]] \in Nat /\ max_output_len[j[i]] \in Nat \ {0}
    BY <1>1, RequestAssumption
  <2>2. cache[<<i, j[i]>>] = [has_run |-> input_len[j[i]] + 1, left |-> max_output_len[j[i]] - 1]
    BY <1>4 DEF NewEntry
  <2>3. QED
    BY <2>1, <2>2
<1>8. IsEntries(cache, D)
  <2>1. ASSUME NEW d \in D PROVE cache[d].has_run \in Nat /\ cache[d].left \in Nat
    <3>1. CASE \E x \in running : d = <<0, x>>
      BY <1>6, <3>1
    <3>2. CASE \E i \in DOMAIN j : d = <<i, j[i]>>
      BY <1>7, <3>2
    <3>3. QED
      BY <1>5, <3>1, <3>2
  <2>2. QED
    BY <1>4, <2>1 DEF IsEntries
<1>9. ASSUME NEW x \in A, x \notin running
      PROVE  /\ at(x) \in DOMAIN j /\ j[at(x)] = x
             /\ HasRun(outputs, x) = input_len[x] + 1 /\ LeftOut(outputs, x) = max_output_len[x] - 1
  <2>1. x \in T /\ x \in ToSet(j) /\ outputs[x] = 0
    BY <1>9
  <2>2. \E i \in DOMAIN j : j[i] = x
    BY <1>1, <2>1
  <2>3. QED
    BY <2>1, <2>2 DEF HasRun, LeftOut
<1> HIDE DEF at, A
<1>10. ASSUME NEW x \in A
       PROVE  /\ own[x] \in D /\ own[x][2] = x
              /\ cache[own[x]].has_run = HasRun(outputs, x)
              /\ cache[own[x]].left = LeftOut(outputs, x) /\ LeftOut(outputs, x) \in Nat
  <2>1. CASE x \in running
    <3>1. own[x] = <<0, x>>
      BY <2>1
    <3> HIDE DEF own
    <3>2. QED
      BY <1>4, <1>6, <2>1, <3>1
  <2>2. CASE x \notin running
    <3>1. own[x] = <<at(x), j[at(x)]>> /\ j[at(x)] = x /\ at(x) \in DOMAIN j
      BY <1>9, <2>2
    <3> HIDE DEF own
    <3>2. cache[own[x]].has_run = input_len[x] + 1 /\ cache[own[x]].left = max_output_len[x] - 1
          /\ max_output_len[x] - 1 \in Nat
      BY <1>7, <3>1
    <3>3. QED
      BY <1>4, <1>9, <2>2, <3>1, <3>2
  <2>3. QED
    BY <2>1, <2>2
<1>11. own \in Injection(A, D)
  <2>1. own \in [A -> D]
    BY <1>10
  <2>2. \A x, y \in A : own[x] = own[y] => x = y
    BY <1>10
  <2>3. QED
    BY <2>1, <2>2 DEF Injection, IsInjective
<1> HIDE DEF own
<1>12. \A x \in A : /\ cache[own[x]].has_run = HasRun(outputs, x)
                    /\ cache[own[x]].left = LeftOut(outputs, x)
  BY <1>10
<1>13. \A x \in A : LeftOut(outputs, x) \in Nat
  BY <1>10
<1>14. /\ NeedMaxTokenNum(cache) \in Nat
       /\ \A t \in Nat : Peak(outputs, A, t) <= NeedMaxTokenNum(cache)
       /\ Cardinality(A) <= Cardinality(D)
  <2>1. A \in SUBSET Req /\ A # {}
    BY <1>2 DEF A
  <2>2. QED
    BY <1>3, <1>8, <1>11, <1>12, <1>13, <2>1, EntriesCover
<1>15. /\ NeedMaxTokenNum(cache) + AdapterSize(running \cup ToSet(j)) < max_total_tokens
       /\ Cardinality(D) <= running_max_req_size
  BY <1>4 DEF CanAdd, cache
<1> DEFINE B == running \cup ToSet(j)
<1>16. A \in SUBSET B /\ B \in SUBSET Req
  BY <1>2 DEF A
<1> HIDE DEF B
<1>17. /\ AdapterSize(A) \in Nat /\ AdapterSize(B) \in Nat /\ AdapterSize(A) <= AdapterSize(B)
  BY <1>16, AdapterSizeGrows
<1>18. ASSUME NEW t \in Nat PROVE Peak(outputs, A, t) + AdapterSize(A) < max_total_tokens
  <2>1. Peak(outputs, A, t) \in Nat /\ Peak(outputs, A, t) <= NeedMaxTokenNum(cache)
    BY <1>14, <1>16, PeakNat
  <2>2. QED
    BY <1>14, <1>15, <1>17, <2>1, LimitAssumption DEF B
<1>19. PeaksFit(outputs, A)
  BY <1>18 DEF PeaksFit
<1>20. Cardinality(A) \in Nat /\ Cardinality(D) \in Nat
  BY <1>3, <1>16, PartsFinite, FS_CardinalityType
<1>21. Cardinality(A) <= running_max_req_size
  BY <1>14, <1>15, <1>20, LimitAssumption
<1>22. QED
  BY <1>19, <1>21 DEF A

-----------------------------------------------------------------------------
(* What a scheduler may make of the list: it takes requests that wait and  *)
(* were not aborted, loses none, has judged together what it takes, and    *)
(* keeps the list of time stamps aligned with the list.                    *)
TimesFit(times, list) ==
  IF policy = "abort"
    THEN /\ times \in Seq(1..Len(order)) /\ Len(times) = Len(list)
         /\ \A i \in 1..Len(list) : order[times[i]] = list[i]
    ELSE times = <<>>

ListOK ==
  /\ order \in Seq(Req) /\ waiting \in Seq(Req) /\ Distinct(waiting)
  /\ expired \in 0..Len(order)
  /\ TimesFit(req_time_stamp, waiting)
  /\ apprx_req_rate \in Int /\ last_req_num \in Int /\ apprx_bs \in Nat \ {0}

Fitting(T) == T = {} \/ \E j \in Seq(Req) : T \subseteq ToSet(j) /\ CanAdd(j)

Parts(taken, left, late) ==
  /\ taken \in Seq(Req) /\ left \in Seq(Req) /\ Distinct(left)
  /\ ToSet(left) \subseteq ToSet(waiting) /\ late \subseteq ToSet(waiting)
  /\ ToSet(taken) \subseteq ToSet(waiting) \ aborted
  /\ ToSet(taken) \cap (ToSet(left) \cup late) = {}
  /\ ToSet(waiting) \subseteq ToSet(left) \cup ToSet(taken) \cup aborted \cup late
  /\ Fitting(ToSet(taken))

GoodBatch(b) ==
  /\ Parts(b.taken, b.left, b.late)
  /\ TimesFit(b.times, b.left)
  /\ b.late \subseteq {order[i] : i \in 1..expired}
  /\ b.rate \in Int /\ b.num \in Int /\ b.bs \in Nat \ {0}

(* A first loop.                                                           *)
LEMMA FirstScanIs ==
  ASSUME NEW reqs \in Seq(Req), NEW s, IsScan(s, reqs, <<>>, <<>>)
  PROVE  /\ Len(s.seen) \in 0..Len(reqs)
         /\ s.seen = SubSeq(reqs, 1, Len(s.seen))
         /\ s.seen \in Seq(Req) /\ ToSet(s.seen) \subseteq ToSet(reqs)
         /\ s.taken \in Seq(Req) /\ ToSet(s.taken) = ToSet(s.seen) \ aborted
         /\ s.judged \in Seq(Req) /\ ToSet(s.taken) \subseteq ToSet(s.judged)
         /\ Len(s.taken) + s.aborted_count = Len(s.seen)
         /\ Fitting(ToSet(s.taken))
<1> DEFINE none == <<>>
<1>1. none \in Seq(Req) /\ ToSet(none) = {} /\ IsScan(s, reqs, none, none) /\ none = <<>>
  BY DEF ToSet
<1> HIDE DEF none
<1>2. /\ Len(s.seen) \in 0..Len(reqs)
      /\ s.seen = SubSeq(reqs, 1, Len(s.seen))
      /\ s.seen \in Seq(Req) /\ ToSet(s.seen) \subseteq ToSet(reqs)
      /\ s.taken \in Seq(Req)
      /\ ToSet(s.taken) = ToSet(none) \cup (ToSet(s.seen) \ aborted)
      /\ s.judged \in Seq(Req)
      /\ ToSet(none) \cup (ToSet(s.seen) \ aborted) \subseteq ToSet(s.judged)
      /\ none = <<>> => Len(s.taken) + s.aborted_count = Len(s.seen)
      /\ \/ ToSet(s.seen) \subseteq aborted
         \/ \E j : /\ Judged(j, ToSet(none) \cup (ToSet(s.seen) \ aborted))
                   /\ CanAdd(j)
  <2>1. Scanned(s, reqs, none, none)
    BY <1>1, ScanIs
  <2>2. QED
    BY <2>1, Zenon DEF Scanned
<1>3. ToSet(s.taken) = ToSet(s.seen) \ aborted
  BY <1>1, <1>2
<1>4. Fitting(ToSet(s.taken))
  <2>1. CASE ToSet(s.seen) \subseteq aborted
    BY <1>3, <2>1 DEF Fitting
  <2>2. ASSUME NEW j, Judged(j, ToSet(none) \cup (ToSet(s.seen) \ aborted)), CanAdd(j)
        PROVE  Fitting(ToSet(s.taken))
    BY <1>2, <2>2 DEF Fitting, Judged
  <2>3. QED
    BY <1>2, <2>1, <2>2
<1>5. QED
  BY <1>1, <1>2, <1>3, <1>4

(* No batch: nothing changes.                                              *)
LEMMA NoBatchIs == ListOK => GoodBatch(NoBatch)
<1> SUFFICES ASSUME ListOK PROVE GoodBatch(NoBatch)
  OBVIOUS
<1> DEFINE none == <<>>
<1>1. none \in Seq(Req) /\ ToSet(none) = {}
  BY DEF ToSet
<1> HIDE DEF none
<1>2. Parts(none, waiting, {})
  BY <1>1 DEF Parts, Fitting, ListOK
<1>3. NoBatch = [taken |-> none, left |-> waiting, late |-> {}, times |-> req_time_stamp,
                 rate |-> apprx_req_rate, bs |-> apprx_bs, num |-> last_req_num]
  BY DEF NoBatch, Batch, none
<1>4. QED
  BY <1>2, <1>3 DEF GoodBatch, ListOK

LEMMA BatchIs ==
  ASSUME ListOK, policy # "abort", NEW taken, NEW left, Parts(taken, left, {})
  PROVE  GoodBatch(Batch(taken, left))
<1>1. TimesFit(req_time_stamp, left)
  BY DEF ListOK, TimesFit
<1>2. QED
  BY <1>1 DEF Batch, GoodBatch, ListOK

LEMMA FcfsIs == ListOK /\ policy # "abort" => GoodBatch(Fcfs)
<1> SUFFICES ASSUME ListOK, policy # "abort" PROVE GoodBatch(Fcfs)
  OBVIOUS
<1> DEFINE s == Scan(waiting, <<>>, <<>>)
           n == Len(s.seen)
           left == SubSeq(waiting, n + 1, Len(waiting))
<1>1. Fcfs = IF s.taken = <<>> THEN NoBatch
             ELSE Batch(s.taken, SubSeq(waiting, Len(s.taken) + s.aborted_count + 1, Len(waiting)))
  BY DEF Fcfs
<1>2. /\ waiting \in Seq(Req) /\ Distinct(waiting)
      /\ DOMAIN waiting = 1..Len(waiting) /\ Len(waiting) \in Nat
      /\ IsScan(s, waiting, <<>>, <<>>)
  BY ListIs DEF ListOK, IsScan
<1> HIDE DEF s
<1>3. /\ n \in 0..Len(waiting)
      /\ s.seen = SubSeq(waiting, 1, n)
      /\ s.taken \in Seq(Req) /\ ToSet(s.taken) = ToSet(s.seen) \ aborted
      /\ ToSet(s.seen) \subseteq ToSet(waiting)
      /\ Len(s.taken) + s.aborted_count = n
      /\ Fitting(ToSet(s.taken))
  BY <1>2, FirstScanIs
<1> HIDE DEF n
<1>4. n \in Nat /\ n + 1 \in Nat \ {0} /\ Len(waiting) \in 0..Len(waiting)
  BY <1>2, <1>3
<1>5. ToSet(SubSeq(waiting, 1, n)) = {waiting[i] : i \in 1..n}
  BY <1>2, <1>3, SliceIs
<1>6. left \in Seq(Req) /\ Distinct(left) /\ ToSet(left) = {waiting[i] : i \in n + 1..Len(waiting)}
  BY <1>2, <1>4, SliceIs
<1> HIDE DEF left
<1>7. ToSet(waiting) = {waiting[i] : i \in 1..Len(waiting)}
  BY <1>2 DEF ToSet
<1>8. \A i \in 1..Len(waiting) : i \in 1..n \/ i \in n + 1..Len(waiting)
  BY <1>2, <1>4
<1>9. \A i \in 1..n, k \in n + 1..Len(waiting) :
        i \in 1..Len(waiting) /\ k \in 1..Len(waiting) /\ i # k
  BY <1>2, <1>3, <1>4
<1>10. ToSet(s.seen) \cap ToSet(left) = {}
  BY <1>2, <1>3, <1>5, <1>6, <1>9 DEF Distinct
<1>11. ToSet(waiting) \subseteq ToSet(left) \cup ToSet(s.seen)
  BY <1>3, <1>5, <1>6, <1>7, <1>8
<1>12. ToSet(left) \subseteq ToSet(waiting)
  BY <1>6, <1>7, <1>9, <1>4
<1>13. Parts(s.taken, left, {})
  BY <1>3, <1>6, <1>10, <1>11, <1>12 DEF Parts
<1>14. GoodBatch(Batch(s.taken, left))
  BY <1>13, BatchIs
<1>15. Fcfs = IF s.taken = <<>> THEN NoBatch ELSE Batch(s.taken, left)
  BY <1>1, <1>3 DEF left
<1>16. QED
  BY <1>14, <1>15, NoBatchIs

(* Filters that take a part of the list by the requests that were seen.    *)
LEMMA FilterParts ==
  ASSUME ListOK, NEW s, NEW reqs \in Seq(Req), IsScan(s, reqs, <<>>, <<>>),
         ToSet(reqs) \subseteq ToSet(waiting),
         NEW gone, ToSet(s.taken) \subseteq gone, gone \subseteq ToSet(s.taken) \cup aborted
  PROVE  Parts(s.taken, Without(waiting, gone), {})
<1>1. waiting \in Seq(Req) /\ Distinct(waiting)
  BY DEF ListOK
<1>2. /\ Without(waiting, gone) \in Seq(Req)
      /\ ToSet(Without(waiting, gone)) = ToSet(waiting) \ gone
      /\ Distinct(Without(waiting, gone))
  BY <1>1, WithoutIs
<1>3. /\ s.taken \in Seq(Req) /\ ToSet(s.taken) = ToSet(s.seen) \ aborted
      /\ ToSet(s.seen) \subseteq ToSet(reqs) /\ Fitting(ToSet(s.taken))
  BY FirstScanIs
<1>4. QED
  BY <1>2, <1>3 DEF Parts

LEMMA PeftIs == ListOK /\ policy # "abort" => GoodBatch(Peft)
<1> SUFFICES ASSUME ListOK, policy # "abort" PROVE GoodBatch(Peft)
  OBVIOUS
<1> DEFINE reqs == OfAdapters(waiting, PeftAdapters)
           s == Scan(reqs, <<>>, <<>>)
<1>1. reqs \in Seq(Req) /\ ToSet(reqs) \subseteq ToSet(waiting)
  <2>1. waiting \in Seq(Req)
    BY DEF ListOK
  <2>2. /\ reqs \in Seq(Req)
        /\ ToSet(reqs) = {r \in ToSet(waiting) : adapter_dir[r] \in PeftAdapters}
    BY <2>1, OfAdaptersIs
  <2>3. QED
    BY <2>2
<1>2. IsScan(s, reqs, <<>>, <<>>)
  BY DEF IsScan
<1>3. Peft = NoBatch \/ Peft = Batch(s.taken, Without(waiting, ToSet(s.taken)))
  BY DEF Peft
<1> HIDE DEF s, reqs
<1>4. Parts(s.taken, Without(waiting, ToSet(s.taken)), {})
  BY <1>1, <1>2, FilterParts
<1>5. GoodBatch(Batch(s.taken, Without(waiting, ToSet(s.taken))))
  BY <1>4, BatchIs
<1>6. QED
  BY <1>3, <1>5, NoBatchIs

(* Two loops, the second over what the first has not seen, judged by the   *)
(* cache list that the first one left.                                     *)
LEMMA ClusterIs == ListOK /\ policy # "abort" => GoodBatch(Cluster)
<1> SUFFICES ASSUME ListOK, policy # "abort" PROVE GoodBatch(Cluster)
  OBVIOUS
<1> DEFINE live == {i \in DOMAIN waiting : waiting[i] \notin aborted}
           sliced == SubSeq(waiting, Min(live), Len(waiting))
           mine == OfAdapters(sliced, Dirs(running))
           one == Scan(mine, <<>>, <<>>)
           rest == Without(sliced, ToSet(one.seen))
           two == Scan(rest, one.judged, one.taken)
           left == Without(rest, ToSet(two.seen))
<1>1. Cluster = Fcfs \/ (live # {} /\ Cluster = Batch(two.taken, left))
  BY DEF Cluster
<1>2. /\ waiting \in Seq(Req) /\ Distinct(waiting)
      /\ DOMAIN waiting = 1..Len(waiting) /\ Len(waiting) \in Nat
      /\ ToSet(waiting) = {waiting[i] : i \in 1..Len(waiting)}
  BY ListIs DEF ListOK, ToSet
<1>3. ASSUME live # {} PROVE Parts(two.taken, left, {})
  <2> DEFINE m == Min(live)
  <2>1. /\ m \in 1..Len(waiting)
        /\ \A i \in 1..Len(waiting) : i < m => waiting[i] \in aborted
    <3>1. live \in SUBSET Nat /\ live \in SUBSET (1..Len(waiting)) /\ live # {}
      BY <1>2, <1>3
    <3>2. \A i \in 1..Len(waiting) : i \notin live => waiting[i] \in aborted
      BY <1>2
    <3> HIDE DEF live
    <3>3. m \in live /\ \A y \in live : m <= y
      BY <3>1, MinIs
    <3> HIDE DEF m
    <3>4. QED
      BY <3>1, <3>2, <3>3
  <2>2. sliced = SubSeq(waiting, m, Len(waiting))
    OBVIOUS
  <2> HIDE DEF sliced, m
  <2>3. m \in Nat \ {0} /\ Len(waiting) \in 0..Len(waiting)
    BY <1>2, <2>1
  <2>4. /\ sliced \in Seq(Req) /\ Distinct(sliced)
        /\ ToSet(sliced) = {waiting[i] : i \in m..Len(waiting)}
    BY <1>2, <2>2, <2>3, SliceIs
  <2>5. ToSet(sliced) \subseteq ToSet(waiting) /\ ToSet(waiting) \subseteq ToSet(sliced) \cup aborted
    <3>1. \A i \in 1..Len(waiting) : i < m \/ i \in m..Len(waiting)
      BY <1>2, <2>3
    <3>2. \A i \in m..Len(waiting) : i \in 1..Len(waiting)
      BY <1>2, <2>3
    <3>3. QED
      BY <1>2, <2>1, <2>4, <3>1, <3>2
  <2>6. /\ mine \in Seq(Req)
        /\ ToSet(mine) = {r \in ToSet(sliced) : adapter_dir[r] \in Dirs(running)}
    BY <2>4, OfAdaptersIs
  <2>7. IsScan(one, mine, <<>>, <<>>) /\ IsScan(two, rest, one.judged, one.taken)
    BY DEF IsScan
  <2> HIDE DEF mine, one, two
  <2>8. /\ one.seen \in Seq(Req) /\ ToSet(one.seen) \subseteq ToSet(mine)
        /\ one.taken \in Seq(Req) /\ ToSet(one.taken) = ToSet(one.seen) \ aborted
        /\ one.judged \in Seq(Req) /\ ToSet(one.taken) \subseteq ToSet(one.judged)
        /\ Fitting(ToSet(one.taken))
    BY <2>6, <2>7, FirstScanIs
  <2>9. /\ rest \in Seq(Req) /\ ToSet(rest) = ToSet(sliced) \ ToSet(one.seen) /\ Distinct(rest)
    BY <2>4, WithoutIs
  <2> HIDE DEF rest
  <2>10. /\ two.seen \in Seq(Req) /\ ToSet(two.seen) \subseteq ToSet(rest)
         /\ two.taken \in Seq(Req)
         /\ ToSet(two.taken) = ToSet(one.taken) \cup (ToSet(two.seen) \ aborted)
         /\ \/ ToSet(two.seen) \subseteq aborted
            \/ \E j : /\ Judged(j, ToSet(one.judged) \cup (ToSet(two.seen) \ aborted))
                      /\ CanAdd(j)
    <3>1. Scanned(two, rest, one.judged, one.taken)
      BY <2>7, <2>8, <2>9, ScanIs
    <3>2. QED
      BY <3>1, Zenon DEF Scanned
  <2>11. /\ left \in Seq(Req) /\ ToSet(left) = ToSet(rest) \ ToSet(two.seen) /\ Distinct(left)
    BY <2>9, WithoutIs
  <2> HIDE DEF left
  <2>12. Fitting(ToSet(two.taken))
    <3>1. CASE ToSet(two.seen) \subseteq aborted
      <4>1. ToSet(two.taken) = ToSet(one.taken)
        BY <2>10, <3>1
      <4>2. QED
        BY <2>8, <4>1 DEF Fitting
    <3>2. ASSUME NEW j, Judged(j, ToSet(one.judged) \cup (ToSet(two.seen) \ aborted)), CanAdd(j)
          PROVE  Fitting(ToSet(two.taken))
      <4>1. j \in Seq(Req) /\ ToSet(two.taken) \subseteq ToSet(j)
        BY <2>8, <2>10, <3>2 DEF Judged
      <4>2. QED
        BY <3>2, <4>1 DEF Fitting
    <3>3. QED
      BY <2>10, <3>1, <3>2
  <2>13. ToSet(left) \subseteq ToSet(waiting) /\ ToSet(two.taken) \subseteq ToSet(waiting) \ aborted
    BY <2>5, <2>6, <2>8, <2>9, <2>10, <2>11
  <2>14. ToSet(two.taken) \cap ToSet(left) = {}
    BY <2>8, <2>9, <2>10, <2>11
  <2>15. ToSet(waiting) \subseteq ToSet(left) \cup ToSet(two.taken) \cup aborted
    BY <2>5, <2>8, <2>9, <2>10, <2>11
  <2>16. QED
    BY <2>10, <2>11, <2>12, <2>13, <2>14, <2>15 DEF Parts
<1> HIDE DEF two, left, live
<1>4. live # {} => GoodBatch(Batch(two.taken, left))
  BY <1>3, BatchIs
<1>5. QED
  BY <1>1, <1>4, FcfsIs

-----------------------------------------------------------------------------
(* The list and the list of its stamps, cut alike, stay aligned.           *)
LEMMA AlignedIs ==
  ASSUME policy = "abort", order \in Seq(Req), NEW w \in Seq(Req), NEW times, TimesFit(times, w),
         NEW gone
  PROVE  TimesFit(Aligned(times, w, gone), Without(w, gone))
<1> DEFINE I == {i \in DOMAIN w : w[i] \notin gone}
           n == Cardinality(I)
           N == Len(order)
<1>1. /\ times \in Seq(1..N) /\ Len(times) = Len(w)
      /\ \A i \in 1..Len(w) : order[times[i]] = w[i]
  BY DEF TimesFit
<1>2. DOMAIN w = 1..Len(w) /\ Len(w) \in Nat /\ DOMAIN times = 1..Len(w)
  BY <1>1, ListIs
<1>3. I \in SUBSET Nat /\ IsFiniteSet(I) /\ I \in SUBSET DOMAIN times /\ I \in SUBSET DOMAIN w
  <2>1. I \in SUBSET Nat /\ I \in SUBSET (1..Len(w))
    BY <1>2
  <2>2. 1 \in Int /\ Len(w) \in Int
    BY <1>2
  <2>3. IsFiniteSet(1..Len(w))
    BY <2>2, FS_Interval
  <2> HIDE DEF I
  <2>4. IsFiniteSet(I)
    BY <2>1, <2>3, FS_Subset
  <2>5. QED
    BY <1>2, <2>1, <2>4
<1>4. Aligned(times, w, gone) = Picked(times, I) /\ Without(w, gone) = Picked(w, I)
  BY DEF Aligned, Without
<1> HIDE DEF I, N
<1>5. n \in Nat /\ \A k \in 1..n : Place(I, k) \in I
  BY <1>3, PlaceIs
<1>6. Picked(times, I) \in Seq(1..N) /\ Len(Picked(times, I)) = n
  BY <1>1, <1>3, PickedIs
<1>7. Picked(w, I) \in Seq(Req) /\ Len(Picked(w, I)) = n
  BY <1>3, PickedIs
<1>8. ASSUME NEW k \in 1..n
      PROVE  order[Picked(times, I)[k]] = Picked(w, I)[k]
  <2>1. Place(I, k) \in I /\ Place(I, k) \in 1..Len(w)
    BY <1>2, <1>3, <1>5
  <2>2. Picked(times, I)[k] = times[Place(I, k)] /\ Picked(w, I)[k] = w[Place(I, k)]
    BY <1>8 DEF Picked, n
  <2>3. QED
    BY <1>1, <2>1, <2>2
<1> HIDE DEF n
<1>9. QED
  BY <1>4, <1>6, <1>7, <1>8 DEF TimesFit, N

LEMMA MixInt == ASSUME NEW n \in Int, NEW m \in Int PROVE Mix(n, m) \in Int
BY DEF Mix

LEMMA AbortIs == ListOK /\ policy = "abort" => GoodBatch(AbortQueue)
<1> SUFFICES ASSUME ListOK, policy = "abort" PROVE GoodBatch(AbortQueue)
  OBVIOUS
<1> DEFINE rate  == Mix(Len(waiting) - last_req_num, apprx_req_rate)
           kept  == Without(waiting, Late)
           times == Aligned(req_time_stamp, waiting, Late)
           reqs  == IF rate >= apprx_bs THEN kept ELSE Reverse(kept)
           s     == Scan(reqs, <<>>, <<>>)
           gone  == IF s.taken = <<>> THEN {} ELSE ToSet(s.seen)
           left  == Without(kept, gone)
           bs    == Mix(Len(s.taken), apprx_bs)
<1> DEFINE bs2   == IF s.taken = <<>> THEN apprx_bs ELSE IF bs > 1 THEN bs ELSE 1
           num   == IF s.taken = <<>> THEN last_req_num ELSE Len(kept) - Len(s.seen)
<1>1. AbortQueue = [taken |-> s.taken, left |-> left, late |-> Late,
                    times |-> Aligned(times, kept, gone), rate |-> rate, bs |-> bs2, num |-> num]
  BY DEF AbortQueue
<1>2. /\ waiting \in Seq(Req) /\ Distinct(waiting) /\ order \in Seq(Req)
      /\ DOMAIN waiting = 1..Len(waiting) /\ Len(waiting) \in Nat
      /\ TimesFit(req_time_stamp, waiting)
      /\ expired \in 0..Len(order) /\ Len(order) \in Nat
      /\ apprx_req_rate \in Int /\ last_req_num \in Int /\ apprx_bs \in Nat \ {0}
  BY ListIs DEF ListOK
<1>3. rate \in Int
  <2>1. Len(waiting) - last_req_num \in Int
    BY <1>2
  <2>2. QED
    BY <1>2, <2>1, MixInt
<1>4. Late \subseteq ToSet(waiting) /\ Late \subseteq {order[i] : i \in 1..expired}
  <2>1. ASSUME NEW j \in 1..Len(waiting), req_time_stamp[j] <= expired
        PROVE  waiting[j] \in ToSet(waiting) /\ waiting[j] \in {order[i] : i \in 1..expired}
    <3>1. req_time_stamp[j] \in 1..Len(order) /\ order[req_time_stamp[j]] = waiting[j]
      BY <1>2 DEF TimesFit
    <3>2. req_time_stamp[j] \in 1..expired
      BY <1>2, <2>1, <3>1
    <3>3. QED
      BY <1>2, <3>1, <3>2 DEF ToSet
  <2>2. QED
    BY <1>2, <2>1 DEF Late
<1>5. kept \in Seq(Req) /\ ToSet(kept) = ToSet(waiting) \ Late /\ Distinct(kept)
  BY <1>2, WithoutIs
<1>6. TimesFit(times, kept)
  BY <1>2, AlignedIs
<1> HIDE DEF kept, times, rate
<1>7. reqs \in Seq(Req) /\ ToSet(reqs) = ToSet(kept)
  BY <1>5, ReverseIs
<1>8. IsScan(s, reqs, <<>>, <<>>)
  BY DEF IsScan
<1> HIDE DEF reqs, s
<1>9. /\ s.seen \in Seq(Req) /\ ToSet(s.seen) \subseteq ToSet(reqs)
      /\ s.taken \in Seq(Req) /\ ToSet(s.taken) = ToSet(s.seen) \ aborted
      /\ Fitting(ToSet(s.taken))
  BY <1>7, <1>8, FirstScanIs
<1>10. ToSet(s.taken) \subseteq gone /\ gone \subseteq ToSet(s.taken) \cup aborted
  <2>1. s.taken = <<>> => ToSet(s.taken) = {}
    BY DEF ToSet
  <2>2. QED
    BY <1>9, <2>1
<1>11. bs2 \in Nat \ {0} /\ num \in Int
  <2>1. /\ Len(s.taken) \in Int /\ Len(kept) \in Int /\ Len(s.seen) \in Int
        /\ apprx_bs \in Int
    BY <1>2, <1>5, <1>9
  <2>2. bs \in Int
    BY <2>1, MixInt
  <2> HIDE DEF bs
  <2>3. QED
    BY <1>2, <2>1, <2>2
<1> HIDE DEF bs2, num, gone
<1>12. left \in Seq(Req) /\ ToSet(left) = ToSet(kept) \ gone /\ Distinct(left)
  BY <1>5, WithoutIs
<1>13. TimesFit(Aligned(times, kept, gone), left)
  BY <1>2, <1>5, <1>6, AlignedIs
<1> HIDE DEF left
<1>14. Parts(s.taken, left, Late)
  BY <1>4, <1>5, <1>7, <1>9, <1>10, <1>12 DEF Parts
<1>15. QED
  BY <1>1, <1>3, <1>4, <1>11, <1>13, <1>14 DEF GoodBatch

-----------------------------------------------------------------------------
(* Latencies: numbers and Inf, which is more than any number.              *)
Costs == Int \cup {Inf}

LEMMA CostsIs ==
  /\ 0 \in Costs
  /\ \A x, y \in Costs : Plus(x, y) \in Costs
  /\ \A x \in Costs : ~Less(x, x)
  /\ \A x, y \in Costs : ~Less(x, y) /\ ~Less(y, x) => x = y
  /\ \A x, y, z \in Costs : ~Less(x, y) /\ ~Less(y, z) => ~Less(x, z)
  /\ \A x, y \in Costs : ~Less(x, y) \/ ~Less(y, x)
  /\ \A x, y, z \in Costs : ~Less(x, y) => ~Less(Plus(x, z), Plus(y, z))
<1>1. Inf \notin Int
  BY TableAssumption
<1>2. /\ 0 \in Costs
      /\ \A x, y \in Costs : Plus(x, y) \in Costs
      /\ \A x \in Costs : ~Less(x, x)
  BY <1>1 DEF Costs, Plus, Less
<1>3. /\ \A x, y \in Costs : ~Less(x, y) /\ ~Less(y, x) => x = y
      /\ \A x, y, z \in Costs : ~Less(x, y) /\ ~Less(y, z) => ~Less(x, z)
      /\ \A x, y \in Costs : ~Less(x, y) \/ ~Less(y, x)
  BY <1>1 DEF Costs, Less
<1>4. ASSUME NEW x \in Costs, NEW y \in Costs, NEW z \in Costs, ~Less(x, y)
      PROVE  ~Less(Plus(x, z), Plus(y, z))
  <2>1. CASE z = Inf
    BY <2>1 DEF Less, Plus
  <2>2. CASE x = Inf
    BY <2>2 DEF Less, Plus
  <2>3. CASE x # Inf /\ z # Inf
    <3>1. x \in Int /\ z \in Int /\ y # Inf /\ y \in Int /\ ~(x < y)
      BY <1>4, <2>3 DEF Less, Costs
    <3>2. Plus(x, z) = x + z /\ Plus(y, z) = y + z
      BY <1>1, <3>1 DEF Plus
    <3>3. y + z # Inf /\ ~(x + z < y + z)
      BY <1>1, <3>1
    <3>4. QED
      BY <3>2, <3>3 DEF Less
  <2>4. QED
    BY <2>1, <2>2, <2>3
<1>5. QED
  BY <1>2, <1>3, <1>4

LEMMA CheapestIs ==
  ASSUME NEW S \in SUBSET Costs, IsFiniteSet(S), S # {}
  PROVE  Cheapest(S) \in S /\ \A y \in S : ~Less(y, Cheapest(S))
<1> DEFINE Best(x, T) == x \in T /\ \A y \in T : ~Less(y, x)
           C == {T \in SUBSET S : T # {} /\ ~\E x \in T : Best(x, T)}
<1>1. C = {}
  <2>1. SUFFICES ASSUME C # {} PROVE FALSE
    OBVIOUS
  <2>2. PICK T \in C : \A x \in T : T \ {x} \notin C
    BY <2>1, SmallestPart
  <2>3. PICK x \in T : TRUE
    OBVIOUS
  <2>4. x \in Costs /\ T \in SUBSET Costs /\ ~Less(x, x)
    BY CostsIs
  <2>5. CASE T \ {x} = {}
    BY <2>4, <2>5
  <2>6. CASE T \ {x} # {}
    <3>1. PICK z \in T \ {x} : \A y \in T \ {x} : ~Less(y, z)
      BY <2>2, <2>6
    <3>2. CASE ~Less(x, z)
      BY <3>1, <3>2
    <3>3. CASE Less(x, z)
      <4>1. ~Less(z, x)
        BY <2>4, <3>1, <3>3, CostsIs
      <4>2. ASSUME NEW y \in T PROVE ~Less(y, x)
        BY <2>4, <3>1, <4>1, CostsIs
      <4>3. QED
        BY <4>2
    <3>4. QED
      BY <3>2, <3>3
  <2>7. QED
    BY <2>5, <2>6
<1>2. \E x \in S : \A y \in S : ~Less(y, x)
  BY <1>1
<1>3. QED
  BY <1>2 DEF Cheapest

-----------------------------------------------------------------------------
(* The dynamic program.  latency has an entry for every group of 1..n.     *)
At(latency, k, j) == latency[k][j]
HasLatencies(n, latency) == \A j \in 1..n : \A k \in 1..j : At(latency, k, j) \in Costs

CostStep(c, latency, j) ==
  IF j = 0 THEN 0 ELSE Cheapest({Plus(c[k - 1], At(latency, k, j)) : k \in 1..j})
IsCost(c, n, latency) == c = [j \in 0..n |-> CostStep(c, latency, j)]

LEMMA CostExists ==
  ASSUME NEW n \in Nat, NEW latency
  PROVE  IsCost(MinCost(n, latency), n, latency)
<1> DEFINE Bad == {m \in 0..n : ~\E c : IsCost(c, m, latency)}
<1>1. Bad = {}
  <2>1. SUFFICES ASSUME Bad # {} PROVE FALSE
    OBVIOUS
  <2>2. Bad \in SUBSET Nat
    OBVIOUS
  <2>3. PICK m \in Bad : \A x \in Bad : m <= x
    <3> HIDE DEF Bad
    <3>1. QED
      BY <2>1, <2>2, LeastNumber
  <2>4. CASE m = 0
    <3> DEFINE c == [j \in 0..0 |-> 0]
    <3>1. c = [j \in 0..0 |-> CostStep(c, latency, j)]
      BY DEF CostStep
    <3> HIDE DEF c
    <3>2. IsCost(c, m, latency)
      BY <2>4, <3>1 DEF IsCost
    <3>3. QED
      BY <3>2
  <2>5. CASE m # 0
    <3>1. m - 1 \in 0..n /\ m - 1 \notin Bad
      BY <2>3, <2>5
    <3>2. PICK c : IsCost(c, m - 1, latency)
      BY <3>1
    <3> DEFINE d == [j \in 0..m |-> IF j = m THEN CostStep(c, latency, m) ELSE c[j]]
    <3>3. \A i \in 0..m - 1 : d[i] = c[i] /\ c[i] = CostStep(c, latency, i)
      BY <3>2 DEF IsCost
    <3>4. d[m] = CostStep(c, latency, m)
      OBVIOUS
    <3>5. \A i \in 0..m : i \in 0..m - 1 \/ i = m
      OBVIOUS
    <3>6. d = [j \in 0..m |-> d[j]]
      OBVIOUS
    <3> HIDE DEF d
    <3>7. ASSUME NEW j \in 0..m PROVE CostStep(d, latency, j) = CostStep(c, latency, j)
      <4>1. \A k \in 1..j : k - 1 \in 0..m - 1 /\ d[k - 1] = c[k - 1]
        BY <3>3
      <4>2. \A k \in 1..j : Plus(d[k - 1], At(latency, k, j)) = Plus(c[k - 1], At(latency, k, j))
        BY <4>1, Zenon
      <4>3. {Plus(d[k - 1], At(latency, k, j)) : k \in 1..j}
              = {Plus(c[k - 1], At(latency, k, j)) : k \in 1..j}
        BY <4>2, Zenon
      <4>4. QED
        BY <4>3, Zenon DEF CostStep
    <3>8. \A j \in 0..m : d[j] = CostStep(d, latency, j)
      BY <3>3, <3>4, <3>5, <3>7
    <3>9. d = [j \in 0..m |-> CostStep(d, latency, j)]
      BY <3>6, <3>8
    <3>10. IsCost(d, m, latency)
      BY <3>9 DEF IsCost
    <3>11. QED
      BY <3>10
  <2>6. QED
    BY <2>4, <2>5
<1>2. \E c : IsCost(c, n, latency)
  <2>1. n \in 0..n
    OBVIOUS
  <2>2. QED
    BY <1>1, <2>1
<1>3. \E c : c = [j \in 0..n |-> IF j = 0 THEN 0
                         ELSE Cheapest({Plus(c[k - 1], At(latency, k, j)) : k \in 1..j})]
  BY <1>2, Zenon DEF IsCost, CostStep
<1> DEFINE cost == MinCost(n, latency)
<1>4. cost = [j \in 0..n |-> IF j = 0 THEN 0
                ELSE Cheapest({Plus(cost[k - 1], At(latency, k, j)) : k \in 1..j})]
  BY <1>3, Zenon DEF MinCost, At
<1> HIDE DEF cost
<1>5. IsCost(cost, n, latency)
  BY <1>4 DEF IsCost, CostStep
<1>6. QED
  BY <1>5 DEF cost

(* The array holds, for every number of items, the cost of the best last   *)
(* group added to the cost of what precedes it.                            *)
LEMMA MinCostIs ==
  ASSUME NEW n \in Nat, NEW latency, HasLatencies(n, latency), NEW c, IsCost(c, n, latency)
  PROVE  /\ \A j \in 0..n : c[j] \in Costs
         /\ c[0] = 0
         /\ \A j \in 1..n : /\ \E k \in 1..j : Plus(c[k - 1], At(latency, k, j)) = c[j]
                            /\ \A k \in 1..j : ~Less(Plus(c[k - 1], At(latency, k, j)), c[j])
<1> DEFINE Sums(j) == {Plus(c[k - 1], At(latency, k, j)) : k \in 1..j}
<1>1. \A j \in 0..n : c[j] = CostStep(c, latency, j)
  BY Zenon DEF IsCost
<1>2. c[0] = 0
  BY <1>1, 0 \in 0..n, Zenon DEF CostStep
<1>3. ASSUME NEW j \in 1..n PROVE c[j] = Cheapest(Sums(j))
  <2>1. j \in 0..n /\ j # 0
    OBVIOUS
  <2>2. QED
    BY <1>1, <2>1, Zenon DEF CostStep
<1>4. ASSUME NEW j \in 1..n, \A i \in 0..j - 1 : c[i] \in Costs
      PROVE  /\ Sums(j) \in SUBSET Costs
             /\ Cheapest(Sums(j)) \in Sums(j)
             /\ \A y \in Sums(j) : ~Less(y, Cheapest(Sums(j)))
  <2>1. ASSUME NEW k \in 1..j PROVE Plus(c[k - 1], At(latency, k, j)) \in Costs
    <3>1. k - 1 \in 0..j - 1
      OBVIOUS
    <3>2. c[k - 1] \in Costs
      BY <1>4, <3>1
    <3>3. At(latency, k, j) \in Costs
      BY Zenon DEF HasLatencies
    <3>4. QED
      BY <3>2, <3>3, CostsIs
  <2>2. Sums(j) \in SUBSET Costs
    BY <2>1, Zenon
  <2> DEFINE f == [k \in 1..j |-> Plus(c[k - 1], At(latency, k, j))]
  <2>3. f \in Surjection(1..j, Sums(j))
    <3>1. \A k \in 1..j : f[k] = Plus(c[k - 1], At(latency, k, j))
      BY Zenon
    <3>2. \A k \in 1..j : f[k] \in Sums(j)
      BY <3>1, Zenon
    <3>3. \A y \in Sums(j) : \E k \in 1..j : f[k] = y
      BY <3>1, Zenon
    <3>4. f = [k \in 1..j |-> f[k]]
      BY Zenon
    <3> HIDE DEF f, Sums
    <3>5. f \in [1..j -> Sums(j)]
      BY <3>2, <3>4
    <3>6. QED
      BY <3>3, <3>5 DEF Surjection
  <2>4. Plus(c[0], At(latency, 1, j)) \in Sums(j)
    <3>1. 1 \in 1..j /\ 1 - 1 = 0
      OBVIOUS
    <3>2. QED
      BY <3>1, Zenon
  <2> HIDE DEF f, Sums
  <2>5. IsFiniteSet(Sums(j))
    <3>1. 1 \in Int /\ j \in Int
      OBVIOUS
    <3>2. IsFiniteSet(1..j)
      BY <3>1, FS_Interval
    <3>3. QED
      BY <2>3, <3>2, FS_Surjection
  <2>6. Sums(j) # {}
    BY <2>4
  <2>7. QED
    BY <2>2, <2>5, <2>6, CheapestIs
<1>5. \A j \in 0..n : c[j] \in Costs
  <2> DEFINE Bad == {j \in 0..n : c[j] \notin Costs}
  <2>1. SUFFICES ASSUME Bad # {} PROVE FALSE
    OBVIOUS
  <2>2. Bad \in SUBSET Nat
    OBVIOUS
  <2>3. PICK j \in Bad : \A i \in Bad : j <= i
    <3> HIDE DEF Bad
    <3>1. QED
      BY <2>1, <2>2, LeastNumber
  <2>4. j # 0
    BY <1>2, <2>3, CostsIs
  <2>5. j \in 1..n /\ \A i \in 0..j - 1 : c[i] \in Costs
    <3>1. j \in 1..n
      BY <2>3, <2>4
    <3>2. ASSUME NEW i \in 0..j - 1 PROVE c[i] \in Costs
      <4>1. i \in 0..n /\ ~(j <= i)
        BY <3>1
      <4>2. QED
        BY <2>3, <4>1
    <3>3. QED
      BY <3>1, <3>2
  <2> HIDE DEF Sums
  <2>6. c[j] \in Costs
    BY <1>3, <1>4, <2>5
  <2>7. QED
    BY <2>3, <2>6
<1>6. ASSUME NEW j \in 1..n
      PROVE  /\ \E k \in 1..j : Plus(c[k - 1], At(latency, k, j)) = c[j]
             /\ \A k \in 1..j : ~Less(Plus(c[k - 1], At(latency, k, j)), c[j])
  <2>1. \A i \in 0..j - 1 : i \in 0..n
    OBVIOUS
  <2>2. \A i \in 0..j - 1 : c[i] \in Costs
    BY <1>5, <2>1
  <2> HIDE DEF Sums
  <2>3. c[j] \in Sums(j) /\ \A y \in Sums(j) : ~Less(y, c[j])
    BY <1>3, <1>4, <2>2
  <2>4. QED
    BY <2>3, Zenon DEF Sums
<1>7. QED
  BY <1>2, <1>5, <1>6

LEMMA FirstOfLastIs ==
  ASSUME NEW n \in Nat, NEW latency, HasLatencies(n, latency), NEW c, IsCost(c, n, latency),
         NEW j \in 1..n
  PROVE  /\ FirstOfLast(j, c, latency) \in 1..j
         /\ Plus(c[FirstOfLast(j, c, latency) - 1], At(latency, FirstOfLast(j, c, latency), j)) = c[j]
<1> DEFINE F == {k \in 1..j : Plus(c[k - 1], At(latency, k, j)) = c[j]}
<1>1. \E k \in 1..j : Plus(c[k - 1], At(latency, k, j)) = c[j]
  BY MinCostIs
<1>2. F # {} /\ F \in SUBSET (1..j)
  BY <1>1, Zenon
<1>3. \A k \in F : k \in 1..j /\ Plus(c[k - 1], At(latency, k, j)) = c[j]
  BY Zenon
<1>4. FirstOfLast(j, c, latency) = Min(F)
  BY Zenon DEF FirstOfLast, At
<1> HIDE DEF F
<1>5. F \in SUBSET Nat
  BY <1>2
<1>6. Min(F) \in F
  BY <1>2, <1>5, MinIs
<1>7. QED
  BY <1>3, <1>4, <1>6, Zenon

(* The groups of the first m items: g covers each of them once.            *)
GroupStep(g, c, latency, j) ==
  IF j = 0 THEN <<>>
  ELSE <<<<FirstOfLast(j, c, latency), j>>>> \o g[FirstOfLast(j, c, latency) - 1]
IsGroups(g, n, c, latency) == g = [j \in 0..n |-> GroupStep(g, c, latency, j)]

LEMMA GroupsExist ==
  ASSUME NEW n \in Nat, NEW latency, HasLatencies(n, latency)
  PROVE  \E g : IsGroups(g, n, MinCost(n, latency), latency) /\ Split(n, latency) = g[n]
<1> DEFINE c == MinCost(n, latency)
           first(j) == FirstOfLast(j, c, latency)
           Bad == {m \in 0..n : ~\E g : IsGroups(g, m, c, latency)}
<1>1. \A j \in 1..n : first(j) \in 1..j
  <2>1. IsCost(c, n, latency)
    BY CostExists
  <2>2. QED
    BY <2>1, FirstOfLastIs
<1>2. Bad = {}
  <2> HIDE DEF c
  <2>1. SUFFICES ASSUME Bad # {} PROVE FALSE
    OBVIOUS
  <2>2. Bad \in SUBSET Nat
    OBVIOUS
  <2>3. PICK m \in Bad : \A x \in Bad : m <= x
    <3> HIDE DEF Bad
    <3>1. QED
      BY <2>1, <2>2, LeastNumber
  <2>4. CASE m = 0
    <3> DEFINE g == [j \in 0..0 |-> <<>>]
    <3>1. \A j \in 0..0 : GroupStep(g, c, latency, j) = <<>>
      BY DEF GroupStep
    <3>2. g = [j \in 0..0 |-> GroupStep(g, c, latency, j)]
      BY <3>1
    <3> HIDE DEF g
    <3>3. IsGroups(g, m, c, latency)
      BY <2>4, <3>2 DEF IsGroups
    <3>4. QED
      BY <3>3
  <2>5. CASE m # 0
    <3>1. m - 1 \in 0..n /\ m - 1 \notin Bad /\ m \in 1..n
      BY <2>3, <2>5
    <3>2. PICK g : IsGroups(g, m - 1, c, latency)
      BY <3>1
    <3> DEFINE d == [j \in 0..m |-> IF j = m THEN GroupStep(g, c, latency, m) ELSE g[j]]
    <3>3. \A i \in 0..m - 1 : d[i] = g[i] /\ g[i] = GroupStep(g, c, latency, i)
      BY <3>2 DEF IsGroups
    <3>4. d[m] = GroupStep(g, c, latency, m)
      OBVIOUS
    <3>5. \A i \in 0..m : i \in 0..m - 1 \/ i = m
      OBVIOUS
    <3>6. d = [j \in 0..m |-> d[j]]
      OBVIOUS
    <3> HIDE DEF d
    <3>7. ASSUME NEW j \in 0..m PROVE GroupStep(d, c, latency, j) = GroupStep(g, c, latency, j)
      <4>1. CASE j = 0
        BY <4>1 DEF GroupStep
      <4>2. CASE j # 0
        <5>1. j \in 1..n
          BY <3>1, <4>2
        <5>2. first(j) \in 1..j
          BY <1>1, <5>1
        <5> HIDE DEF first
        <5>3. first(j) - 1 \in 0..m - 1
          BY <5>2
        <5>4. d[first(j) - 1] = g[first(j) - 1]
          BY <3>3, <5>3
        <5>5. QED
          BY <5>4, Zenon DEF GroupStep, first
      <4>3. QED
        BY <4>1, <4>2
    <3>8. \A j \in 0..m : d[j] = GroupStep(d, c, latency, j)
      BY <3>3, <3>4, <3>5, <3>7
    <3>9. d = [j \in 0..m |-> GroupStep(d, c, latency, j)]
      BY <3>6, <3>8
    <3>10. IsGroups(d, m, c, latency)
      BY <3>9 DEF IsGroups
    <3>11. QED
      BY <3>10
  <2>6. QED
    BY <2>4, <2>5
<1>3. \E g : IsGroups(g, n, c, latency)
  <2>1. n \in 0..n
    OBVIOUS
  <2>2. QED
    BY <1>2, <2>1
<1> DEFINE g == CHOOSE g : g = [j \in 0..n |->
                  IF j = 0 THEN <<>>
                  ELSE <<<<FirstOfLast(j, c, latency), j>>>> \o g[FirstOfLast(j, c, latency) - 1]]
<1>4. Split(n, latency) = g[n]
  BY Zenon DEF Split
<1> HIDE DEF c
<1>5. \E h : h = [j \in 0..n |->
                  IF j = 0 THEN <<>>
                  ELSE <<<<FirstOfLast(j, c, latency), j>>>> \o h[FirstOfLast(j, c, latency) - 1]]
  BY <1>3, Zenon DEF IsGroups, GroupStep
<1>6. g = [j \in 0..n |->
            IF j = 0 THEN <<>>
            ELSE <<<<FirstOfLast(j, c, latency), j>>>> \o g[FirstOfLast(j, c, latency) - 1]]
  BY <1>5, Zenon
<1> HIDE DEF g
<1>7. IsGroups(g, n, c, latency)
  BY <1>6 DEF IsGroups, GroupStep
<1>8. QED
  BY <1>4, <1>7 DEF c

InGroup(x, p) == p[1] <= x /\ x <= p[2]
Covers(g, m) ==
  /\ g \in Seq(Nat \X Nat)
  /\ \A i \in 1..Len(g) : 1 <= g[i][1] /\ g[i][1] <= g[i][2] /\ g[i][2] <= m
  /\ \A x \in 1..m : \E i \in 1..Len(g) : InGroup(x, g[i])
  /\ \A i, l \in 1..Len(g) : \A x \in 1..m : InGroup(x, g[i]) /\ InGroup(x, g[l]) => i = l
EndsOf(g) == {g[i][2] : i \in 1..Len(g)}

LEMMA PrependCovers ==
  ASSUME NEW m \in Nat, NEW k \in 1..m, NEW h, Covers(h, k - 1)
  PROVE  /\ Covers(<<<<k, m>>>> \o h, m)
         /\ EndsOf(<<<<k, m>>>> \o h) = {m} \cup EndsOf(h)
<1> DEFINE p == <<k, m>>
           g == <<p>> \o h
           n == Len(h)
<1>1. p \in Nat \X Nat /\ p[1] = k /\ p[2] = m
  OBVIOUS
<1>2. h \in Seq(Nat \X Nat) /\ n \in Nat
  BY DEF Covers
<1> HIDE DEF p
<1>3. /\ g \in Seq(Nat \X Nat) /\ Len(g) = n + 1 /\ g[1] = p
      /\ \A i \in 2..n + 1 : g[i] = h[i - 1] /\ i - 1 \in 1..n
      /\ \A i \in 1..n : g[i + 1] = h[i] /\ i + 1 \in 2..n + 1
  BY <1>1, <1>2
<1> HIDE DEF g, n
<1>4. \A i \in 1..n + 1 : i = 1 \/ i \in 2..n + 1
  BY <1>2
<1>5. \A i \in 1..n : /\ h[i][1] \in Nat /\ h[i][2] \in Nat
                      /\ 1 <= h[i][1] /\ h[i][1] <= h[i][2] /\ h[i][2] <= k - 1
  <2>1. \A i \in 1..n : h[i] \in Nat \X Nat
    BY <1>2 DEF n
  <2>2. QED
    BY <2>1 DEF Covers, n
<1>6. k \in Nat /\ 1 <= k /\ k <= m
  OBVIOUS
<1>7. ASSUME NEW i \in 1..n + 1
      PROVE  1 <= g[i][1] /\ g[i][1] <= g[i][2] /\ g[i][2] <= m
  <2>1. CASE i = 1
    BY <1>1, <1>3, <1>6, <2>1
  <2>2. CASE i \in 2..n + 1
    <3>1. g[i] = h[i - 1] /\ i - 1 \in 1..n
      BY <1>3, <2>2
    <3>2. QED
      BY <1>5, <1>6, <3>1
  <2>3. QED
    BY <1>4, <2>1, <2>2
<1>8. ASSUME NEW x \in 1..m PROVE \E i \in 1..n + 1 : InGroup(x, g[i])
  <2>1. CASE k <= x
    <3>1. InGroup(x, g[1]) /\ 1 \in 1..n + 1
      BY <1>1, <1>2, <1>3, <2>1 DEF InGroup
    <3>2. QED
      BY <3>1
  <2>2. CASE ~(k <= x)
    <3>1. x \in 1..k - 1
      BY <1>6, <2>2
    <3>2. PICK i \in 1..n : InGroup(x, h[i])
      BY <3>1 DEF Covers, n
    <3>3. i + 1 \in 1..n + 1 /\ g[i + 1] = h[i]
      BY <1>2, <1>3, <3>2
    <3>4. QED
      BY <3>2, <3>3
  <2>3. QED
    BY <2>1, <2>2
<1>9. ASSUME NEW i \in 1..n + 1, NEW x \in 1..m, InGroup(x, g[i])
      PROVE  /\ i = 1 => k <= x
             /\ i # 1 => i - 1 \in 1..n /\ x \in 1..k - 1 /\ InGroup(x, h[i - 1])
  <2>1. CASE i = 1
    BY <1>1, <1>3, <1>9, <2>1 DEF InGroup
  <2>2. CASE i # 1
    <3>1. g[i] = h[i - 1] /\ i - 1 \in 1..n
      BY <1>3, <1>4, <2>2
    <3>2. x <= h[i - 1][2] /\ h[i - 1][2] <= k - 1 /\ h[i - 1][2] \in Nat
      BY <1>5, <1>9, <3>1 DEF InGroup
    <3>3. x \in 1..k - 1
      BY <1>6, <3>2
    <3>4. QED
      BY <1>9, <2>2, <3>1, <3>3
  <2>3. QED
    BY <2>1, <2>2
<1>10. ASSUME NEW i \in 1..n + 1, NEW l \in 1..n + 1, NEW x \in 1..m,
              InGroup(x, g[i]), InGroup(x, g[l])
       PROVE  i = l
  <2>1. CASE i = 1 \/ l = 1
    <3>1. k <= x => ~(x \in 1..k - 1)
      BY <1>6
    <3>2. QED
      BY <1>9, <1>10, <2>1, <3>1
  <2>2. CASE i # 1 /\ l # 1
    <3>1. /\ i - 1 \in 1..n /\ l - 1 \in 1..n /\ x \in 1..k - 1
          /\ InGroup(x, h[i - 1]) /\ InGroup(x, h[l - 1])
      BY <1>9, <1>10, <2>2
    <3>2. i - 1 = l - 1
      BY <3>1 DEF Covers, n
    <3>3. QED
      BY <1>2, <3>2
  <2>3. QED
    BY <2>1, <2>2
<1>11. Covers(g, m)
  BY <1>3, <1>7, <1>8, <1>10 DEF Covers
<1>12. EndsOf(g) = {m} \cup EndsOf(h)
  <2>1. ASSUME NEW i \in 1..n + 1 PROVE g[i][2] \in {m} \cup EndsOf(h)
    BY <1>1, <1>3, <1>4 DEF EndsOf, n
  <2>2. m \in EndsOf(g)
    <3>1. 1 \in 1..Len(g) /\ g[1][2] = m
      BY <1>1, <1>2, <1>3
    <3>2. QED
      BY <3>1 DEF EndsOf
  <2>3. ASSUME NEW i \in 1..n PROVE h[i][2] \in EndsOf(g)
    <3>1. i + 1 \in 1..Len(g)
      BY <1>2, <1>3
    <3>2. g[i + 1] = h[i]
      BY <1>3
    <3>3. QED
      BY <3>1, <3>2 DEF EndsOf
  <2>4. EndsOf(g) \subseteq {m} \cup EndsOf(h)
    <3>1. \A i \in 1..Len(g) : g[i][2] \in {m} \cup EndsOf(h)
      BY <1>3, <2>1
    <3>2. EndsOf(g) = {g[i][2] : i \in 1..Len(g)}
      BY DEF EndsOf
    <3>3. QED
      BY <3>1, <3>2, Zenon
  <2>5. EndsOf(h) \subseteq EndsOf(g)
    BY <2>3 DEF EndsOf, n
  <2>6. QED
    BY <2>2, <2>4, <2>5
<1>13. QED
  BY <1>11, <1>12 DEF g, p

LastGroup(g, c, latency, m) ==
  \E k \in 1..m : /\ Plus(c[k - 1], At(latency, k, m)) = c[m]
                  /\ EndsOf(g[m]) = {m} \cup EndsOf(g[k - 1])

LEMMA GroupsCover ==
  ASSUME NEW n \in Nat, NEW latency, HasLatencies(n, latency), NEW g,
         IsGroups(g, n, MinCost(n, latency), latency), NEW m \in 0..n
  PROVE  /\ Covers(g[m], m)
         /\ m # 0 => LastGroup(g, MinCost(n, latency), latency, m)
<1> DEFINE c == MinCost(n, latency)
           first(j) == FirstOfLast(j, c, latency)
           Bad == {j \in 0..n : ~Covers(g[j], j)}
<1>1. ASSUME NEW j \in 1..n
      PROVE  first(j) \in 1..j /\ Plus(c[first(j) - 1], At(latency, first(j), j)) = c[j]
  <2>1. IsCost(c, n, latency)
    BY CostExists
  <2> HIDE DEF c
  <2>2. QED
    BY <2>1, FirstOfLastIs
<1> HIDE DEF c
<1>2. \A j \in 0..n : g[j] = GroupStep(g, c, latency, j)
  BY DEF IsGroups, c
<1>3. g[0] = <<>>
  BY <1>2, 0 \in 0..n, Zenon DEF GroupStep
<1>4. ASSUME NEW j \in 1..n PROVE g[j] = <<<<first(j), j>>>> \o g[first(j) - 1]
  <2>1. j # 0 /\ j \in 0..n
    OBVIOUS
  <2>2. QED
    BY <1>2, <2>1, Zenon DEF GroupStep
<1> HIDE DEF first
<1>5. Covers(g[0], 0)
  BY <1>3 DEF Covers
<1>6. ASSUME NEW j \in 1..n, Covers(g[first(j) - 1], first(j) - 1)
      PROVE  Covers(g[j], j) /\ EndsOf(g[j]) = {j} \cup EndsOf(g[first(j) - 1])
  <2> DEFINE h == g[first(j) - 1]
             k == first(j)
  <2>1. k \in 1..j /\ Covers(h, k - 1) /\ j \in Nat
    BY <1>1, <1>6
  <2>2. g[j] = <<<<k, j>>>> \o h
    BY <1>4
  <2> HIDE DEF h, k
  <2>3. Covers(<<<<k, j>>>> \o h, j) /\ EndsOf(<<<<k, j>>>> \o h) = {j} \cup EndsOf(h)
    BY <2>1, PrependCovers
  <2>4. QED
    BY <2>2, <2>3, Zenon DEF h
<1>7. Bad = {}
  <2>1. SUFFICES ASSUME Bad # {} PROVE FALSE
    OBVIOUS
  <2>2. Bad \in SUBSET Nat
    OBVIOUS
  <2>3. PICK j \in Bad : \A x \in Bad : j <= x
    <3> HIDE DEF Bad
    <3>1. QED
      BY <2>1, <2>2, LeastNumber
  <2>4. j \in 1..n /\ ~Covers(g[j], j)
    BY <1>5, <2>3
  <2>5. first(j) - 1 \in 0..n /\ ~(j <= first(j) - 1)
    BY <1>1, <2>4
  <2>6. Covers(g[first(j) - 1], first(j) - 1)
    BY <2>3, <2>5
  <2>7. QED
    BY <1>6, <2>4, <2>6
<1>8. Covers(g[m], m)
  BY <1>7
<1>9. ASSUME m # 0
      PROVE  /\ first(m) \in 1..m
             /\ Plus(c[first(m) - 1], At(latency, first(m), m)) = c[m]
             /\ EndsOf(g[m]) = {m} \cup EndsOf(g[first(m) - 1])
  <2>1. m \in 1..n
    BY <1>9
  <2>2. first(m) \in 1..m /\ Plus(c[first(m) - 1], At(latency, first(m), m)) = c[m]
    BY <1>1, <2>1
  <2>3. first(m) - 1 \in 0..n
    BY <2>1, <2>2
  <2>4. Covers(g[first(m) - 1], first(m) - 1)
    BY <1>7, <2>3
  <2>5. QED
    BY <1>6, <2>1, <2>2, <2>4
<1>10. m # 0 => LastGroup(g, c, latency, m)
  BY <1>9, Zenon DEF LastGroup
<1>11. QED
  BY <1>8, <1>10 DEF c

-----------------------------------------------------------------------------
(* Sorting is a permutation: the ranks of the elements are 1..n.           *)
LEMMA SortIs ==
  ASSUME NEW S, NEW s \in Seq(S), NEW key, \A i \in DOMAIN s : key[i] \in Int
  PROVE  /\ StableSort(s, key) \in Seq(S) /\ Len(StableSort(s, key)) = Len(s)
         /\ ToSet(StableSort(s, key)) = ToSet(s)
         /\ Distinct(s) => Distinct(StableSort(s, key))
<1> DEFINE I == DOMAIN s
           upTo(i) == {j \in I : key[j] < key[i] \/ (key[j] = key[i] /\ j <= i)}
           rank(i) == Cardinality(upTo(i))
           at(k) == CHOOSE i \in I : rank(i) = k
           t == StableSort(s, key)
           n == Len(s)
<1>1. I = 1..n /\ n \in Nat /\ s \in [I -> S] /\ ToSet(s) = {s[i] : i \in I}
  BY ListIs DEF ToSet
<1>2. t = [k \in I |-> s[at(k)]]
  BY DEF StableSort
<1> HIDE DEF t, n, I
<1>3. IsFiniteSet(I) /\ Cardinality(I) = n
  <2>1. 1 \in Int /\ n \in Int
    BY <1>1
  <2>2. IsFiniteSet(1..n) /\ Cardinality(1..n) = IF 1 > n THEN 0 ELSE n - 1 + 1
    BY <2>1, FS_Interval
  <2>3. QED
    BY <1>1, <2>2
<1>4. ASSUME NEW i \in I
      PROVE  /\ upTo(i) \in SUBSET I /\ i \in upTo(i)
             /\ IsFiniteSet(upTo(i)) /\ rank(i) \in 1..n
  <2>1. upTo(i) \in SUBSET I /\ i \in upTo(i)
    BY <1>1 DEF I
  <2> HIDE DEF upTo
  <2>2. IsFiniteSet(upTo(i)) /\ Cardinality(upTo(i)) <= n
    BY <1>3, <2>1, FS_Subset
  <2>3. Cardinality(upTo(i)) \in Nat /\ Cardinality(upTo(i)) # 0
    BY <2>1, <2>2, FS_CardinalityType, FS_EmptySet
  <2>4. QED
    BY <1>1, <2>1, <2>2, <2>3
<1>5. ASSUME NEW i \in I, NEW j \in upTo(i), j # i
      PROVE  rank(j) < rank(i)
  <2>1. /\ j \in I /\ key[i] \in Int /\ key[j] \in Int /\ i \in Nat /\ j \in Nat
        /\ key[j] < key[i] \/ (key[j] = key[i] /\ j <= i)
    BY <1>1 DEF I
  <2>2. i \notin upTo(j)
    BY <1>5, <2>1
  <2>3. upTo(j) \subseteq upTo(i)
    <3>1. ASSUME NEW k \in I, key[k] < key[j] \/ (key[k] = key[j] /\ k <= j)
          PROVE  key[k] < key[i] \/ (key[k] = key[i] /\ k <= i)
      <4>1. key[k] \in Int /\ k \in Nat
        BY <1>1 DEF I
      <4>2. QED
        BY <2>1, <3>1, <4>1
    <3>2. QED
      BY <3>1
  <2>4. /\ IsFiniteSet(upTo(i)) /\ i \in upTo(i) /\ rank(i) \in 1..n /\ rank(j) \in 1..n
    BY <1>4, <2>1
  <2> HIDE DEF upTo
  <2>5. upTo(j) \in SUBSET upTo(i) /\ upTo(j) # upTo(i)
    BY <2>2, <2>3, <2>4
  <2>6. Cardinality(upTo(j)) <= Cardinality(upTo(i)) /\ Cardinality(upTo(j)) # Cardinality(upTo(i))
    BY <2>4, <2>5, FS_Subset
  <2>7. QED
    BY <1>1, <2>4, <2>6
<1>6. ASSUME NEW i \in I, NEW j \in I, rank(i) = rank(j)
      PROVE  i = j
  <2>1. j \in upTo(i) \/ i \in upTo(j)
    <3>1. key[i] \in Int /\ key[j] \in Int /\ i \in Nat /\ j \in Nat
      BY <1>1 DEF I
    <3>2. QED
      BY <3>1
  <2>2. rank(i) \in 1..n /\ rank(j) \in 1..n
    BY <1>4
  <2> HIDE DEF upTo, rank
  <2>3. QED
    BY <1>1, <1>5, <1>6, <2>1, <2>2
<1> HIDE DEF upTo, rank
<1>7. \A k \in I : \E i \in I : rank(i) = k
  <2> DEFINE rk == [i \in I |-> rank(i)]
  <2>1. rk \in [I -> I]
    BY <1>1, <1>4
  <2>2. \A i, j \in I : rk[i] = rk[j] => i = j
    BY <1>6
  <2>3. \A i \in I : rk[i] = rank(i)
    OBVIOUS
  <2> HIDE DEF rk
  <2>4. rk \in Injection(I, I)
    BY <2>1, <2>2 DEF Injection, IsInjective
  <2>5. rk \in Surjection(I, I)
    BY <1>3, <2>4, FS_Injection
  <2>6. QED
    BY <2>3, <2>5 DEF Surjection
<1>8. \A k \in I : at(k) \in I /\ rank(at(k)) = k
  BY <1>7
<1>9. ASSUME NEW i \in I PROVE rank(i) \in I /\ at(rank(i)) = i
  <2>1. rank(i) \in I
    BY <1>1, <1>4
  <2>2. at(rank(i)) \in I /\ rank(at(rank(i))) = rank(i)
    BY <1>8, <2>1
  <2> HIDE DEF at
  <2>3. QED
    BY <1>6, <2>1, <2>2
<1> HIDE DEF at
<1>10. t \in [1..n -> S]
  BY <1>1, <1>2, <1>8
<1>11. t \in Seq(S) /\ Len(t) = n
  BY <1>1, <1>10, MakesList
<1>12. ToSet(t) = ToSet(s)
  <2>1. ToSet(t) = {s[at(k)] : k \in I}
    BY <1>2 DEF ToSet
  <2>2. QED
    BY <1>1, <1>8, <1>9, <2>1
<1>13. ASSUME Distinct(s) PROVE Distinct(t)
  <2>1. ASSUME NEW k \in I, NEW l \in I, s[at(k)] = s[at(l)] PROVE k = l
    <3>1. at(k) = at(l)
      BY <1>8, <1>13, <2>1 DEF Distinct, I
    <3>2. QED
      BY <1>8, <3>1
  <2>2. DOMAIN t = I /\ \A k \in I : t[k] = s[at(k)]
    BY <1>2
  <2>3. QED
    BY <2>1, <2>2 DEF Distinct
<1>14. QED
  BY <1>11, <1>12, <1>13 DEF t, n

-----------------------------------------------------------------------------
(* The lists of a list, joined.                                            *)
FlatStep(f, seqs, i) == IF i = 1 THEN seqs[i] ELSE f[i - 1] \o seqs[i]
IsFlat(f, seqs, n) == f = [i \in 1..n |-> FlatStep(f, seqs, i)]
Apart(seqs) ==
  /\ \A i \in DOMAIN seqs : Distinct(seqs[i])
  /\ \A i, j \in DOMAIN seqs : i # j => ToSet(seqs[i]) \cap ToSet(seqs[j]) = {}

LEMMA FlatExists ==
  ASSUME NEW seqs, NEW n \in Nat
  PROVE  \E f : IsFlat(f, seqs, n)
<1> DEFINE Bad == {m \in 0..n : ~\E f : IsFlat(f, seqs, m)}
<1>1. SUFFICES ASSUME Bad # {} PROVE FALSE
  OBVIOUS
<1>2. Bad \in SUBSET Nat
  OBVIOUS
<1>3. PICK m \in Bad : \A x \in Bad : m <= x
  <2> HIDE DEF Bad
  <2>1. QED
    BY <1>1, <1>2, LeastNumber
<1>4. CASE m = 0
  <2> DEFINE f == [i \in 1..0 |-> 0]
  <2>1. f = [i \in 1..0 |-> FlatStep(f, seqs, i)]
    OBVIOUS
  <2> HIDE DEF f
  <2>2. IsFlat(f, seqs, m)
    BY <1>4, <2>1 DEF IsFlat
  <2>3. QED
    BY <2>2
<1>5. CASE m # 0
  <2>1. m - 1 \in 0..n /\ m - 1 \notin Bad
    BY <1>3, <1>5
  <2>2. PICK f : IsFlat(f, seqs, m - 1)
    BY <2>1
  <2> DEFINE d == [i \in 1..m |-> IF i = m THEN FlatStep(f, seqs, m) ELSE f[i]]
  <2>3. \A i \in 1..m - 1 : d[i] = f[i] /\ f[i] = FlatStep(f, seqs, i)
    BY <2>2 DEF IsFlat
  <2>4. d[m] = FlatStep(f, seqs, m)
    BY <1>5
  <2>5. \A i \in 1..m : i \in 1..m - 1 \/ i = m
    OBVIOUS
  <2>6. d = [i \in 1..m |-> d[i]]
    OBVIOUS
  <2> HIDE DEF d
  <2>7. ASSUME NEW i \in 1..m PROVE FlatStep(d, seqs, i) = FlatStep(f, seqs, i)
    <3>1. CASE i = 1
      BY <3>1 DEF FlatStep
    <3>2. CASE i # 1
      <4>1. d[i - 1] = f[i - 1]
        BY <2>3, <3>2
      <4>2. QED
        BY <4>1, Zenon DEF FlatStep
    <3>3. QED
      BY <3>1, <3>2
  <2>8. \A i \in 1..m : d[i] = FlatStep(d, seqs, i)
    BY <2>3, <2>4, <2>5, <2>7
  <2>9. d = [i \in 1..m |-> FlatStep(d, seqs, i)]
    BY <2>6, <2>8
  <2>10. IsFlat(d, seqs, m)
    BY <2>9 DEF IsFlat
  <2>11. QED
    BY <2>10
<1>6. QED
  BY <1>4, <1>5

LEMMA FlattenIs ==
  ASSUME NEW S, NEW seqs \in Seq(Seq(S))
  PROVE  /\ FlattenSeq(seqs) \in Seq(S)
         /\ ToSet(FlattenSeq(seqs)) = UNION {ToSet(seqs[i]) : i \in DOMAIN seqs}
         /\ Apart(seqs) => Distinct(FlattenSeq(seqs))
<1> DEFINE n == Len(seqs)
           All(i) == UNION {ToSet(seqs[l]) : l \in 1..i}
           Good(u, i) == /\ u \in Seq(S) /\ ToSet(u) = All(i)
                         /\ Apart(seqs) => Distinct(u)
<1>1. DOMAIN seqs = 1..n /\ n \in Nat /\ \A i \in 1..n : seqs[i] \in Seq(S)
  BY ListIs
<1>2. CASE n = 0
  <2>1. FlattenSeq(seqs) = seqs /\ DOMAIN seqs = {}
    BY <1>1, <1>2 DEF FlattenSeq
  <2>2. seqs \in Seq(S)
    BY <1>2
  <2>3. QED
    BY <2>1, <2>2 DEF ToSet, Distinct
<1>3. CASE n # 0
  <2> DEFINE f == CHOOSE f : f = [i \in 1..n |-> IF i = 1 THEN seqs[i] ELSE f[i - 1] \o seqs[i]]
  <2>1. FlattenSeq(seqs) = f[n]
    BY <1>3, Zenon DEF FlattenSeq
  <2>2. \E g : g = [i \in 1..n |-> IF i = 1 THEN seqs[i] ELSE g[i - 1] \o seqs[i]]
    <3>1. \E g : IsFlat(g, seqs, n)
      BY <1>1, FlatExists
    <3>2. QED
      BY <3>1, Zenon DEF IsFlat, FlatStep
  <2>3. f = [i \in 1..n |-> IF i = 1 THEN seqs[i] ELSE f[i - 1] \o seqs[i]]
    BY <2>2, Zenon
  <2> HIDE DEF f
  <2>4. \A i \in 1..n : f[i] = IF i = 1 THEN seqs[i] ELSE f[i - 1] \o seqs[i]
    BY <2>3, Zenon
  <2> HIDE DEF n
  <2> DEFINE Bad == {i \in 1..n : ~Good(f[i], i)}
  <2>5. Good(seqs[1], 1)
    <3>1. 1 \in 1..n /\ All(1) = ToSet(seqs[1])
      BY <1>1, <1>3
    <3>2. QED
      BY <1>1, <3>1 DEF Apart
  <2>6. ASSUME NEW i \in 2..n, NEW u, Good(u, i - 1)
        PROVE  Good(u \o seqs[i], i)
    <3>1. i \in 1..n /\ u \in Seq(S) /\ seqs[i] \in Seq(S) /\ ToSet(u) = All(i - 1)
      BY <1>1, <2>6
    <3>2. All(i) = All(i - 1) \cup ToSet(seqs[i])
      <4>1. \A l \in 1..i : l \in 1..i - 1 \/ l = i
        OBVIOUS
      <4>2. (\A l \in 1..i - 1 : l \in 1..i) /\ i \in 1..i
        OBVIOUS
      <4>3. QED
        BY <4>1, <4>2
    <3>3. ASSUME Apart(seqs) PROVE ToSet(u) \cap ToSet(seqs[i]) = {} /\ Distinct(u) /\ Distinct(seqs[i])
      <4>1. \A l \in 1..i - 1 : l \in DOMAIN seqs /\ i \in DOMAIN seqs /\ l # i
        BY <1>1
      <4>2. \A l \in 1..i - 1 : ToSet(seqs[l]) \cap ToSet(seqs[i]) = {}
        BY <3>3, <4>1 DEF Apart
      <4>3. QED
        BY <1>1, <2>6, <3>1, <3>3, <4>2 DEF Apart
    <3>4. /\ u \o seqs[i] \in Seq(S)
          /\ ToSet(u \o seqs[i]) = ToSet(u) \cup ToSet(seqs[i])
          /\ Distinct(u) /\ Distinct(seqs[i]) /\ ToSet(u) \cap ToSet(seqs[i]) = {}
               => Distinct(u \o seqs[i])
      BY <3>1, JoinIs
    <3> HIDE DEF All
    <3>5. QED
      BY <3>1, <3>2, <3>3, <3>4
  <2> HIDE DEF Good
  <2>7. Bad = {}
    <3>1. SUFFICES ASSUME Bad # {} PROVE FALSE
      OBVIOUS
    <3>2. Bad \in SUBSET Nat
      OBVIOUS
    <3>3. PICK i \in Bad : \A x \in Bad : i <= x
      <4> HIDE DEF Bad
      <4>1. QED
        BY <3>1, <3>2, LeastNumber
    <3>4. i # 1
      BY <1>1, <1>3, <2>4, <2>5, <3>3
    <3>5. i \in 2..n /\ i - 1 \in 1..n /\ ~(i <= i - 1)
      BY <1>1, <3>3, <3>4
    <3>6. Good(f[i - 1], i - 1)
      BY <3>3, <3>5
    <3>7. f[i] = f[i - 1] \o seqs[i]
      BY <2>4, <3>3, <3>4
    <3>8. Good(f[i], i)
      BY <2>6, <3>5, <3>6, <3>7
    <3>9. QED
      BY <3>3, <3>8
  <2>8. Good(f[n], n)
    <3>1. n \in 1..n
      BY <1>1, <1>3
    <3>2. QED
      BY <2>7, <3>1
  <2>9. QED
    BY <1>1, <2>1, <2>8 DEF Good
<1>4. QED
  BY <1>2, <1>3

-----------------------------------------------------------------------------
(* The latencies that PETS looks up are costs.                             *)
LEMMA LookedIs ==
  ASSUME NEW n, NEW table, DOMAIN table \subseteq Nat, \A k \in DOMAIN table : table[k] \in Int
  PROVE  Looked(n, table) \in Costs
<1>1. CASE n \in DOMAIN table
  BY <1>1 DEF Looked, Costs
<1>2. CASE n \notin DOMAIN table /\ n = 1 /\ 2 \in DOMAIN table
  BY <1>2 DEF Looked, Costs
<1>3. CASE n \notin DOMAIN table /\ ~(n = 1 /\ 2 \in DOMAIN table)
  <2>1. CASE {n - 1, n + 1} \subseteq DOMAIN table
    <3> DEFINE a == table[n - 1]
               b == table[n + 1]
    <3>1. a \in Int /\ b \in Int
      BY <2>1
    <3>2. a + b \in Costs /\ Inf \in Costs
      BY <3>1 DEF Costs
    <3> HIDE DEF a, b
    <3>3. Looked(n, table) \in {a + b, Inf}
      BY <1>3, Zenon DEF Looked, a, b
    <3>4. QED
      BY <3>2, <3>3
  <2>2. CASE ~({n - 1, n + 1} \subseteq DOMAIN table)
    BY <1>3, <2>2, Zenon DEF Looked, Costs
  <2>3. QED
    BY <2>1, <2>2
<1>4. QED
  BY <1>1, <1>2, <1>3

LEMMA BetaIs ==
  ASSUME NEW c \in Client, NEW r \in Req, NEW n
  PROVE  BetaLatency(lora_rank[c], n, input_len[r]) \in Costs
<1> DEFINE rank == lora_rank[c]
           len == PadTo(input_len[r])
           table == [k \in DOMAIN base_prefill |-> adapter_prefill[rank][k][len] - base_prefill[k][len]]
<1>1. CASE rank = 0
  BY <1>1, CostsIs DEF BetaLatency
<1>2. CASE rank # 0
  <2>1. \A k \in DOMAIN base_prefill : /\ base_prefill[k][len] \in Int
                                       /\ adapter_prefill[rank][k][len] \in Int
    BY <1>2, TableAssumption
  <2>2. BetaLatency(rank, n, input_len[r]) = Looked(n, table)
    BY <1>2 DEF BetaLatency
  <2> HIDE DEF rank, len
  <2>3. \A k \in DOMAIN base_prefill : table[k] \in Int
    BY <2>1
  <2>4. DOMAIN table = DOMAIN base_prefill
    OBVIOUS
  <2>5. DOMAIN base_prefill \subseteq Nat
    BY TableAssumption
  <2> HIDE DEF table
  <2>6. DOMAIN table \subseteq Nat /\ \A k \in DOMAIN table : table[k] \in Int
    BY <2>3, <2>4, <2>5
  <2>7. Looked(n, table) \in Costs
    BY <2>6, LookedIs
  <2>8. QED
    BY <2>2, <2>7 DEF rank
<1>3. QED
  BY <1>1, <1>2

LEMMA AlphaIs ==
  ASSUME NEW r \in Req, NEW n
  PROVE  AlphaLatency(n, input_len[r]) \in Costs
<1> DEFINE len == PadTo(input_len[r])
           table == [k \in DOMAIN base_prefill |-> base_prefill[k][len]]
<1>1. \A k \in DOMAIN base_prefill : base_prefill[k][len] \in Int
  BY TableAssumption
<1>2. AlphaLatency(n, input_len[r]) = Looked(n, table)
  BY DEF AlphaLatency
<1> HIDE DEF len
<1>3. \A k \in DOMAIN base_prefill : table[k] \in Int
  BY <1>1
<1>4. DOMAIN table = DOMAIN base_prefill /\ DOMAIN base_prefill \subseteq Nat
  BY TableAssumption
<1> HIDE DEF table
<1>5. DOMAIN table \subseteq Nat /\ \A k \in DOMAIN table : table[k] \in Int
  BY <1>3, <1>4
<1>6. QED
  BY <1>2, <1>5, LookedIs

(* The queries of an adapter.                                              *)
LEMMA QueriesIs ==
  ASSUME NEW reqs \in Seq(Req), NEW c
  PROVE  /\ Queries(reqs, c) \in Seq(Req)
         /\ ToSet(Queries(reqs, c)) = {r \in ToSet(reqs) : adapter_dir[r] = c}
         /\ Distinct(reqs) => Distinct(Queries(reqs, c))
<1> DEFINE of == OfAdapters(reqs, {c})
           key == [i \in DOMAIN of |-> input_len[of[i]]]
<1>1. /\ of \in Seq(Req)
      /\ ToSet(of) = {r \in ToSet(reqs) : adapter_dir[r] \in {c}}
      /\ Distinct(reqs) => Distinct(of)
  BY OfAdaptersIs
<1>2. Queries(reqs, c) = StableSort(of, key)
  BY DEF Queries
<1> HIDE DEF of
<1>3. \A i \in DOMAIN of : key[i] \in Int
  BY <1>1, RequestAssumption
<1> HIDE DEF key
<1>4. /\ StableSort(of, key) \in Seq(Req)
      /\ ToSet(StableSort(of, key)) = ToSet(of)
      /\ Distinct(of) => Distinct(StableSort(of, key))
  BY <1>1, <1>3, SortIs
<1>5. QED
  BY <1>1, <1>2, <1>4

LEMMA QueryCosts ==
  ASSUME NEW q \in Seq(Req), NEW c \in Client
  PROVE  /\ HasLatencies(Len(q), QueryLatency(q, c))
         /\ \A k, j \in 1..Len(q) : At(QueryLatency(q, c), k, j)
                                      = BetaLatency(lora_rank[c], j - k + 1, input_len[q[j]])
<1>1. DOMAIN q = 1..Len(q) /\ Len(q) \in Nat /\ \A j \in 1..Len(q) : q[j] \in Req
  BY ListIs
<1>2. \A k, j \in 1..Len(q) : At(QueryLatency(q, c), k, j)
                                = BetaLatency(lora_rank[c], j - k + 1, input_len[q[j]])
  BY <1>1, Zenon DEF At, QueryLatency
<1>3. ASSUME NEW j \in 1..Len(q), NEW k \in 1..j PROVE At(QueryLatency(q, c), k, j) \in Costs
  <2>1. k \in 1..Len(q)
    BY <1>1
  <2>2. At(QueryLatency(q, c), k, j) = BetaLatency(lora_rank[c], j - k + 1, input_len[q[j]])
    BY <1>2, <2>1
  <2>3. BetaLatency(lora_rank[c], j - k + 1, input_len[q[j]]) \in Costs
    BY <1>1, BetaIs
  <2>4. QED
    BY <2>2, <2>3
<1>4. QED
  BY <1>2, <1>3 DEF HasLatencies

(* The split of n > 0 items covers them.                                   *)
LEMMA SplitIs ==
  ASSUME NEW n \in Nat, NEW latency, HasLatencies(n, latency)
  PROVE  /\ Covers(Split(n, latency), n)
         /\ n # 0 => Len(Split(n, latency)) \in Nat \ {0}
<1>1. PICK g : IsGroups(g, n, MinCost(n, latency), latency) /\ Split(n, latency) = g[n]
  BY GroupsExist
<1>2. Covers(Split(n, latency), n)
  <2>1. n \in 0..n
    OBVIOUS
  <2>2. QED
    BY <1>1, <2>1, GroupsCover
<1> DEFINE s == Split(n, latency)
<1>3. Covers(s, n)
  BY <1>2
<1> HIDE DEF s
<1>4. n # 0 => Len(s) \in Nat \ {0}
  <2>1. Len(s) \in Nat
    BY <1>3 DEF Covers
  <2>2. n # 0 => \E i \in 1..Len(s) : InGroup(n, s[i])
    BY <1>3 DEF Covers
  <2>3. QED
    BY <2>1, <2>2
<1>5. QED
  BY <1>2, <1>4 DEF s

-----------------------------------------------------------------------------
(* The groups of a list, cut where g says: no group is empty, and each     *)
(* item is in one of them.                                                 *)
IsPart(m, S) == m \in Seq(S) /\ Len(m) \in Nat \ {0} /\ Last(m) \in ToSet(m)

CutGood(q, g, S) ==
  /\ Cut(q, g) \in Seq(Seq(S))
  /\ DOMAIN Cut(q, g) = 1..Len(g)
  /\ \A i \in 1..Len(g) : /\ IsPart(Cut(q, g)[i], S)
                          /\ Last(Cut(q, g)[i]) = q[g[i][2]]
                          /\ g[i][2] \in 1..Len(q)
  /\ \A r : r \in ToSet(q) <=> \E i \in 1..Len(g) : r \in ToSet(Cut(q, g)[i])
  /\ \A i, j \in 1..Len(g) :
       \A r : r \in ToSet(Cut(q, g)[i]) /\ r \in ToSet(Cut(q, g)[j]) => i = j

LEMMA CutIs ==
  ASSUME NEW S, NEW q \in Seq(S), Distinct(q), NEW g, Covers(g, Len(q))
  PROVE  CutGood(q, g, S)
<1> DEFINE n == Len(q)
           M == Cut(q, g)
           N == Len(g)
<1>1. q \in Seq(S) /\ Distinct(q)
  OBVIOUS
<1>2. n \in Nat /\ DOMAIN q = 1..n /\ ToSet(q) = {q[x] : x \in 1..n}
  BY <1>1, ListIs DEF ToSet
<1>3. Covers(g, n)
  OBVIOUS
<1>4. M = [i \in DOMAIN g |-> SubSeq(q, g[i][1], g[i][2])]
  BY DEF Cut
<1> HIDE DEF n, M, N
<1>5. /\ g \in Seq(Nat \X Nat) /\ DOMAIN g = 1..N /\ N \in Nat
      /\ \A i \in 1..N : g[i] \in Nat \X Nat
  BY <1>3 DEF Covers, N
<1>6. ASSUME NEW i \in 1..N
      PROVE  /\ g[i][1] \in Nat \ {0} /\ g[i][2] \in 0..n /\ g[i][1] <= g[i][2]
             /\ g[i][2] \in 1..n /\ g[i][2] \in g[i][1]..g[i][2]
             /\ \A x \in g[i][1]..g[i][2] : x \in 1..n
  <2>1. g[i][1] \in Nat /\ g[i][2] \in Nat
    BY <1>5
  <2>2. 1 <= g[i][1] /\ g[i][1] <= g[i][2] /\ g[i][2] <= n
    BY <1>3 DEF Covers, N
  <2>3. QED
    BY <1>2, <2>1, <2>2
<1>7. ASSUME NEW i \in 1..N
      PROVE  /\ M[i] = SubSeq(q, g[i][1], g[i][2])
             /\ M[i] \in Seq(S)
             /\ \A r : r \in ToSet(M[i]) <=> \E x \in g[i][1]..g[i][2] : q[x] = r
             /\ Len(M[i]) \in Nat \ {0} /\ Last(M[i]) = q[g[i][2]]
             /\ q[g[i][2]] \in ToSet(M[i])
  <2> DEFINE a == g[i][1]
             b == g[i][2]
  <2>1. /\ a \in Nat \ {0} /\ b \in 0..n /\ a <= b /\ b \in a..b
    BY <1>6
  <2>2. M[i] = SubSeq(q, a, b)
    BY <1>4, <1>5
  <2> HIDE DEF a, b
  <2>3. SubSeq(q, a, b) \in Seq(S) /\ ToSet(SubSeq(q, a, b)) = {q[x] : x \in a..b}
    BY <1>1, <2>1, SliceIs DEF n
  <2>4. Len(SubSeq(q, a, b)) = b - a + 1 /\ SubSeq(q, a, b)[b - a + 1] = q[b]
    BY <1>1, <1>2, <2>1 DEF n
  <2>5. b - a + 1 \in Nat \ {0}
    BY <2>1
  <2>6. Last(SubSeq(q, a, b)) = q[b]
    BY <2>4 DEF Last
  <2>7. q[b] \in {q[x] : x \in a..b}
    BY <2>1
  <2> HIDE DEF M
  <2>8. /\ M[i] = SubSeq(q, a, b) /\ M[i] \in Seq(S)
        /\ \A r : r \in ToSet(M[i]) <=> \E x \in a..b : q[x] = r
        /\ Len(M[i]) \in Nat \ {0} /\ Last(M[i]) = q[b] /\ q[b] \in ToSet(M[i])
    BY <2>2, <2>3, <2>4, <2>5, <2>6, <2>7
  <2>9. QED
    BY <2>8 DEF a, b
<1>8. M \in Seq(Seq(S)) /\ DOMAIN M = 1..N
  <2>1. M \in [1..N -> Seq(S)]
    BY <1>4, <1>5, <1>7
  <2>2. QED
    BY <1>5, <2>1, MakesList
<1>9. \A i \in 1..N : IsPart(M[i], S) /\ Last(M[i]) = q[g[i][2]] /\ g[i][2] \in 1..n
  BY <1>6, <1>7 DEF IsPart
<1>10. ASSUME NEW i \in 1..N, NEW x \in 1..n
       PROVE  q[x] \in ToSet(M[i]) <=> InGroup(x, g[i])
  <2>1. g[i][1] \in Nat /\ g[i][2] \in Nat
    BY <1>5
  <2>2. InGroup(x, g[i]) => q[x] \in ToSet(M[i])
    <3>1. InGroup(x, g[i]) => x \in g[i][1]..g[i][2]
      BY <1>2, <2>1 DEF InGroup
    <3>2. QED
      BY <1>7, <3>1
  <2>3. ASSUME NEW y \in g[i][1]..g[i][2], q[x] = q[y] PROVE InGroup(x, g[i])
    <3>1. y \in 1..n
      BY <1>6
    <3>2. x = y
      BY <1>1, <1>2, <2>3, <3>1 DEF Distinct
    <3>3. QED
      BY <2>1, <3>2 DEF InGroup
  <2>4. ASSUME q[x] \in ToSet(M[i]) PROVE InGroup(x, g[i])
    <3>1. PICK y \in g[i][1]..g[i][2] : q[y] = q[x]
      BY <1>7, <2>4
    <3>2. QED
      BY <2>3, <3>1
  <2>5. QED
    BY <2>2, <2>4
<1>11. \A r : r \in ToSet(q) <=> \E i \in 1..N : r \in ToSet(M[i])
  <2>1. ASSUME NEW x \in 1..n PROVE \E i \in 1..N : q[x] \in ToSet(M[i])
    <3>1. PICK i \in 1..N : InGroup(x, g[i])
      BY <1>3 DEF Covers, N
    <3>2. QED
      BY <1>10, <3>1
  <2>2. ASSUME NEW i \in 1..N, NEW r \in ToSet(M[i]) PROVE r \in ToSet(q)
    <3>1. PICK x \in g[i][1]..g[i][2] : q[x] = r
      BY <1>7, <2>2
    <3>2. QED
      BY <1>2, <1>6, <3>1
  <2>3. QED
    BY <1>2, <2>1, <2>2
<1>12. ASSUME NEW i \in 1..N, NEW j \in 1..N, NEW r, r \in ToSet(M[i]), r \in ToSet(M[j])
       PROVE  i = j
  <2>1. PICK x \in 1..n : q[x] = r
    <3>1. PICK x \in g[i][1]..g[i][2] : q[x] = r
      BY <1>7, <1>12
    <3>2. QED
      BY <1>6, <3>1
  <2>2. InGroup(x, g[i]) /\ InGroup(x, g[j])
    BY <1>10, <1>12, <2>1
  <2>3. QED
    BY <1>3, <2>2 DEF Covers, N
<1>13. QED
  BY <1>3, <1>8, <1>9, <1>11, <1>12 DEF M, N, n, CutGood

(* The mini batches of an adapter: the groups of its queries.              *)
MinisOf(reqs, c) ==
  LET q == Queries(reqs, c) IN Cut(q, Split(Len(q), QueryLatency(q, c)))

MiniGroups(q, g, reqs, c) ==
  q = Queries(reqs, c) /\ g = Split(Len(q), QueryLatency(q, c))

IsMini(m) == IsPart(m, Req)

(* They are not empty, hold the adapter's requests, and each of these once.*)
MinisGood(q, g, reqs, c) ==
  /\ MinisOf(reqs, c) \in Seq(Seq(Req))
  /\ DOMAIN MinisOf(reqs, c) = 1..Len(g)
  /\ Covers(g, Len(q))
  /\ \A i \in 1..Len(g) : /\ IsMini(MinisOf(reqs, c)[i])
                          /\ Last(MinisOf(reqs, c)[i]) = q[g[i][2]]
                          /\ g[i][2] \in 1..Len(q)
  /\ \A r : (r \in ToSet(reqs) /\ adapter_dir[r] = c)
              <=> \E i \in 1..Len(g) : r \in ToSet(MinisOf(reqs, c)[i])
  /\ \A i, j \in 1..Len(g) :
       \A r : r \in ToSet(MinisOf(reqs, c)[i]) /\ r \in ToSet(MinisOf(reqs, c)[j]) => i = j

LEMMA MinisOfIs ==
  ASSUME NEW reqs \in Seq(Req), Distinct(reqs), NEW c \in Client,
         NEW q, NEW g, MiniGroups(q, g, reqs, c)
  PROVE  MinisGood(q, g, reqs, c)
<1>1. q = Queries(reqs, c) /\ g = Split(Len(q), QueryLatency(q, c))
  BY DEF MiniGroups
<1>2. /\ q \in Seq(Req) /\ Distinct(q)
      /\ ToSet(q) = {r \in ToSet(reqs) : adapter_dir[r] = c}
  BY <1>1, QueriesIs
<1>3. Covers(g, Len(q))
  <2>1. HasLatencies(Len(q), QueryLatency(q, c)) /\ Len(q) \in Nat
    BY <1>2, QueryCosts
  <2>2. QED
    BY <1>1, <2>1, SplitIs
<1>4. CutGood(q, g, Req)
  BY <1>2, <1>3, CutIs
<1>5. MinisOf(reqs, c) = Cut(q, g)
  BY <1>1 DEF MinisOf
<1>6. QED
  BY <1>2, <1>3, <1>4, <1>5 DEF CutGood, MinisGood, IsMini

(* The adapters, each once, in the order of their first requests.          *)
FirstsOf(reqs) ==
  Picked(reqs, {i \in DOMAIN reqs :
                  \A j \in 1..i - 1 : adapter_dir[reqs[j]] # adapter_dir[reqs[i]]})

LEMMA FirstsIs ==
  ASSUME NEW reqs \in Seq(Req)
  PROVE  /\ FirstsOf(reqs) \in Seq(Req)
         /\ \A c : c \in Dirs(ToSet(reqs))
                     <=> \E i \in DOMAIN FirstsOf(reqs) : adapter_dir[FirstsOf(reqs)[i]] = c
         /\ \A i, j \in DOMAIN FirstsOf(reqs) :
              adapter_dir[FirstsOf(reqs)[i]] = adapter_dir[FirstsOf(reqs)[j]] => i = j
<1> DEFINE n == Len(reqs)
           F == {i \in DOMAIN reqs : \A j \in 1..i - 1 : adapter_dir[reqs[j]] # adapter_dir[reqs[i]]}
           fs == FirstsOf(reqs)
           k == Cardinality(F)
<1>1. DOMAIN reqs = 1..n /\ n \in Nat /\ ToSet(reqs) = {reqs[i] : i \in 1..n}
  BY ListIs DEF ToSet
<1>2. fs = Picked(reqs, F)
  BY DEF FirstsOf
<1>3. \A i \in F : i \in 1..n /\ \A j \in 1..i - 1 : adapter_dir[reqs[j]] # adapter_dir[reqs[i]]
  BY <1>1
<1>4. F \in SUBSET DOMAIN reqs /\ F \in SUBSET Nat
  BY <1>1
<1>5. \A i \in 1..n : \E j \in F : adapter_dir[reqs[j]] = adapter_dir[reqs[i]]
  <2>1. SUFFICES ASSUME NEW i \in 1..n
                 PROVE  \E j \in F : adapter_dir[reqs[j]] = adapter_dir[reqs[i]]
    OBVIOUS
  <2> DEFINE Same == {j \in 1..n : adapter_dir[reqs[j]] = adapter_dir[reqs[i]]}
  <2>2. Same \in SUBSET Nat /\ Same # {}
    OBVIOUS
  <2>3. PICK j \in Same : \A x \in Same : j <= x
    <3> HIDE DEF Same
    <3>1. QED
      BY <2>2, LeastNumber
  <2>4. ASSUME NEW x \in 1..j - 1 PROVE adapter_dir[reqs[x]] # adapter_dir[reqs[j]]
    <3>1. x \in 1..n /\ ~(j <= x)
      BY <1>1, <2>3
    <3>2. QED
      BY <2>3, <3>1
  <2>5. j \in F
    BY <1>1, <2>3, <2>4
  <2>6. QED
    BY <2>3, <2>5
<1> HIDE DEF F, fs, n
<1>6. IsFiniteSet(F)
  <2>1. 1 \in Int /\ n \in Int
    BY <1>1
  <2>2. IsFiniteSet(1..n)
    BY <2>1, FS_Interval
  <2>3. F \in SUBSET (1..n)
    BY <1>3
  <2>4. QED
    BY <2>2, <2>3, FS_Subset
<1>7. /\ fs \in Seq(Req) /\ Len(fs) = k /\ ToSet(fs) = {reqs[i] : i \in F}
  BY <1>2, <1>4, PickedIs
<1>8. /\ k \in Nat /\ \A x \in 1..k : Place(F, x) \in F /\ Rank(F, Place(F, x)) = x
  BY <1>4, <1>6, PlaceIs
<1>9. DOMAIN fs = 1..k /\ \A x \in 1..k : fs[x] = reqs[Place(F, x)]
  BY <1>2 DEF Picked
<1> HIDE DEF k
<1>10. \A c : c \in Dirs(ToSet(reqs)) <=> \E x \in DOMAIN fs : adapter_dir[fs[x]] = c
  <2>1. \A c : c \in Dirs(ToSet(reqs)) <=> \E i \in 1..n : adapter_dir[reqs[i]] = c
    BY <1>1 DEF Dirs
  <2>2. \A c : (\E i \in 1..n : adapter_dir[reqs[i]] = c) <=> \E i \in F : adapter_dir[reqs[i]] = c
    BY <1>3, <1>5
  <2>3. \A c : (\E i \in F : adapter_dir[reqs[i]] = c) <=> \E x \in DOMAIN fs : adapter_dir[fs[x]] = c
    <3>1. {reqs[i] : i \in F} = {fs[x] : x \in DOMAIN fs}
      BY <1>7 DEF ToSet
    <3>2. \A i \in F : \E x \in DOMAIN fs : fs[x] = reqs[i]
      BY <3>1
    <3>3. \A x \in DOMAIN fs : \E i \in F : fs[x] = reqs[i]
      BY <3>1
    <3>4. QED
      BY <3>2, <3>3
  <2>4. QED
    BY <2>1, <2>2, <2>3
<1>11. ASSUME NEW x \in DOMAIN fs, NEW y \in DOMAIN fs, adapter_dir[fs[x]] = adapter_dir[fs[y]]
       PROVE  x = y
  <2> DEFINE a == Place(F, x)
             b == Place(F, y)
  <2>1. a \in F /\ b \in F /\ adapter_dir[reqs[a]] = adapter_dir[reqs[b]]
    BY <1>8, <1>9, <1>11
  <2>2. Rank(F, a) = x /\ Rank(F, b) = y
    BY <1>8, <1>9
  <2> HIDE DEF a, b
  <2>3. a \in 1..n /\ b \in 1..n /\ ~(a \in 1..b - 1) /\ ~(b \in 1..a - 1)
    BY <1>3, <2>1
  <2>4. a = b
    BY <1>1, <2>3
  <2>5. QED
    BY <2>2, <2>4
<1>12. QED
  BY <1>7, <1>10, <1>11 DEF fs

(* Each request is in one mini batch, which has one adapter.               *)
LEMMA IntraIs ==
  ASSUME NEW reqs \in Seq(Req), Distinct(reqs)
  PROVE  /\ IntraTaskBatching(reqs) \in Seq(Seq(Req))
         /\ \A i \in DOMAIN IntraTaskBatching(reqs) : IsMini(IntraTaskBatching(reqs)[i])
         /\ \A m : m \in ToSet(IntraTaskBatching(reqs))
                     <=> \E c \in Dirs(ToSet(reqs)) : m \in ToSet(MinisOf(reqs, c))
         /\ \A r : r \in ToSet(reqs)
                     <=> \E i \in DOMAIN IntraTaskBatching(reqs) : r \in ToSet(IntraTaskBatching(reqs)[i])
         /\ \A i, j \in DOMAIN IntraTaskBatching(reqs) :
              \A r : r \in ToSet(IntraTaskBatching(reqs)[i]) /\ r \in ToSet(IntraTaskBatching(reqs)[j])
                       => i = j
<1> DEFINE fs == FirstsOf(reqs)
           dir(i) == adapter_dir[fs[i]]
           seqs == [i \in DOMAIN fs |-> MinisOf(reqs, dir(i))]
           ms == IntraTaskBatching(reqs)
           D == Dirs(ToSet(reqs))
<1>1. ms = FlattenSeq(seqs)
  BY DEF IntraTaskBatching, FirstsOf, MinisOf
<1>2. /\ fs \in Seq(Req)
      /\ \A c : c \in D <=> \E i \in DOMAIN fs : dir(i) = c
      /\ \A i, j \in DOMAIN fs : dir(i) = dir(j) => i = j
  BY FirstsIs
<1>3. D \in SUBSET Client
  <2>1. ToSet(reqs) \in SUBSET Req
    BY ListIs
  <2>2. QED
    BY <2>1, RequestAssumption DEF Dirs
<1> HIDE DEF fs, ms, D
<1>4. ASSUME NEW c \in D
      PROVE  /\ MinisOf(reqs, c) \in Seq(Seq(Req))
             /\ Distinct(MinisOf(reqs, c))
             /\ \A m \in ToSet(MinisOf(reqs, c)) : IsMini(m)
             /\ \A r : (r \in ToSet(reqs) /\ adapter_dir[r] = c)
                         <=> \E m \in ToSet(MinisOf(reqs, c)) : r \in ToSet(m)
             /\ \A l, m \in ToSet(MinisOf(reqs, c)) :
                  \A r : r \in ToSet(l) /\ r \in ToSet(m) => l = m
  <2> DEFINE q == Queries(reqs, c)
             g == Split(Len(q), QueryLatency(q, c))
             M == MinisOf(reqs, c)
             N == Len(g)
  <2>1. MiniGroups(q, g, reqs, c) /\ c \in Client
    BY <1>3 DEF MiniGroups
  <2> HIDE DEF q, g
  <2>2. /\ M \in Seq(Seq(Req)) /\ DOMAIN M = 1..N
        /\ \A i \in 1..N : IsMini(M[i])
        /\ \A r : (r \in ToSet(reqs) /\ adapter_dir[r] = c) <=> \E i \in 1..N : r \in ToSet(M[i])
        /\ \A i, j \in 1..N : \A r : r \in ToSet(M[i]) /\ r \in ToSet(M[j]) => i = j
    <3>1. MinisGood(q, g, reqs, c)
      BY <2>1, MinisOfIs
    <3>2. QED
      BY <3>1, Zenon DEF MinisGood
  <2> HIDE DEF M, N
  <2>3. \A m : m \in ToSet(M) <=> \E i \in 1..N : M[i] = m
    BY <2>2 DEF ToSet
  <2>4. Distinct(M)
    <3>1. ASSUME NEW i \in 1..N, NEW j \in 1..N, M[i] = M[j] PROVE i = j
      <4>1. Last(M[i]) \in ToSet(M[i]) /\ Last(M[i]) \in ToSet(M[j])
        BY <2>2, <3>1 DEF IsMini, IsPart
      <4>2. QED
        BY <2>2, <4>1
    <3>2. QED
      BY <2>2, <3>1 DEF Distinct
  <2>5. \A r : (r \in ToSet(reqs) /\ adapter_dir[r] = c) <=> \E m \in ToSet(M) : r \in ToSet(m)
    BY <2>2, <2>3
  <2>6. \A l, m \in ToSet(M) : \A r : r \in ToSet(l) /\ r \in ToSet(m) => l = m
    BY <2>2, <2>3
  <2>7. QED
    BY <2>2, <2>3, <2>4, <2>5, <2>6 DEF M
<1> DEFINE k == Len(fs)
<1>5. /\ seqs \in Seq(Seq(Seq(Req))) /\ DOMAIN seqs = DOMAIN fs
      /\ \A i \in DOMAIN fs : seqs[i] = MinisOf(reqs, dir(i)) /\ dir(i) \in D
  <2>1. k \in Nat /\ DOMAIN fs = 1..k
    BY <1>2, ListIs
  <2>2. \A i \in DOMAIN fs : seqs[i] = MinisOf(reqs, dir(i)) /\ dir(i) \in D
    BY <1>2
  <2> HIDE DEF dir
  <2>3. \A i \in 1..k : MinisOf(reqs, dir(i)) \in Seq(Seq(Req))
    BY <1>4, <2>1, <2>2
  <2>4. seqs \in [1..k -> Seq(Seq(Req))]
    BY <2>1, <2>3
  <2> HIDE DEF seqs, k
  <2>5. seqs \in Seq(Seq(Seq(Req)))
    BY <2>1, <2>4, MakesList
  <2>6. QED
    BY <2>1, <2>2, <2>4, <2>5
<1> HIDE DEF seqs
<1>6. Apart(seqs)
  <2>1. ASSUME NEW i \in DOMAIN seqs PROVE Distinct(seqs[i])
    <3>1. seqs[i] = MinisOf(reqs, dir(i)) /\ dir(i) \in D
      BY <1>5
    <3> HIDE DEF dir
    <3>2. Distinct(MinisOf(reqs, dir(i)))
      BY <1>4, <3>1
    <3>3. QED
      BY <3>1, <3>2
  <2>2. ASSUME NEW i \in DOMAIN seqs, NEW j \in DOMAIN seqs, i # j,
               NEW m, m \in ToSet(seqs[i]), m \in ToSet(seqs[j])
        PROVE  FALSE
    <3>1. dir(i) # dir(j) /\ dir(i) \in D /\ dir(j) \in D
      BY <1>2, <1>5, <2>2
    <3>2. m \in ToSet(MinisOf(reqs, dir(i))) /\ m \in ToSet(MinisOf(reqs, dir(j)))
      BY <1>5, <2>2
    <3> HIDE DEF dir
    <3>3. Last(m) \in ToSet(m)
      BY <1>4, <3>1, <3>2 DEF IsMini, IsPart
    <3>4. adapter_dir[Last(m)] = dir(i) /\ adapter_dir[Last(m)] = dir(j)
      BY <1>4, <3>1, <3>2, <3>3
    <3>5. QED
      BY <3>1, <3>4
  <2>3. QED
    BY <2>1, <2>2 DEF Apart
<1> DEFINE S == Seq(Req)
<1>7. seqs \in Seq(Seq(S))
  BY <1>5
<1> HIDE DEF S
<1>8. /\ ms \in Seq(S)
      /\ ToSet(ms) = UNION {ToSet(seqs[i]) : i \in DOMAIN seqs}
      /\ Distinct(ms)
  BY <1>1, <1>6, <1>7, FlattenIs
<1>9. \A m : m \in ToSet(ms) <=> \E c \in D : m \in ToSet(MinisOf(reqs, c))
  <2>1. \A m : m \in ToSet(ms) <=> \E i \in DOMAIN fs : m \in ToSet(MinisOf(reqs, dir(i)))
    BY <1>5, <1>8
  <2>2. QED
    BY <1>2, <1>5, <2>1
<1>10. \A m : m \in ToSet(ms) <=> \E i \in DOMAIN ms : ms[i] = m
  BY DEF ToSet
<1>11. \A i \in DOMAIN ms : IsMini(ms[i])
  BY <1>4, <1>9, <1>10
<1>12. \A r : r \in ToSet(reqs) <=> \E i \in DOMAIN ms : r \in ToSet(ms[i])
  <2>1. \A r \in ToSet(reqs) : adapter_dir[r] \in D
    BY DEF Dirs, D
  <2>2. \A r : r \in ToSet(reqs) <=> \E c \in D : \E m \in ToSet(MinisOf(reqs, c)) : r \in ToSet(m)
    BY <1>4, <2>1
  <2>3. \A r : r \in ToSet(reqs) <=> \E m \in ToSet(ms) : r \in ToSet(m)
    BY <1>9, <2>2
  <2>4. QED
    BY <1>10, <2>3
<1>13. ASSUME NEW i \in DOMAIN ms, NEW j \in DOMAIN ms, NEW r, r \in ToSet(ms[i]), r \in ToSet(ms[j])
       PROVE  i = j
  <2>1. ms[i] \in ToSet(ms) /\ ms[j] \in ToSet(ms)
    BY <1>10
  <2>2. PICK c \in D : ms[i] \in ToSet(MinisOf(reqs, c))
    BY <1>9, <2>1
  <2>3. PICK d \in D : ms[j] \in ToSet(MinisOf(reqs, d))
    BY <1>9, <2>1
  <2>4. adapter_dir[r] = c /\ adapter_dir[r] = d
    BY <1>4, <1>13, <2>2, <2>3
  <2>5. ms[i] = ms[j]
    BY <1>4, <1>13, <2>2, <2>3, <2>4
  <2>6. QED
    BY <1>8, <2>5 DEF Distinct
<1>14. QED
  BY <1>8, <1>9, <1>11, <1>12, <1>13 DEF ms, D, S

-----------------------------------------------------------------------------
(* The macro batches of the mini batches.                                  *)
LEMMA MacroCosts ==
  ASSUME NEW m \in Seq(Seq(Req)), \A i \in DOMAIN m : IsMini(m[i])
  PROVE  HasLatencies(Len(m), MacroLatency(m))
<1> DEFINE size(k, j) == Len(FlattenSeq(SubSeq(m, k, j)))
<1>1. DOMAIN m = 1..Len(m) /\ Len(m) \in Nat
  BY ListIs
<1>2. \A k, j \in 1..Len(m) : At(MacroLatency(m), k, j) = AlphaLatency(size(k, j), MaxLen(m[j]))
  BY <1>1, Zenon DEF At, MacroLatency
<1> HIDE DEF size
<1>3. ASSUME NEW j \in 1..Len(m), NEW k \in 1..j PROVE At(MacroLatency(m), k, j) \in Costs
  <2> DEFINE r == Last(m[j])
  <2>1. k \in 1..Len(m)
    BY <1>1
  <2>2. At(MacroLatency(m), k, j) = AlphaLatency(size(k, j), input_len[r])
    BY <1>2, <2>1, Zenon DEF MaxLen
  <2>3. m[j] \in Seq(Req) /\ r \in ToSet(m[j])
    BY <1>1 DEF IsMini, IsPart
  <2> HIDE DEF r
  <2>4. r \in Req
    BY <2>3, ListIs
  <2>5. AlphaLatency(size(k, j), input_len[r]) \in Costs
    BY <2>4, AlphaIs
  <2>6. QED
    BY <2>2, <2>5
<1>4. QED
  BY <1>3 DEF HasLatencies

(* Sorted, the mini batches are the same ones, and their groups cover them.*)
LEMMA SortedIs ==
  ASSUME NEW minis \in Seq(Seq(Req)), \A i \in DOMAIN minis : IsMini(minis[i]),
         NEW m, m = SortedMinis(minis)
  PROVE  /\ m \in Seq(Seq(Req)) /\ Len(m) = Len(minis) /\ ToSet(m) = ToSet(minis)
         /\ Distinct(minis) => Distinct(m)
         /\ \A i \in DOMAIN m : m[i] \in ToSet(minis) /\ IsMini(m[i])
         /\ HasLatencies(Len(m), MacroLatency(m))
         /\ Covers(MacroGroups(m), Len(m))
         /\ Len(m) # 0 => Len(MacroGroups(m)) \in Nat \ {0}
<1> DEFINE key == [i \in DOMAIN minis |-> MaxLen(minis[i])]
           S == Seq(Req)
<1>1. m = StableSort(minis, key)
  BY DEF SortedMinis
<1>2. ASSUME NEW i \in DOMAIN minis PROVE key[i] \in Int
  <2>1. minis[i] \in Seq(Req) /\ Last(minis[i]) \in ToSet(minis[i])
    BY <1>2 DEF IsMini, IsPart
  <2>2. Last(minis[i]) \in Req
    BY <2>1, ListIs
  <2>3. input_len[Last(minis[i])] \in Int
    BY <2>2, RequestAssumption
  <2>4. key[i] = input_len[Last(minis[i])]
    BY <1>2 DEF MaxLen
  <2>5. QED
    BY <2>3, <2>4
<1>3. minis \in Seq(S)
  OBVIOUS
<1> HIDE DEF key, S
<1>4. /\ m \in Seq(S) /\ Len(m) = Len(minis) /\ ToSet(m) = ToSet(minis)
      /\ Distinct(minis) => Distinct(m)
  BY <1>1, <1>2, <1>3, SortIs
<1>5. \A x : x \in ToSet(minis) <=> \E i \in DOMAIN minis : minis[i] = x
  BY DEF ToSet
<1>6. DOMAIN m = 1..Len(m) /\ Len(m) \in Nat
      /\ ToSet(m) = {m[i] : i \in DOMAIN m}
  BY <1>4, ListIs DEF ToSet
<1>7. \A i \in DOMAIN m : m[i] \in ToSet(minis) /\ IsMini(m[i])
  BY <1>4, <1>5, <1>6
<1>8. HasLatencies(Len(m), MacroLatency(m))
  BY <1>4, <1>7, MacroCosts DEF S
<1>9. Covers(MacroGroups(m), Len(m)) /\ (Len(m) # 0 => Len(MacroGroups(m)) \in Nat \ {0})
  BY <1>6, <1>8, SplitIs DEF MacroGroups
<1>10. QED
  BY <1>4, <1>7, <1>8, <1>9 DEF S

(* What the shortest macro batch holds comes from the mini batches.        *)
LEMMA MacroIs ==
  ASSUME NEW minis \in Seq(Seq(Req)), \A i \in DOMAIN minis : IsMini(minis[i]), Len(minis) # 0
  PROVE  /\ ShortestMacroBatch(minis) \in Seq(Req)
         /\ \A r : r \in ToSet(ShortestMacroBatch(minis))
                     => \E i \in DOMAIN minis : r \in ToSet(minis[i])
<1> DEFINE m == SortedMinis(minis)
           g == MacroGroups(m)
           p == Last(g)
           a == p[1]
           b == p[2]
           t == SubSeq(m, a, b)
           S == Seq(Req)
<1>1. ShortestMacroBatch(minis) = FlattenSeq(t)
  BY DEF ShortestMacroBatch
<1>2. /\ m \in Seq(S) /\ Len(m) # 0 /\ ToSet(m) = ToSet(minis)
      /\ \A i \in DOMAIN m : m[i] \in ToSet(minis)
      /\ Covers(g, Len(m)) /\ Len(g) \in Nat \ {0}
  <2> DEFINE mm == m
  <2>1. mm = SortedMinis(minis)
    OBVIOUS
  <2> HIDE DEF mm
  <2>2. /\ mm \in Seq(S) /\ Len(mm) # 0 /\ ToSet(mm) = ToSet(minis)
        /\ \A i \in DOMAIN mm : mm[i] \in ToSet(minis)
        /\ Covers(MacroGroups(mm), Len(mm)) /\ Len(MacroGroups(mm)) \in Nat \ {0}
    BY <2>1, SortedIs
  <2>3. QED
    BY <2>2 DEF mm
<1> HIDE DEF m, S
<1>3. \A x : x \in ToSet(minis) <=> \E i \in DOMAIN minis : minis[i] = x
  BY DEF ToSet
<1>4. DOMAIN m = 1..Len(m) /\ Len(m) \in Nat
  BY <1>2, ListIs
<1> HIDE DEF g
<1>5. p = g[Len(g)] /\ Len(g) \in 1..Len(g)
  BY <1>2 DEF Last
<1>6. 1 <= p[1] /\ p[1] <= p[2] /\ p[2] <= Len(m) /\ p \in Nat \X Nat
  BY <1>2, <1>5 DEF Covers
<1>7. a \in Nat \ {0} /\ b \in 0..Len(m) /\ \A i \in a..b : i \in DOMAIN m
  BY <1>4, <1>6
<1> HIDE DEF a, b
<1>8. t \in Seq(S) /\ ToSet(t) = {m[i] : i \in a..b}
  BY <1>2, <1>7, SliceIs
<1> HIDE DEF t
<1>9. ToSet(t) \subseteq ToSet(minis)
  BY <1>2, <1>7, <1>8
<1>10. t \in Seq(Seq(Req))
  BY <1>8 DEF S
<1>11. FlattenSeq(t) \in Seq(Req) /\ ToSet(FlattenSeq(t)) = UNION {ToSet(t[i]) : i \in DOMAIN t}
  BY <1>10, FlattenIs
<1>12. \A i \in DOMAIN t : t[i] \in ToSet(minis)
  BY <1>9 DEF ToSet
<1>13. QED
  BY <1>1, <1>3, <1>11, <1>12

LEMMA PetsReqsIs ==
  ListOK => PetsReqs \in Seq(Req) /\ ToSet(PetsReqs) \subseteq ToSet(waiting)
<1> SUFFICES ASSUME ListOK PROVE PetsReqs \in Seq(Req) /\ ToSet(PetsReqs) \subseteq ToSet(waiting)
  OBVIOUS
<1> DEFINE minis == IntraTaskBatching(waiting)
<1>1. waiting \in Seq(Req) /\ Distinct(waiting) /\ Len(waiting) \in Nat
  BY ListIs DEF ListOK
<1>2. CASE ~(Len(waiting) > pets_threshold)
  BY <1>1, <1>2 DEF PetsReqs
<1>3. CASE Len(waiting) > pets_threshold
  <2>1. Len(waiting) # 0
    BY <1>1, <1>3, ThresholdAssumption
  <2>2. /\ minis \in Seq(Seq(Req))
        /\ \A i \in DOMAIN minis : IsMini(minis[i])
        /\ \A r : r \in ToSet(waiting) <=> \E i \in DOMAIN minis : r \in ToSet(minis[i])
    BY <1>1, IntraIs
  <2> HIDE DEF minis
  <2>3. waiting[1] \in ToSet(waiting)
    BY <1>1, <2>1, ListIs
  <2>4. Len(minis) # 0
    <3>1. DOMAIN minis = 1..Len(minis) /\ DOMAIN minis # {}
      BY <2>2, <2>3, ListIs
    <3>2. QED
      BY <3>1
  <2>5. /\ ShortestMacroBatch(minis) \in Seq(Req)
        /\ \A r : r \in ToSet(ShortestMacroBatch(minis))
                    => \E i \in DOMAIN minis : r \in ToSet(minis[i])
    BY <2>2, <2>4, MacroIs
  <2>6. PetsReqs = ShortestMacroBatch(minis)
    BY <1>3 DEF PetsReqs, minis
  <2>7. QED
    BY <2>2, <2>5, <2>6
<1>4. QED
  BY <1>2, <1>3

LEMMA PetsIs == ListOK /\ policy # "abort" => GoodBatch(Pets)
<1> SUFFICES ASSUME ListOK, policy # "abort" PROVE GoodBatch(Pets)
  OBVIOUS
<1> DEFINE s == Scan(PetsReqs, <<>>, <<>>)
<1>1. PetsReqs \in Seq(Req) /\ ToSet(PetsReqs) \subseteq ToSet(waiting)
  BY PetsReqsIs
<1>2. IsScan(s, PetsReqs, <<>>, <<>>)
  BY DEF IsScan
<1>3. Pets = NoBatch \/ Pets = Batch(s.taken, Without(waiting, ToSet(s.seen)))
  BY DEF Pets
<1> HIDE DEF s
<1>4. ToSet(s.taken) = ToSet(s.seen) \ aborted
  BY <1>1, <1>2, FirstScanIs
<1>5. ToSet(s.taken) \subseteq ToSet(s.seen) /\ ToSet(s.seen) \subseteq ToSet(s.taken) \cup aborted
  BY <1>4
<1>6. Parts(s.taken, Without(waiting, ToSet(s.seen)), {})
  BY <1>1, <1>2, <1>5, FilterParts
<1>7. GoodBatch(Batch(s.taken, Without(waiting, ToSet(s.seen))))
  BY <1>6, BatchIs
<1>8. QED
  BY <1>3, <1>7, NoBatchIs

(* Whatever the scheduler.                                                 *)
LEMMA NewBatchIs == ListOK /\ policy \in Policies => GoodBatch(NewBatch)
<1> SUFFICES ASSUME ListOK, policy \in Policies PROVE GoodBatch(NewBatch)
  OBVIOUS
<1>1. CASE policy = "slora"
  <2>1. NewBatch = Fcfs
    BY <1>1 DEF NewBatch
  <2>2. QED
    BY <1>1, <2>1, FcfsIs
<1>2. CASE policy = "abort"
  <2>1. NewBatch = AbortQueue
    BY <1>2 DEF NewBatch
  <2>2. QED
    BY <1>2, <2>1, AbortIs
<1>3. CASE policy = "cluster"
  <2>1. NewBatch = Cluster
    BY <1>3 DEF NewBatch
  <2>2. QED
    BY <1>3, <2>1, ClusterIs
<1>4. CASE policy = "peft"
  <2>1. NewBatch = Peft
    BY <1>4 DEF NewBatch
  <2>2. QED
    BY <1>4, <2>1, PeftIs
<1>5. CASE policy = "pets"
  <2>1. NewBatch = Pets
    BY <1>5 DEF NewBatch
  <2>2. QED
    BY <1>5, <2>1, PetsIs
<1>6. QED
  BY <1>1, <1>2, <1>3, <1>4, <1>5 DEF Policies

-----------------------------------------------------------------------------
(* The inductive invariant.  ControlOK: types, and the lists of a          *)
(* scheduler; PlacesOK: where requests are; StartedOK: who has tokens.     *)
ControlOK ==
  /\ policy \in Policies /\ pc \in Awaits \cup {"top"}
  /\ has_wait \in 0..max_wait_tokens
  /\ merged \in [Client -> Int]
  /\ ListOK /\ Distinct(order)

PlacesOK ==
  /\ ToSet(waiting) \cup running \cup mini \cup finished \cup aborted \cup forwarded \cup refused
       \subseteq ToSet(order)
  /\ ToSet(waiting) \cap (running \cup mini \cup finished) = {}
  /\ running \cap (mini \cup finished) = {} /\ mini \cap finished = {}
  /\ ToSet(order) \subseteq ToSet(waiting) \cup running \cup mini \cup finished \cup aborted
  /\ refused \subseteq {order[i] : i \in 1..expired}

StartedOK ==
  /\ outputs \in [Req -> Nat]
  /\ pc \notin {"prefill", "settle"} => mini = {}
  /\ \A r \in Req \ (running \cup mini \cup finished) : outputs[r] = 0
  /\ \A r \in running : outputs[r] = 0 <=> pc = "prefill" /\ mini = {}
  /\ \A r \in mini : outputs[r] = 0 <=> pc = "prefill"
  /\ \A r \in running \cup mini : outputs[r] < max_output_len[r]

LEMMA AppendIs ==
  ASSUME NEW S, NEW s \in Seq(S), NEW x \in S
  PROVE  /\ Append(s, x) \in Seq(S) /\ Len(Append(s, x)) = Len(s) + 1
         /\ ToSet(Append(s, x)) = ToSet(s) \cup {x}
         /\ \A i \in 1..Len(s) : Append(s, x)[i] = s[i]
         /\ Append(s, x)[Len(s) + 1] = x
         /\ Distinct(s) /\ x \notin ToSet(s) => Distinct(Append(s, x))
<1> DEFINE t == <<x>>
<1>1. t \in Seq(S) /\ ToSet(t) = {x} /\ Distinct(t) /\ Append(s, x) = s \o t
  BY DEF ToSet, Distinct
<1> HIDE DEF t
<1>2. /\ s \o t \in Seq(S)
      /\ ToSet(s \o t) = ToSet(s) \cup ToSet(t)
      /\ Distinct(s) /\ Distinct(t) /\ ToSet(s) \cap ToSet(t) = {} => Distinct(s \o t)
  BY <1>1, JoinIs
<1>3. /\ Len(Append(s, x)) = Len(s) + 1 /\ Append(s, x)[Len(s) + 1] = x
      /\ \A i \in 1..Len(s) : Append(s, x)[i] = s[i]
  OBVIOUS
<1>4. QED
  BY <1>1, <1>2, <1>3

LEMMA PushIs ==
  ASSUME NEW S, NEW s \in Seq(S), NEW x \in S
  PROVE  /\ <<x>> \o s \in Seq(S) /\ Len(<<x>> \o s) = Len(s) + 1
         /\ ToSet(<<x>> \o s) = ToSet(s) \cup {x}
         /\ (<<x>> \o s)[1] = x
         /\ \A i \in 2..Len(s) + 1 : (<<x>> \o s)[i] = s[i - 1]
         /\ Distinct(s) /\ x \notin ToSet(s) => Distinct(<<x>> \o s)
<1> DEFINE t == <<x>>
<1>1. t \in Seq(S) /\ ToSet(t) = {x} /\ Distinct(t)
  BY DEF ToSet, Distinct
<1>2. /\ Len(t \o s) = Len(s) + 1 /\ (t \o s)[1] = x
      /\ \A i \in 2..Len(s) + 1 : (t \o s)[i] = s[i - 1]
  OBVIOUS
<1> HIDE DEF t
<1>3. /\ t \o s \in Seq(S)
      /\ ToSet(t \o s) = ToSet(t) \cup ToSet(s)
      /\ Distinct(t) /\ Distinct(s) /\ ToSet(t) \cap ToSet(s) = {} => Distinct(t \o s)
  BY <1>1, JoinIs
<1>4. QED
  BY <1>1, <1>2, <1>3 DEF t

(* A request arrives: it is the last of order and waits.                   *)
LEMMA AppendReqIs ==
  ASSUME ControlOK, ToSet(waiting) \subseteq ToSet(order),
         NEW r \in Req, r \notin ToSet(order), AppendReq(r), UNCHANGED <<policy, expired>>
  PROVE  /\ ListOK' /\ Distinct(order')
         /\ ToSet(order') = ToSet(order) \cup {r} /\ ToSet(waiting') = ToSet(waiting) \cup {r}
         /\ \A i \in 1..expired : order'[i] = order[i]
<1> DEFINE n == Len(order)
           late == order'
<1>1. /\ order \in Seq(Req) /\ Distinct(order) /\ waiting \in Seq(Req) /\ Distinct(waiting)
      /\ expired \in 0..n /\ TimesFit(req_time_stamp, waiting)
      /\ apprx_req_rate \in Int /\ last_req_num \in Int /\ apprx_bs \in Nat \ {0}
      /\ policy \in Policies
  BY DEF ControlOK, ListOK
<1>2. n \in Nat /\ Len(waiting) \in Nat
  BY <1>1
<1>3. late = Append(order, r)
  BY DEF AppendReq
<1>4. /\ late \in Seq(Req) /\ Len(late) = n + 1 /\ ToSet(late) = ToSet(order) \cup {r}
      /\ \A i \in 1..n : late[i] = order[i]
      /\ late[n + 1] = r /\ Distinct(late)
  BY <1>1, <1>3, AppendIs
<1>5. /\ Distinct(order') /\ ToSet(order') = ToSet(order) \cup {r}
      /\ \A i \in 1..expired : order'[i] = order[i]
  <2>1. \A i \in 1..expired : i \in 1..n
    BY <1>1, <1>2
  <2>2. QED
    BY <1>4, <2>1
<1> HIDE DEF late
<1>6. CASE policy = "abort"
  <2> DEFINE w == <<r>> \o waiting
             N == 1..Len(late)
             times == <<Len(late)>> \o req_time_stamp
  <2>1. /\ w \in Seq(Req) /\ Len(w) = Len(waiting) + 1 /\ ToSet(w) = ToSet(waiting) \cup {r}
        /\ w[1] = r /\ \A i \in 2..Len(waiting) + 1 : w[i] = waiting[i - 1]
        /\ Distinct(w)
    BY <1>1, PushIs
  <2>2. waiting' = w /\ req_time_stamp' = times
    BY <1>6 DEF AppendReq, late
  <2> HIDE DEF w
  <2>3. /\ req_time_stamp \in Seq(1..n) /\ Len(req_time_stamp) = Len(waiting)
        /\ \A i \in 1..Len(waiting) : order[req_time_stamp[i]] = waiting[i]
    BY <1>1, <1>6 DEF TimesFit
  <2>4. req_time_stamp \in Seq(N) /\ Len(late) \in N
    <3>1. 1..n \subseteq N /\ Len(late) \in N
      BY <1>2, <1>4
    <3>2. req_time_stamp \in [1..Len(req_time_stamp) -> N] /\ Len(req_time_stamp) \in Nat
      BY <2>3, <3>1
    <3>3. QED
      BY <3>1, <3>2, MakesList
  <2> HIDE DEF N
  <2>5. /\ times \in Seq(N) /\ Len(times) = Len(req_time_stamp) + 1 /\ times[1] = Len(late)
        /\ \A i \in 2..Len(req_time_stamp) + 1 : times[i] = req_time_stamp[i - 1]
    BY <2>4, PushIs
  <2> HIDE DEF times
  <2>6. ASSUME NEW i \in 1..Len(w) PROVE late[times[i]] = w[i]
    <3>1. CASE i = 1
      <4>1. late[Len(late)] = r
        BY <1>2, <1>4
      <4>2. QED
        BY <2>1, <2>5, <3>1, <4>1
    <3>2. CASE i # 1
      <4>1. i - 1 \in 1..Len(waiting) /\ i \in 2..Len(waiting) + 1
        BY <1>2, <2>1, <3>2
      <4>2. req_time_stamp[i - 1] \in 1..n
        BY <2>3, <4>1
      <4>3. QED
        BY <1>4, <2>1, <2>3, <2>5, <4>1, <4>2
    <3>3. QED
      BY <3>1, <3>2
  <2>7. TimesFit(req_time_stamp, waiting)'
    BY <1>6, <2>1, <2>2, <2>3, <2>5, <2>6 DEF TimesFit, N, late
  <2>8. expired' \in 0..Len(late)
    BY <1>1, <1>2, <1>4
  <2>9. UNCHANGED estimates
    BY DEF AppendReq
  <2>10. ListOK'
    BY <1>1, <1>4, <2>1, <2>2, <2>7, <2>8, <2>9 DEF ListOK, estimates, late
  <2>11. QED
    <3>1. ToSet(waiting') = ToSet(waiting) \cup {r}
      BY <2>1, <2>2
    <3>2. QED
      BY <2>10, <3>1, <1>5
<1>7. CASE policy # "abort"
  <2>1. waiting' = Append(waiting, r) /\ req_time_stamp' = req_time_stamp
    BY <1>7 DEF AppendReq
  <2>2. /\ waiting' \in Seq(Req) /\ ToSet(waiting') = ToSet(waiting) \cup {r} /\ Distinct(waiting')
    BY <1>1, <2>1, AppendIs
  <2>3. TimesFit(req_time_stamp, waiting)'
    BY <1>1, <1>7, <2>1 DEF TimesFit
  <2>4. expired' \in 0..Len(late)
    BY <1>1, <1>2, <1>4
  <2>5. UNCHANGED estimates
    BY DEF AppendReq
  <2>6. ListOK'
    BY <1>1, <1>4, <2>2, <2>3, <2>4, <2>5 DEF ListOK, estimates, late
  <2>7. QED
    BY <2>2, <2>6, <1>5
<1>8. QED
  BY <1>6, <1>7

LEMMA PlacesTyped ==
  ControlOK /\ PlacesOK =>
    /\ running \in SUBSET Req /\ mini \in SUBSET Req /\ finished \in SUBSET Req
    /\ aborted \in SUBSET Req /\ ToSet(order) \in SUBSET Req /\ ToSet(waiting) \in SUBSET Req
<1> SUFFICES ASSUME ControlOK, PlacesOK
             PROVE  /\ running \in SUBSET Req /\ mini \in SUBSET Req /\ finished \in SUBSET Req
                    /\ aborted \in SUBSET Req /\ ToSet(order) \in SUBSET Req
                    /\ ToSet(waiting) \in SUBSET Req
  OBVIOUS
<1>1. order \in Seq(Req)
  BY DEF ControlOK, ListOK
<1>2. ToSet(order) \subseteq Req
  BY <1>1, ListIs
<1>3. QED
  BY <1>2 DEF PlacesOK

(* What a batch of the scheduler is when it is admitted.                   *)
LEMMA AdmitIs ==
  ControlOK /\ Admit => GoodBatch(NewBatch) /\ AdmitBatch(NewBatch)
BY NewBatchIs DEF ControlOK, Admit

LEMMA SetListIs ==
  ASSUME ListOK, NEW b, GoodBatch(b), SetList(b), UNCHANGED <<policy, order, expired>>
  PROVE  ListOK'
<1>1. TimesFit(req_time_stamp, waiting)'
  BY DEF GoodBatch, SetList, TimesFit
<1>2. QED
  BY <1>1 DEF ListOK, GoodBatch, Parts, SetList

LEMMA SameList ==
  ControlOK /\ UNCHANGED <<policy, listVars, order, expired>> => ListOK' /\ Distinct(order')
BY DEF ControlOK, ListOK, TimesFit, listVars

(* An answer changes nothing of a scheduler.                               *)
LEMMA AnswerKeeps ==
  ASSUME ControlOK, NEW batch, NEW F, Answer(batch, F), pc' \in Awaits \cup {"top"},
         has_wait' \in 0..max_wait_tokens
  PROVE  ControlOK'
<1>1. UNCHANGED <<policy, listVars, order, expired>>
  BY DEF Answer
<1>2. ListOK' /\ Distinct(order')
  BY <1>1, SameList
<1>3. merged' \in [Client -> Int]
  BY DEF Answer, ControlOK
<1>4. QED
  BY <1>1, <1>2, <1>3 DEF ControlOK

LEMMA StepKeepsControl == ControlOK /\ PlacesOK /\ [Next]_vars => ControlOK'
<1> SUFFICES ASSUME ControlOK, PlacesOK, [Next]_vars PROVE ControlOK'
  OBVIOUS
<1>0. /\ policy \in Policies /\ pc \in Awaits \cup {"top"} /\ has_wait \in 0..max_wait_tokens
      /\ merged \in [Client -> Int] /\ ListOK /\ Distinct(order)
      /\ max_wait_tokens \in Nat
  BY WaitAssumption DEF ControlOK
<1>1. ASSUME NEW r \in Req, AddReq(r) PROVE ControlOK'
  <2>1. ToSet(waiting) \subseteq ToSet(order)
    BY DEF PlacesOK
  <2>2. ListOK' /\ Distinct(order')
    BY <1>1, <2>1, AppendReqIs DEF AddReq
  <2>3. UNCHANGED <<policy, pc, has_wait, merged>>
    BY <1>1 DEF AddReq
  <2>4. QED
    BY <1>0, <2>2, <2>3 DEF ControlOK
<1>2. ASSUME NEW r \in Req, Abort(r) PROVE ControlOK'
  <2>1. UNCHANGED <<policy, listVars, order, expired, pc, has_wait, merged>>
    BY <1>2 DEF Abort
  <2>2. QED
    BY <1>0, <2>1, SameList DEF ControlOK
<1>3. CASE Expire
  <2>1. UNCHANGED <<policy, listVars, order, pc, has_wait, merged>>
    BY <1>3 DEF Expire
  <2>2. expired' \in 0..Len(order)
    <3>1. expired \in 0..Len(order) /\ expired < Len(order) /\ expired' = expired + 1
          /\ order \in Seq(Req)
      BY <1>0, <1>3 DEF ListOK, Expire
    <3>2. QED
      BY <3>1
  <2>3. ListOK'
    BY <1>0, <2>1, <2>2 DEF ListOK, TimesFit, listVars
  <2>4. Distinct(order')
    BY <1>0, <2>1
  <2>5. QED
    BY <1>0, <2>1, <2>3, <2>4 DEF ControlOK
<1>4. CASE Wake
  <2>1. UNCHANGED <<policy, listVars, order, expired, has_wait, merged>> /\ pc' = "top"
    BY <1>4 DEF Wake
  <2>2. QED
    BY <1>0, <2>1, SameList DEF ControlOK
<1>5. CASE DecodeStep
  <2>1. UNCHANGED <<policy, listVars, order, expired, merged>> /\ pc' = "decode"
    BY <1>5 DEF DecodeStep
  <2>2. has_wait' \in 0..max_wait_tokens
    BY <1>0, <1>5 DEF DecodeStep
  <2>3. QED
    BY <1>0, <2>1, <2>2, SameList DEF ControlOK, Awaits
<1>6. CASE Admit
  <2>1. GoodBatch(NewBatch) /\ AdmitBatch(NewBatch)
    BY <1>6, AdmitIs
  <2>2. PICK b : b = NewBatch
    OBVIOUS
  <2>3. /\ SetList(b) /\ UNCHANGED <<policy, order, expired, has_wait>>
        /\ pc' \in Awaits /\ merged' \in [Client -> Int]
    BY <1>0, <2>1, <2>2 DEF AdmitBatch, Awaits
  <2>4. ListOK'
    BY <1>0, <2>1, <2>2, <2>3, SetListIs
  <2>5. QED
    BY <1>0, <2>3, <2>4 DEF ControlOK
<1>7. ASSUME NEW F, FinishFirstPrefill(F) PROVE ControlOK'
  <2>1. /\ Answer(running, F) /\ pc' \in Awaits \cup {"top"}
        /\ has_wait' \in 0..max_wait_tokens
    BY <1>0, <1>7 DEF FinishFirstPrefill, Awaits
  <2>2. QED
    BY <2>1, AnswerKeeps
<1>8. ASSUME NEW F, FinishDecode(F) PROVE ControlOK'
  <2>1. /\ Answer(running, F) /\ pc' \in Awaits \cup {"top"}
        /\ has_wait' \in 0..max_wait_tokens
    BY <1>0, <1>8 DEF FinishDecode, Awaits
  <2>2. QED
    BY <2>1, AnswerKeeps
<1>9. ASSUME NEW F, FinishMiniPrefill(F) PROVE ControlOK'
  <2>1. /\ Answer(mini, F) /\ pc' \in Awaits \cup {"top"}
        /\ has_wait' \in 0..max_wait_tokens
    BY <1>0, <1>9 DEF FinishMiniPrefill, Awaits
  <2>2. QED
    BY <2>1, AnswerKeeps
<1>10. CASE Settled
  <2>1. /\ UNCHANGED <<policy, listVars, order, expired, has_wait, merged>>
        /\ pc' \in Awaits \cup {"top"}
    BY <1>10 DEF Settled, Awaits
  <2>2. QED
    BY <1>0, <2>1, SameList DEF ControlOK
<1>11. CASE UNCHANGED vars
  <2>1. UNCHANGED <<policy, listVars, order, expired, has_wait, merged, pc>>
    BY <1>11 DEF vars
  <2>2. QED
    BY <1>0, <2>1, SameList DEF ControlOK
<1>12. QED
  BY <1>1, <1>2, <1>3, <1>4, <1>5, <1>6, <1>7, <1>8, <1>9, <1>10, <1>11 DEF Next, Forward

(* Those who are in a batch after an admission.                            *)
LEMMA AdmitBatches ==
  ASSUME StartedOK, Admit, NEW b, AdmitBatch(b)
  PROVE  /\ mini = {} /\ running' \cup mini' = running \cup ToSet(b.taken)
         /\ running' \cap mini' = running \cap ToSet(b.taken) \/ running' \cap mini' = {}
<1>1. mini = {}
  BY DEF Admit, StartedOK
<1>2. QED
  BY <1>1 DEF AdmitBatch

(* Who is answered stays in the batch or is finished.                      *)
LEMMA AnswerPlaces ==
  ASSUME PlacesOK, NEW F,
         \/ F \in SUBSET running /\ Answer(running, F) /\ running' = running \ F /\ mini' = mini
         \/ F \in SUBSET mini /\ Answer(mini, F) /\ mini' = mini \ F /\ running' = running
  PROVE  PlacesOK'
<1>1. UNCHANGED <<waiting, aborted, forwarded, refused, order, expired>> /\ finished' = finished \cup F
  BY DEF Answer, listVars
<1>2. ToSet(waiting') = ToSet(waiting) /\ ToSet(order') = ToSet(order)
  BY <1>1
<1>3. refused' \subseteq {order'[i] : i \in 1..expired'}
  BY <1>1 DEF PlacesOK
<1>4. QED
  BY <1>1, <1>2, <1>3 DEF PlacesOK

LEMMA SamePlaces ==
  ASSUME PlacesOK, UNCHANGED <<waiting, order, expired, running, mini, finished, refused>>,
         forwarded' \subseteq ToSet(order), aborted' \subseteq ToSet(order),
         aborted \subseteq aborted'
  PROVE  PlacesOK'
<1>1. ToSet(waiting') = ToSet(waiting) /\ ToSet(order') = ToSet(order)
  OBVIOUS
<1>2. refused' \subseteq {order'[i] : i \in 1..expired'}
  BY DEF PlacesOK
<1>3. QED
  BY <1>1, <1>2 DEF PlacesOK

LEMMA StepKeepsPlaces == ControlOK /\ PlacesOK /\ StartedOK /\ [Next]_vars => PlacesOK'
<1> SUFFICES ASSUME ControlOK, PlacesOK, StartedOK, [Next]_vars PROVE PlacesOK'
  OBVIOUS
<1>0. aborted \subseteq ToSet(order) /\ forwarded \subseteq ToSet(order)
  BY DEF PlacesOK
<1>1. ASSUME NEW r \in Req, AddReq(r) PROVE PlacesOK'
  <2>1. ToSet(waiting) \subseteq ToSet(order)
    BY DEF PlacesOK
  <2>2. /\ ToSet(order') = ToSet(order) \cup {r} /\ ToSet(waiting') = ToSet(waiting) \cup {r}
        /\ \A i \in 1..expired : order'[i] = order[i]
    BY <1>1, <2>1, AppendReqIs DEF AddReq
  <2>3. /\ UNCHANGED <<running, mini, finished, aborted, forwarded, refused, expired>>
        /\ r \notin ToSet(order)
    BY <1>1 DEF AddReq, batchVars
  <2>4. refused' \subseteq {order'[i] : i \in 1..expired'}
    BY <2>2, <2>3 DEF PlacesOK
  <2>5. QED
    BY <2>2, <2>3, <2>4 DEF PlacesOK
<1>2. ASSUME NEW r \in Req, Abort(r) PROVE PlacesOK'
  <2>1. /\ UNCHANGED <<waiting, order, expired, running, mini, finished, refused>>
        /\ forwarded' \subseteq ToSet(order) /\ aborted' \subseteq ToSet(order)
        /\ aborted \subseteq aborted'
    BY <1>0, <1>2 DEF Abort, batchVars, listVars
  <2>2. QED
    BY <2>1, SamePlaces
<1>3. CASE Expire
  <2>1. UNCHANGED <<waiting, order, running, mini, finished, refused, aborted, forwarded>>
    BY <1>3 DEF Expire, batchVars, listVars
  <2>2. ToSet(waiting') = ToSet(waiting) /\ ToSet(order') = ToSet(order)
    BY <2>1
  <2>3. 1..expired \subseteq 1..expired'
    <3>1. expired \in Int /\ expired' = expired + 1
      BY <1>3 DEF Expire, ControlOK, ListOK
    <3>2. QED
      BY <3>1
  <2>4. refused' \subseteq {order'[i] : i \in 1..expired'}
    BY <2>1, <2>3 DEF PlacesOK
  <2>5. QED
    BY <2>1, <2>2, <2>4 DEF PlacesOK
<1>4. CASE Wake
  <2>1. /\ UNCHANGED <<waiting, order, expired, running, mini, finished, refused>>
        /\ UNCHANGED <<aborted, forwarded>>
    BY <1>4 DEF Wake, batchVars, listVars
  <2>2. QED
    BY <1>0, <2>1, SamePlaces
<1>5. CASE DecodeStep
  <2>1. /\ UNCHANGED <<waiting, order, expired, running, mini, finished, refused>>
        /\ UNCHANGED <<aborted, forwarded>>
    BY <1>5 DEF DecodeStep, batchVars, listVars
  <2>2. QED
    BY <1>0, <2>1, SamePlaces
<1>6. CASE Admit
  <2>1. GoodBatch(NewBatch) /\ AdmitBatch(NewBatch)
    BY <1>6, AdmitIs
  <2>2. PICK b : b = NewBatch
    OBVIOUS
  <2>3. GoodBatch(b) /\ AdmitBatch(b)
    BY <2>1, <2>2
  <2> DEFINE new == ToSet(b.taken)
             left == ToSet(b.left)
  <2>4. /\ left \subseteq ToSet(waiting) /\ b.late \subseteq ToSet(waiting)
        /\ new \subseteq ToSet(waiting) /\ new \cap (left \cup b.late) = {}
        /\ ToSet(waiting) \subseteq left \cup new \cup aborted \cup b.late
        /\ b.late \subseteq {order[i] : i \in 1..expired}
    BY <2>3 DEF GoodBatch, Parts
  <2>5. /\ ToSet(waiting') = left /\ ToSet(order') = ToSet(order)
        /\ UNCHANGED <<finished, order, expired, forwarded>>
        /\ aborted' = aborted \cup b.late /\ refused' = refused \cup b.late
    BY <2>3 DEF AdmitBatch, SetList
  <2>6. /\ mini = {} /\ running' \cup mini' = running \cup new
        /\ running' \cap mini' = running \cap new \/ running' \cap mini' = {}
    BY <1>6, <2>3, AdmitBatches
  <2> HIDE DEF new, left
  <2>7. refused' \subseteq {order'[i] : i \in 1..expired'}
    BY <2>4, <2>5 DEF PlacesOK
  <2>8. running' \cap mini' = {}
    BY <2>4, <2>6 DEF PlacesOK
  <2>9. ToSet(waiting') \cap (running' \cup mini' \cup finished') = {}
    BY <2>4, <2>5, <2>6 DEF PlacesOK
  <2>10. running' \cap finished' = {} /\ mini' \cap finished' = {}
    BY <2>4, <2>5, <2>6 DEF PlacesOK
  <2>11. ToSet(order') \subseteq ToSet(waiting') \cup running' \cup mini' \cup finished' \cup aborted'
    BY <2>4, <2>5, <2>6 DEF PlacesOK
  <2>12. ToSet(waiting') \cup running' \cup mini' \cup finished' \cup aborted' \cup forwarded'
           \cup refused' \subseteq ToSet(order')
    BY <2>4, <2>5, <2>6 DEF PlacesOK
  <2>13. QED
    BY <2>7, <2>8, <2>9, <2>10, <2>11, <2>12 DEF PlacesOK
<1>7. ASSUME NEW F \in SUBSET running, FinishFirstPrefill(F) PROVE PlacesOK'
  BY <1>7, AnswerPlaces DEF FinishFirstPrefill
<1>8. ASSUME NEW F \in SUBSET running, FinishDecode(F) PROVE PlacesOK'
  BY <1>8, AnswerPlaces DEF FinishDecode
<1>9. ASSUME NEW F \in SUBSET mini, FinishMiniPrefill(F) PROVE PlacesOK'
  BY <1>9, AnswerPlaces DEF FinishMiniPrefill
<1>10. CASE Settled
  <2>1. /\ UNCHANGED <<waiting, order, expired, finished, refused, aborted, forwarded>>
        /\ running' = running \cup mini /\ mini' = {}
    BY <1>10 DEF Settled, listVars
  <2>2. ToSet(waiting') = ToSet(waiting) /\ ToSet(order') = ToSet(order)
    BY <2>1
  <2>3. refused' \subseteq {order'[i] : i \in 1..expired'}
    BY <2>1 DEF PlacesOK
  <2>4. QED
    BY <2>1, <2>2, <2>3 DEF PlacesOK
<1>11. CASE UNCHANGED vars
  <2>1. /\ UNCHANGED <<waiting, order, expired, running, mini, finished, refused>>
        /\ UNCHANGED <<aborted, forwarded>>
    BY <1>11 DEF vars, batchVars, listVars
  <2>2. QED
    BY <1>0, <2>1, SamePlaces
<1>12. QED
  BY <1>1, <1>2, <1>3, <1>4, <1>5, <1>6, <1>7, <1>8, <1>9, <1>10, <1>11 DEF Next, Forward

LEMMA AdmitKeepsStarted ==
  ASSUME ControlOK, PlacesOK, StartedOK, Admit
  PROVE  StartedOK'
<1>1. GoodBatch(NewBatch) /\ AdmitBatch(NewBatch)
  BY AdmitIs
<1>2. PICK b : b = NewBatch
  OBVIOUS
<1> DEFINE new == ToSet(b.taken)
<1>3. GoodBatch(b) /\ AdmitBatch(b)
  BY <1>1, <1>2
<1>4. /\ running' = (IF running = {} THEN new ELSE running)
      /\ mini' = (IF running = {} THEN {} ELSE new)
      /\ pc' = (IF new # {} THEN "prefill" ELSE IF running = {} THEN "sleep" ELSE "decode")
      /\ UNCHANGED <<outputs, finished>>
  BY <1>3 DEF AdmitBatch
<1>5. new \subseteq ToSet(waiting)
  BY <1>3 DEF GoodBatch, Parts
<1> HIDE DEF new
<1>6. pc = "top" /\ mini = {}
  BY DEF Admit, StartedOK
<1>7. ToSet(waiting) \in SUBSET Req /\ running \in SUBSET Req
  BY PlacesTyped
<1>8. \A r \in new : r \in Req /\ outputs[r] = 0 /\ 0 < max_output_len[r]
  <2>1. \A r \in new : r \in Req /\ r \notin running \cup mini \cup finished
    BY <1>5, <1>7 DEF PlacesOK
  <2>2. QED
    BY <2>1, RequestAssumption DEF StartedOK
<1>9. \A r \in running : outputs[r] # 0 /\ outputs[r] < max_output_len[r]
  BY <1>6 DEF StartedOK
<1>10. CASE running = {}
  BY <1>4, <1>6, <1>8, <1>10 DEF StartedOK
<1>11. CASE running # {}
  BY <1>4, <1>6, <1>8, <1>9, <1>11 DEF StartedOK
<1>12. QED
  BY <1>10, <1>11

LEMMA AnswerIs ==
  ASSUME StartedOK, NEW batch \in SUBSET Req, NEW F, Answer(batch, F)
  PROVE  /\ outputs' \in [Req -> Nat] /\ F \in SUBSET batch /\ finished' = finished \cup F
         /\ \A r \in batch : outputs'[r] = outputs[r] + 1 /\ outputs[r] \in Nat
         /\ \A r \in Req \ batch : outputs'[r] = outputs[r]
         /\ \A r \in batch \ F : outputs'[r] < max_output_len[r]
<1>1. outputs' = [r \in Req |-> IF r \in batch THEN outputs[r] + 1 ELSE outputs[r]]
  BY DEF Answer
<1>2. \A r \in Req : outputs[r] \in Nat /\ max_output_len[r] \in Nat
  BY RequestAssumption DEF StartedOK
<1>3. F \in SUBSET batch /\ \A r \in batch : outputs[r] + 1 >= max_output_len[r] => r \in F
  BY DEF Answer, MayFinish
<1>4. finished' = finished \cup F
  BY DEF Answer
<1>5. QED
  BY <1>1, <1>2, <1>3, <1>4

LEMMA StepKeepsStarted == ControlOK /\ PlacesOK /\ StartedOK /\ [Next]_vars => StartedOK'
<1> SUFFICES ASSUME ControlOK, PlacesOK, StartedOK, [Next]_vars PROVE StartedOK'
  OBVIOUS
<1>0. running \in SUBSET Req /\ mini \in SUBSET Req
  BY PlacesTyped
<1>1. ASSUME UNCHANGED <<outputs, running, mini, finished, pc>> PROVE StartedOK'
  BY <1>1 DEF StartedOK
<1>2. ASSUME NEW r \in Req, AddReq(r) \/ Abort(r) PROVE StartedOK'
  BY <1>1, <1>2 DEF AddReq, Abort, batchVars
<1>3. CASE Expire
  BY <1>1, <1>3 DEF Expire, batchVars
<1>4. CASE Wake \/ DecodeStep
  BY <1>4 DEF Wake, DecodeStep, batchVars, StartedOK
<1>5. CASE Admit
  BY <1>5, AdmitKeepsStarted
<1>6. ASSUME NEW F \in SUBSET running, FinishFirstPrefill(F) PROVE StartedOK'
  <2>1. /\ pc = "prefill" /\ mini = {} /\ mini' = {} /\ running' = running \ F
        /\ pc' \in {"top", "settle"} /\ Answer(running, F)
    BY <1>6 DEF FinishFirstPrefill
  <2>2. /\ outputs' \in [Req -> Nat] /\ finished' = finished \cup F
        /\ \A r \in running : outputs'[r] = outputs[r] + 1 /\ outputs[r] \in Nat
        /\ \A r \in Req \ running : outputs'[r] = outputs[r]
        /\ \A r \in running \ F : outputs'[r] < max_output_len[r]
    BY <1>0, <2>1, AnswerIs
  <2>3. \A r \in running : outputs'[r] # 0
    BY <2>2
  <2>4. QED
    BY <1>0, <2>1, <2>2, <2>3 DEF StartedOK
<1>7. ASSUME NEW F \in SUBSET mini, FinishMiniPrefill(F) PROVE StartedOK'
  <2>1. /\ pc = "prefill" /\ mini # {} /\ mini' = mini \ F /\ running' = running
        /\ pc' = "settle" /\ Answer(mini, F)
    BY <1>7 DEF FinishMiniPrefill
  <2>2. /\ outputs' \in [Req -> Nat] /\ finished' = finished \cup F
        /\ \A r \in mini : outputs'[r] = outputs[r] + 1 /\ outputs[r] \in Nat
        /\ \A r \in Req \ mini : outputs'[r] = outputs[r]
        /\ \A r \in mini \ F : outputs'[r] < max_output_len[r]
    BY <1>0, <2>1, AnswerIs
  <2>3. \A r \in mini : outputs'[r] # 0
    BY <2>2
  <2>4. \A r \in running : r \in Req \ mini
    BY <1>0 DEF PlacesOK
  <2>5. \A r \in running : outputs'[r] # 0 /\ outputs'[r] < max_output_len[r]
    BY <2>1, <2>2, <2>4 DEF StartedOK
  <2>6. QED
    BY <1>0, <2>1, <2>2, <2>3, <2>5 DEF StartedOK
<1>8. ASSUME NEW F \in SUBSET running, FinishDecode(F) PROVE StartedOK'
  <2>1. /\ pc = "decode" /\ mini' = mini /\ running' = running \ F
        /\ pc' \in {"top", "settle"} /\ Answer(running, F)
    BY <1>8 DEF FinishDecode
  <2>2. mini = {}
    BY <2>1 DEF StartedOK
  <2>3. /\ outputs' \in [Req -> Nat] /\ finished' = finished \cup F
        /\ \A r \in running : outputs'[r] = outputs[r] + 1 /\ outputs[r] \in Nat
        /\ \A r \in Req \ running : outputs'[r] = outputs[r]
        /\ \A r \in running \ F : outputs'[r] < max_output_len[r]
    BY <1>0, <2>1, AnswerIs
  <2>4. \A r \in running : outputs'[r] # 0
    BY <2>3
  <2>5. QED
    BY <1>0, <2>1, <2>2, <2>3, <2>4 DEF StartedOK
<1>9. CASE Settled
  <2>1. /\ pc = "settle" /\ running' = running \cup mini /\ mini' = {}
        /\ pc' \in {"sleep", "top"} /\ UNCHANGED <<outputs, finished>>
    BY <1>9 DEF Settled
  <2>2. QED
    BY <2>1 DEF StartedOK
<1>10. CASE UNCHANGED vars
  BY <1>1, <1>10 DEF vars, batchVars
<1>11. QED
  BY <1>2, <1>3, <1>4, <1>5, <1>6, <1>7, <1>8, <1>9, <1>10 DEF Next, Forward

RouterOK == ControlOK /\ PlacesOK /\ StartedOK

LEMMA InitOK == Init => RouterOK
<1> SUFFICES ASSUME Init PROVE RouterOK
  OBVIOUS
<1>1. /\ policy \in Policies /\ waiting = <<>> /\ req_time_stamp = <<>> /\ order = <<>>
      /\ apprx_req_rate = 1 /\ apprx_bs = 1 /\ last_req_num = 0 /\ expired = 0
      /\ running = {} /\ mini = {} /\ finished = {} /\ aborted = {} /\ forwarded = {}
      /\ refused = {} /\ pc = "top" /\ has_wait = 0
      /\ outputs = [r \in Req |-> 0] /\ merged = [c \in Client |-> 0]
  BY DEF Init, ListInit
<1> DEFINE none == <<>>
<1>2. /\ none \in Seq(Req) /\ none \in Seq(1..Len(none)) /\ Len(none) = 0
      /\ ToSet(none) = {} /\ Distinct(none)
  BY DEF ToSet, Distinct
<1>3. waiting = none /\ req_time_stamp = none /\ order = none
  BY <1>1
<1> HIDE DEF none
<1>4. TimesFit(req_time_stamp, waiting)
  BY <1>2, <1>3 DEF TimesFit, none
<1>5. ControlOK
  BY <1>1, <1>2, <1>3, <1>4, WaitAssumption DEF ControlOK, ListOK, Awaits
<1>6. PlacesOK
  BY <1>1, <1>2, <1>3 DEF PlacesOK
<1>7. StartedOK
  BY <1>1 DEF StartedOK
<1>8. QED
  BY <1>5, <1>6, <1>7 DEF RouterOK

LEMMA RouterAlways == Spec => []RouterOK
<1>1. RouterOK /\ [Next]_vars => RouterOK'
  BY StepKeepsControl, StepKeepsPlaces, StepKeepsStarted DEF RouterOK
<1>2. QED
  BY <1>1, InitOK, PTL DEF Spec

(* The types of the state.  Arrivals are distinct requests, so that the    *)
(* places in their order, which serve as times, are bounded.               *)
THEOREM ListTypes == Spec => []TypeOK
<1>1. RouterOK => TypeOK
  <2> SUFFICES ASSUME RouterOK PROVE TypeOK
    OBVIOUS
  <2> DEFINE n == Len(order)
             N == Cardinality(Req)
  <2>1. /\ order \in Seq(Req) /\ Distinct(order) /\ waiting \in Seq(Req)
        /\ TimesFit(req_time_stamp, waiting)
    BY DEF RouterOK, ControlOK, ListOK
  <2>2. n \in Nat /\ DOMAIN order = 1..n /\ order \in [1..n -> Req]
    BY <2>1, ListIs
  <2> HIDE DEF n
  <2>3. n <= N /\ N \in Nat
    <3> DEFINE I == 1..n
    <3>1. 1 \in Int /\ n \in Int
      BY <2>2
    <3>2. IsFiniteSet(1..n) /\ Cardinality(1..n) = IF 1 > n THEN 0 ELSE n - 1 + 1
      BY <3>1, FS_Interval
    <3>3. (IF 1 > n THEN 0 ELSE n - 1 + 1) = n
      BY <2>2
    <3>4. order \in [I -> Req] /\ \A i, j \in I : order[i] = order[j] => i = j
      BY <2>1, <2>2 DEF Distinct
    <3>5. Cardinality(I) = n
      BY <3>2, <3>3
    <3> HIDE DEF I
    <3>6. order \in Injection(I, Req)
      BY <3>4, Zenon DEF Injection, IsInjective
    <3>7. IsFiniteSet(Req)
      BY PartsFinite
    <3>8. Cardinality(I) <= Cardinality(Req)
      BY <3>6, <3>7, FS_Injection, Zenon
    <3>9. Cardinality(Req) \in Nat
      BY <3>7, FS_CardinalityType, Zenon
    <3>10. QED
      BY <3>5, <3>8, <3>9
  <2> HIDE DEF N
  <2> DEFINE T == 1..N
             m == Len(req_time_stamp)
  <2>4. req_time_stamp \in Seq(T)
    <3>1. CASE policy = "abort"
      <4>1. req_time_stamp \in Seq(1..n)
        BY <2>1, <3>1 DEF TimesFit, n
      <4> DEFINE K == 1..n
      <4>2. req_time_stamp \in Seq(K)
        BY <4>1
      <4> HIDE DEF K
      <4>21. m \in Nat /\ req_time_stamp \in [1..m -> K]
        BY <4>2
      <4>3. K \subseteq T
        BY <2>2, <2>3 DEF K
      <4> HIDE DEF T, m
      <4>4. req_time_stamp \in [1..m -> T]
        BY <4>21, <4>3
      <4>5. QED
        BY <4>21, <4>4, MakesList
    <3>2. CASE policy # "abort"
      <4>1. req_time_stamp = <<>>
        BY <2>1, <3>2 DEF TimesFit
      <4> HIDE DEF T
      <4>2. QED
        BY <4>1
    <3>3. QED
      BY <3>1, <3>2
  <2>5. policy = "abort" => Len(req_time_stamp) = Len(waiting)
    BY <2>1 DEF TimesFit
  <2>6. running \cup mini \cup finished \cup aborted \cup forwarded \cup refused \subseteq ToSet(order)
    BY DEF RouterOK, PlacesOK
  <2>7. QED
    BY <2>4, <2>5, <2>6 DEF RouterOK, ControlOK, ListOK, StartedOK, TypeOK, T, N
<1>2. QED
  BY <1>1, RouterAlways, PTL

(* AbortReqQueue gives up a request only when that request's own time is   *)
(* up, and its list of time stamps stays aligned with its list of          *)
(* requests, whichever of both comprehensions cut first.                   *)
THEOREM TimesStayAligned == Spec => []OwnTimeStamp
<1>1. RouterOK => OwnTimeStamp
  <2> SUFFICES ASSUME RouterOK PROVE OwnTimeStamp
    OBVIOUS
  <2>1. waiting \in Seq(Req) /\ TimesFit(req_time_stamp, waiting)
    BY DEF RouterOK, ControlOK, ListOK
  <2>2. DOMAIN waiting = 1..Len(waiting)
    BY <2>1, ListIs
  <2>3. policy = "abort" => \A i \in DOMAIN waiting : order[req_time_stamp[i]] = waiting[i]
    BY <2>1, <2>2 DEF TimesFit
  <2>4. QED
    BY <2>3 DEF RouterOK, PlacesOK, OwnTimeStamp
<1>2. QED
  BY <1>1, RouterAlways, PTL

-----------------------------------------------------------------------------
(* The peaks of everybody in a batch fit.                                  *)
FitsOK ==
  /\ PeaksFit(outputs, running \cup mini)
  /\ Cardinality(running \cup mini) <= running_max_req_size

LEMMA SameFits ==
  ASSUME FitsOK, outputs' = outputs, running' \cup mini' = running \cup mini
  PROVE  FitsOK'
<1> DEFINE B == running \cup mini
           B2 == running' \cup mini'
<1>1. PeaksFit(outputs, B) /\ Cardinality(B) <= running_max_req_size
  BY DEF FitsOK
<1>2. B2 = B
  OBVIOUS
<1> HIDE DEF B, B2
<1>3. PeaksFit(outputs', B2) /\ Cardinality(B2) <= running_max_req_size
  BY <1>1, <1>2, Zenon
<1>4. QED
  BY <1>3 DEF FitsOK, B2

LEMMA FewerFit ==
  ASSUME FitsOK, NEW A, NEW B, B = running \cup mini, A \in SUBSET B, B \in SUBSET Req,
         running' \cup mini' = A, PeaksFit(outputs', A)
  PROVE  FitsOK'
<1>1. Cardinality(B) <= running_max_req_size
  BY Zenon DEF FitsOK
<1>2. IsFiniteSet(B) /\ Cardinality(B) \in Nat
  BY PartsFinite
<1>3. Cardinality(A) \in Nat /\ Cardinality(A) <= Cardinality(B)
  <2>1. A \in SUBSET Req
    OBVIOUS
  <2>2. QED
    BY <1>2, <2>1, PartsFinite, FS_Subset
<1>4. Cardinality(A) <= running_max_req_size
  BY <1>1, <1>2, <1>3, LimitAssumption
<1>5. QED
  BY <1>4, Zenon DEF FitsOK

LEMMA AdmitKeepsFits ==
  ASSUME ControlOK, PlacesOK, StartedOK, FitsOK, Admit
  PROVE  FitsOK'
<1>1. GoodBatch(NewBatch) /\ AdmitBatch(NewBatch)
  BY AdmitIs
<1>2. PICK b : b = NewBatch
  OBVIOUS
<1> DEFINE T == ToSet(b.taken)
<1>3. GoodBatch(b) /\ AdmitBatch(b)
  BY <1>1, <1>2
<1>4. mini = {} /\ running' \cup mini' = running \cup T /\ outputs' = outputs /\ pc = "top"
  BY <1>3, AdmitBatches DEF AdmitBatch, Admit
<1>5. T \subseteq ToSet(waiting) /\ Fitting(T)
  BY <1>3 DEF GoodBatch, Parts
<1> HIDE DEF T
<1>6. CASE T = {}
  <2>1. running' \cup mini' = running \cup mini
    BY <1>4, <1>6
  <2>2. QED
    BY <1>4, <2>1, SameFits
<1>7. CASE T # {}
  <2>1. PICK j \in Seq(Req) : T \subseteq ToSet(j) /\ CanAdd(j)
    BY <1>5, <1>7 DEF Fitting
  <2>2. ToSet(waiting) \in SUBSET Req /\ running \in SUBSET Req
    BY PlacesTyped
  <2>3. \A r \in T : outputs[r] = 0
    <3>1. \A r \in T : r \in Req /\ r \notin running \cup mini \cup finished
      BY <1>5, <2>2 DEF PlacesOK
    <3>2. QED
      BY <3>1 DEF StartedOK
  <2>4. outputs \in [Req -> Nat] /\ \A r \in running : outputs[r] # 0 /\ outputs[r] < max_output_len[r]
    BY <1>4 DEF StartedOK
  <2>5. PeaksFit(outputs, running \cup T) /\ Cardinality(running \cup T) <= running_max_req_size
    BY <1>7, <2>1, <2>2, <2>3, <2>4, ListCovers
  <2> DEFINE A == running \cup T
             B2 == running' \cup mini'
  <2>6. B2 = A
    BY <1>4
  <2>7. PeaksFit(outputs, A) /\ Cardinality(A) <= running_max_req_size
    BY <2>5
  <2> HIDE DEF A, B2
  <2>8. PeaksFit(outputs', B2) /\ Cardinality(B2) <= running_max_req_size
    BY <1>4, <2>6, <2>7, Zenon
  <2>9. QED
    BY <2>8 DEF FitsOK, B2
<1>8. QED
  BY <1>6, <1>7

LEMMA StepKeepsFits == RouterOK /\ FitsOK /\ [Next]_vars => FitsOK'
<1> SUFFICES ASSUME RouterOK, FitsOK, [Next]_vars PROVE FitsOK'
  OBVIOUS
<1> DEFINE B == running \cup mini
           A == running' \cup mini'
<1>0. /\ ControlOK /\ PlacesOK /\ StartedOK /\ outputs \in [Req -> Nat]
      /\ running \in SUBSET Req /\ mini \in SUBSET Req /\ B \in SUBSET Req
      /\ PeaksFit(outputs, B)
  BY PlacesTyped DEF RouterOK, StartedOK, FitsOK
<1>1. CASE Admit
  BY <1>0, <1>1, AdmitKeepsFits
<1>2. ASSUME NEW r \in Req, AddReq(r) \/ Abort(r) PROVE FitsOK'
  BY <1>2, SameFits DEF AddReq, Abort, batchVars
<1>3. CASE Expire \/ Wake \/ DecodeStep
  BY <1>3, SameFits DEF Expire, Wake, DecodeStep, batchVars
<1>4. CASE Settled
  BY <1>4, SameFits DEF Settled
<1>5. CASE UNCHANGED vars
  BY <1>5, SameFits DEF vars, batchVars
<1>6. ASSUME NEW F \in SUBSET running, FinishFirstPrefill(F) PROVE FitsOK'
  <2>1. /\ pc = "prefill" /\ mini = {} /\ mini' = {} /\ running' = running \ F
        /\ Answer(running, F)
    BY <1>6 DEF FinishFirstPrefill
  <2>2. /\ outputs' \in [Req -> Nat]
        /\ \A r \in running : outputs'[r] = outputs[r] + 1 /\ outputs[r] \in Nat
    BY <1>0, <2>1, AnswerIs
  <2>3. A \in SUBSET B /\ A \subseteq running
    BY <2>1
  <2>4. \A r \in A : outputs[r] = 0 /\ outputs'[r] = 1
    BY <1>0, <2>1, <2>2, <2>3 DEF StartedOK
  <2> HIDE DEF A, B
  <2>5. PeaksFit(outputs', A)
    BY <1>0, <2>2, <2>3, <2>4, FirstTokensFit
  <2>6. QED
    BY <1>0, <2>3, <2>5, FewerFit DEF A, B
<1>7. ASSUME NEW F \in SUBSET mini, FinishMiniPrefill(F) PROVE FitsOK'
  <2>1. /\ pc = "prefill" /\ mini # {} /\ mini' = mini \ F /\ running' = running
        /\ Answer(mini, F)
    BY <1>7 DEF FinishMiniPrefill
  <2>2. /\ outputs' \in [Req -> Nat]
        /\ \A r \in mini : outputs'[r] = outputs[r] + 1 /\ outputs[r] \in Nat
        /\ \A r \in Req \ mini : outputs'[r] = outputs[r]
    BY <1>0, <2>1, AnswerIs
  <2>3. A \in SUBSET B /\ \A r \in A : r \in Req \ mini \/ r \in mini
    BY <1>0, <2>1
  <2>4. \A r \in A : outputs'[r] = outputs[r] \/ (outputs[r] = 0 /\ outputs'[r] = 1)
    BY <1>0, <2>1, <2>2, <2>3 DEF StartedOK
  <2> HIDE DEF A, B
  <2>5. PeaksFit(outputs', A)
    BY <1>0, <2>2, <2>3, <2>4, FirstTokensFit
  <2>6. QED
    BY <1>0, <2>3, <2>5, FewerFit DEF A, B
<1>8. ASSUME NEW F \in SUBSET running, FinishDecode(F) PROVE FitsOK'
  <2>1. /\ pc = "decode" /\ mini' = mini /\ running' = running \ F /\ Answer(running, F)
    BY <1>8 DEF FinishDecode
  <2>2. mini = {}
    BY <1>0, <2>1 DEF StartedOK
  <2>3. /\ outputs' \in [Req -> Nat]
        /\ \A r \in running : outputs'[r] = outputs[r] + 1 /\ outputs[r] \in Nat
    BY <1>0, <2>1, AnswerIs
  <2>4. A \in SUBSET B /\ A \subseteq running
    BY <2>1, <2>2
  <2>5. \A r \in A : outputs[r] # 0 /\ outputs'[r] = outputs[r] + 1
    BY <1>0, <2>1, <2>3, <2>4 DEF StartedOK
  <2> HIDE DEF A, B
  <2>6. PeaksFit(outputs', A)
    BY <1>0, <2>3, <2>4, <2>5, NextTokensFit
  <2>7. QED
    BY <1>0, <2>4, <2>6, FewerFit DEF A, B
<1>9. QED
  BY <1>1, <1>2, <1>3, <1>4, <1>5, <1>6, <1>7, <1>8 DEF Next, Forward

(* The pool holds every batch at every step, under each of the five        *)
(* schedulers: although ClusterReqQueue admits after a refusal with the    *)
(* refused request still in its cache list, a request may be judged twice, *)
(* and PETS and the abort queue take requests in orders of their own.      *)
THEOREM ListsAreSafe == ASSUME Req # {} PROVE Spec => []BatchFits
<1>1. Init => FitsOK
  <2> SUFFICES ASSUME Init PROVE FitsOK
    OBVIOUS
  <2>1. outputs \in [Req -> Nat] /\ running \cup mini = {}
    BY DEF Init
  <2>2. PeaksFit(outputs, {}) /\ Cardinality({}) = 0
    BY <2>1, NobodyFits, FS_EmptySet
  <2> DEFINE none == {}
  <2>3. PeaksFit(outputs, none) /\ Cardinality(none) <= running_max_req_size
    BY <2>2, LimitAssumption
  <2>4. running \cup mini = none
    BY <2>1
  <2> HIDE DEF none
  <2>5. QED
    BY <2>3, <2>4, Zenon DEF FitsOK
<1>2. RouterOK /\ FitsOK => BatchFits
  <2> SUFFICES ASSUME RouterOK, FitsOK PROVE BatchFits
    OBVIOUS
  <2> DEFINE B == running \cup mini
  <2>1. ControlOK /\ PlacesOK /\ StartedOK
    BY DEF RouterOK
  <2>2. B \in SUBSET Req /\ outputs \in [Req -> Nat] /\ PeaksFit(outputs, B)
    BY <2>1, PlacesTyped DEF StartedOK, FitsOK
  <2>3. ASSUME NEW r \in B PROVE LeftOut(outputs, r) >= 0
    <3>1. r \in Req /\ outputs[r] < max_output_len[r]
      BY <2>1, <2>2 DEF StartedOK
    <3>2. max_output_len[r] \in Nat /\ outputs[r] \in Nat
      BY <2>2, <3>1, RunNat
    <3>3. QED
      BY <3>1, <3>2 DEF LeftOut
  <2> HIDE DEF B
  <2>4. TokensHeld(B, outputs) + AdapterSize(B) < max_total_tokens
    BY <2>2, <2>3, HeldIsPeak
  <2>5. QED
    BY <2>4 DEF BatchFits, FitsOK, B
<1>3. RouterOK /\ FitsOK /\ [Next]_vars => FitsOK'
  BY StepKeepsFits
<1>4. QED
  BY <1>1, <1>2, <1>3, RouterAlways, PTL DEF Spec

-----------------------------------------------------------------------------
(* How often a request waits, and in how many batches it is.               *)
Waits(r) == {i \in DOMAIN waiting : waiting[i] = r}
Batches(r) == {k \in 1..3 : r \in <<running, mini, finished>>[k]}

LEMMA WaitsOnce ==
  ASSUME ControlOK, NEW r
  PROVE  Cardinality(Waits(r)) = IF r \in ToSet(waiting) THEN 1 ELSE 0
<1>1. waiting \in Seq(Req) /\ Distinct(waiting)
  BY DEF ControlOK, ListOK
<1>2. CASE r \in ToSet(waiting)
  <2>1. PICK i \in DOMAIN waiting : waiting[i] = r
    BY <1>1, <1>2 DEF ToSet
  <2>2. Waits(r) = {i}
    BY <1>1, <2>1 DEF Waits, Distinct
  <2>3. QED
    BY <1>2, <2>2, FS_Singleton
<1>3. CASE r \notin ToSet(waiting)
  <2>1. Waits(r) = {}
    BY <1>3 DEF Waits, ToSet
  <2>2. QED
    BY <1>3, <2>1, FS_EmptySet
<1>4. QED
  BY <1>2, <1>3

LEMMA InOneBatch ==
  ASSUME PlacesOK, NEW r
  PROVE  Cardinality(Batches(r)) = IF r \in running \cup mini \cup finished THEN 1 ELSE 0
<1> DEFINE at == <<running, mini, finished>>
<1>1. at[1] = running /\ at[2] = mini /\ at[3] = finished
  OBVIOUS
<1>2. Batches(r) = {k \in 1..3 : r \in at[k]}
  BY DEF Batches
<1>3. 1 \in 1..3 /\ 2 \in 1..3 /\ 3 \in 1..3 /\ \A k \in 1..3 : k = 1 \/ k = 2 \/ k = 3
  OBVIOUS
<1> HIDE DEF at
<1>4. CASE r \in running
  <2>1. Batches(r) = {1}
    BY <1>1, <1>2, <1>3, <1>4 DEF PlacesOK
  <2>2. QED
    BY <1>4, <2>1, FS_Singleton
<1>5. CASE r \in mini
  <2>1. Batches(r) = {2}
    BY <1>1, <1>2, <1>3, <1>5 DEF PlacesOK
  <2>2. QED
    BY <1>5, <2>1, FS_Singleton
<1>6. CASE r \in finished
  <2>1. Batches(r) = {3}
    BY <1>1, <1>2, <1>3, <1>6 DEF PlacesOK
  <2>2. QED
    BY <1>6, <2>1, FS_Singleton
<1>7. CASE r \notin running \cup mini \cup finished
  <2>1. Batches(r) = {}
    BY <1>1, <1>2, <1>3, <1>7
  <2>2. QED
    BY <1>7, <2>1, FS_EmptySet
<1>8. QED
  BY <1>4, <1>5, <1>6, <1>7

(* Whichever way a scheduler cuts its list, a request that arrived is in   *)
(* one place, once, or was aborted and dropped.                            *)
THEOREM NoListLoses == Spec => []NoRequestLost
<1>1. RouterOK => NoRequestLost
  <2> SUFFICES ASSUME RouterOK, NEW r \in ToSet(order)
               PROVE  \/ Cardinality(Waits(r)) + Cardinality(Batches(r)) = 1
                      \/ /\ Cardinality(Waits(r)) + Cardinality(Batches(r)) = 0
                         /\ r \in aborted
    BY DEF NoRequestLost, Waits, Batches
  <2>1. ControlOK /\ PlacesOK
    BY DEF RouterOK
  <2>2. Cardinality(Waits(r)) = IF r \in ToSet(waiting) THEN 1 ELSE 0
    BY <2>1, WaitsOnce
  <2>3. Cardinality(Batches(r)) = IF r \in running \cup mini \cup finished THEN 1 ELSE 0
    BY <2>1, InOneBatch
  <2>4. /\ r \in ToSet(waiting) => r \notin running \cup mini \cup finished
        /\ r \in ToSet(waiting) \cup running \cup mini \cup finished \cup aborted
    BY <2>1 DEF PlacesOK
  <2>5. QED
    BY <2>2, <2>3, <2>4
<1>2. QED
  BY <1>1, RouterAlways, PTL

-----------------------------------------------------------------------------
StopsAborted ==
  \A r \in aborted : /\ outputs'[r] # outputs[r] => r \in finished'
                     /\ r \in running' \cup mini' => r \in running \cup mini

LEMMA AnswerStops ==
  ASSUME RouterOK, NEW batch \in SUBSET Req, NEW F, Answer(batch, F),
         running' \subseteq running, mini' \subseteq mini
  PROVE  StopsAborted
<1>1. aborted \in SUBSET Req /\ StartedOK
  BY PlacesTyped DEF RouterOK
<1>2. /\ \A r \in Req \ batch : outputs'[r] = outputs[r]
      /\ finished' = finished \cup F
  BY <1>1, AnswerIs
<1>3. \A r \in batch : r \in aborted => r \in F
  BY DEF Answer, MayFinish
<1>4. QED
  BY <1>1, <1>2, <1>3 DEF StopsAborted

LEMMA StepStopsAborted == RouterOK /\ [Next]_vars => StopsAborted
<1> SUFFICES ASSUME RouterOK, [Next]_vars PROVE StopsAborted
  OBVIOUS
<1>0. running \in SUBSET Req /\ mini \in SUBSET Req
  BY PlacesTyped DEF RouterOK
<1>1. ASSUME UNCHANGED outputs, running' \cup mini' = running \cup mini PROVE StopsAborted
  BY <1>1 DEF StopsAborted
<1>2. ASSUME NEW r \in Req, AddReq(r) \/ Abort(r) PROVE StopsAborted
  BY <1>1, <1>2 DEF AddReq, Abort, batchVars
<1>3. CASE Expire \/ Wake \/ DecodeStep
  BY <1>1, <1>3 DEF Expire, Wake, DecodeStep, batchVars
<1>4. CASE Admit
  <2>1. ControlOK /\ StartedOK
    BY DEF RouterOK
  <2>2. GoodBatch(NewBatch) /\ AdmitBatch(NewBatch)
    BY <1>4, <2>1, AdmitIs
  <2>3. PICK b : b = NewBatch
    OBVIOUS
  <2>4. GoodBatch(b) /\ AdmitBatch(b)
    BY <2>2, <2>3
  <2>5. /\ running' \cup mini' = running \cup ToSet(b.taken) /\ outputs' = outputs
        /\ ToSet(b.taken) \cap aborted = {}
    BY <1>4, <2>1, <2>4, AdmitBatches DEF AdmitBatch, GoodBatch, Parts
  <2>6. QED
    BY <2>5 DEF StopsAborted
<1>5. CASE Settled
  BY <1>1, <1>5 DEF Settled
<1>6. CASE UNCHANGED vars
  BY <1>1, <1>6 DEF vars, batchVars
<1>7. ASSUME NEW F \in SUBSET running, FinishFirstPrefill(F) \/ FinishDecode(F) PROVE StopsAborted
  <2>1. Answer(running, F) /\ running' \subseteq running /\ mini' = mini
    BY <1>7 DEF FinishFirstPrefill, FinishDecode
  <2>2. QED
    BY <1>0, <2>1, AnswerStops
<1>8. ASSUME NEW F \in SUBSET mini, FinishMiniPrefill(F) PROVE StopsAborted
  <2>1. Answer(mini, F) /\ running' = running /\ mini' \subseteq mini
    BY <1>8 DEF FinishMiniPrefill
  <2>2. QED
    BY <1>0, <2>1, AnswerStops
<1>9. QED
  BY <1>2, <1>3, <1>4, <1>5, <1>6, <1>7, <1>8 DEF Next, Forward

(* An aborted request gets at most the token that was under way, and no    *)
(* scheduler puts it in a batch afterwards, from either end of its list.   *)
THEOREM ListAbortsStop == Spec => AbortedStops
<1>1. RouterOK /\ [Next]_vars => [StopsAborted]_vars
  BY StepStopsAborted
<1>2. QED
  BY <1>1, RouterAlways, PTL DEF Spec, AbortedStops, StopsAborted

-----------------------------------------------------------------------------
(* The cost of a split.  s holds the ends of its groups.                   *)
EndBefore(s, j) == Max({i \in s : i < j} \cup {0})
Start(s, j) == EndBefore(s, j) + 1
GroupCosts(s, latency) == [j \in s |-> At(latency, Start(s, j), j)]

LEMMA StartIs ==
  ASSUME NEW n \in Nat, NEW s \in SUBSET (1..n), NEW j \in 1..n
  PROVE  /\ Start(s, j) \in 1..j
         /\ EndBefore(s, j) \in {i \in s : i < j} \cup {0}
         /\ \A i \in s : i < j => i <= EndBefore(s, j)
<1> DEFINE B == {i \in s : i < j} \cup {0}
           I == 0..n
<1>1. B \in SUBSET I /\ B \in SUBSET Nat /\ 0 \in B
  <2>1. \A i \in s : i \in 0..n /\ i \in Nat
    OBVIOUS
  <2>2. 0 \in 0..n /\ 0 \in Nat
    OBVIOUS
  <2>3. QED
    BY <2>1, <2>2
<1>2. IsFiniteSet(I)
  <2>1. 0 \in Int /\ n \in Int
    OBVIOUS
  <2>2. QED
    BY <2>1, FS_Interval
<1>3. EndBefore(s, j) = Max(B)
  BY DEF EndBefore
<1> HIDE DEF B, I
<1>4. IsFiniteSet(B) /\ B # {}
  BY <1>1, <1>2, FS_Subset
<1>5. Max(B) \in B /\ \A y \in B : y <= Max(B)
  BY <1>1, <1>4, GreatestNumber
<1>6. Start(s, j) = Max(B) + 1
  BY <1>3 DEF Start
<1>7. \A i \in s : i < j => i <= EndBefore(s, j)
  BY <1>3, <1>5 DEF B
<1>8. EndBefore(s, j) \in {i \in s : i < j} \cup {0}
  BY <1>3, <1>5 DEF B
<1>9. Start(s, j) \in 1..j
  <2>1. 0 < j /\ \A i \in s : i \in Nat
    OBVIOUS
  <2>2. \A e \in {i \in s : i < j} \cup {0} : e \in Nat /\ e < j
    BY <2>1
  <2>3. EndBefore(s, j) \in Nat /\ EndBefore(s, j) < j
    BY <1>8, <2>2
  <2>4. QED
    BY <2>3 DEF Start
<1>10. QED
  BY <1>7, <1>8, <1>9

(* Nothing but the ends before j matters,                                  *)
LEMMA SameStart ==
  ASSUME NEW n \in Nat, NEW s \in SUBSET (1..n), NEW t \in SUBSET (1..n), NEW j \in 1..n,
         \A i \in 1..n : i < j => (i \in s <=> i \in t)
  PROVE  Start(s, j) = Start(t, j)
<1>1. {i \in s : i < j} = {i \in t : i < j}
  OBVIOUS
<1>2. QED
  BY <1>1, Zenon DEF Start, EndBefore

LEMMA SplitCostIs ==
  ASSUME NEW n \in Nat, NEW latency, HasLatencies(n, latency), NEW s \in SUBSET (1..n)
  PROVE  /\ IsFiniteSet(s)
         /\ \A j \in s : GroupCosts(s, latency)[j] \in Costs
         /\ (\E j \in s : GroupCosts(s, latency)[j] = Inf) => SplitCost(s, latency) = Inf
         /\ ~(\E j \in s : GroupCosts(s, latency)[j] = Inf) =>
              /\ GroupCosts(s, latency) \in [s -> Int]
              /\ SplitCost(s, latency) = SumOver(GroupCosts(s, latency), s)
<1> DEFINE f == GroupCosts(s, latency)
           h == CHOOSE k : k = [u \in SUBSET s |->
                  IF u = {} THEN 0
                  ELSE latency[Start(s, Some(u))][Some(u)] + k[u \ {Some(u)}]]
           I == 1..n
<1>1. IsFiniteSet(s)
  <2>1. IsFiniteSet(I)
    BY FirstNumbers
  <2>2. s \in SUBSET I
    OBVIOUS
  <2> HIDE DEF I
  <2>3. QED
    BY <2>1, <2>2, FS_Subset
<1>2. \A j \in s : f[j] = At(latency, Start(s, j), j) /\ f[j] = latency[Start(s, j)][j]
  BY Zenon DEF GroupCosts, At
<1>3. ASSUME NEW j \in s PROVE f[j] \in Costs
  <2>1. j \in 1..n /\ Start(s, j) \in 1..j
    BY StartIs
  <2>2. QED
    BY <1>2, <2>1, Zenon DEF HasLatencies
<1>4. (\E j \in s : f[j] = Inf) <=> (\E j \in s : latency[Start(s, j)][j] = Inf)
  BY <1>2, Zenon
<1>5. (\E j \in s : f[j] = Inf) => SplitCost(s, latency) = Inf
  BY <1>4, Zenon DEF SplitCost, Start, EndBefore
<1>6. ASSUME ~(\E j \in s : f[j] = Inf)
      PROVE  f \in [s -> Int] /\ SplitCost(s, latency) = SumOver(f, s)
  <2>1. \A j \in s : f[j] \in Int
    BY <1>3, <1>6 DEF Costs
  <2>2. f = [j \in s |-> f[j]]
    BY Zenon DEF GroupCosts
  <2> HIDE DEF f
  <2>3. f \in [s -> Int]
    BY <2>1, <2>2
  <2>4. SplitCost(s, latency) = h[s]
    BY <1>4, <1>6, Zenon DEF SplitCost, Start, EndBefore, MapThenSumSet, MapThenFoldSet, Some
  <2>5. Summable(Int)
    BY NumbersSummable
  <2>6. PICK k : IsFold(k, f, s)
    BY <1>1, <2>3, <2>5, FoldExistsIn
  <2>7. \A u \in SUBSET s : u # {} => f[Some(u)] = latency[Start(s, Some(u))][Some(u)]
    <3>1. \A u \in SUBSET s : u # {} => Some(u) \in s
      BY DEF Some
    <3>2. QED
      BY <1>2, <3>1, Zenon
  <2>8. k = [u \in SUBSET s |->
               IF u = {} THEN 0
               ELSE latency[Start(s, Some(u))][Some(u)] + k[u \ {Some(u)}]]
    BY <2>6, <2>7 DEF IsFold, Step
  <2>9. h = [u \in SUBSET s |->
               IF u = {} THEN 0
               ELSE latency[Start(s, Some(u))][Some(u)] + h[u \ {Some(u)}]]
    BY <2>8
  <2> HIDE DEF h
  <2>10. IsFold(h, f, s)
    BY <2>7, <2>9 DEF IsFold, Step
  <2>11. h[s] = SumOver(f, s)
    BY <1>1, <2>3, <2>5, <2>10, FoldComputesIn
  <2>12. QED
    BY <2>3, <2>4, <2>11
<1>7. QED
  BY <1>1, <1>3, <1>5, <1>6

(* so a group after the last one adds its own cost.                        *)
LastEnd(s) == Max(s \cup {0})

LEMMA CutCost ==
  ASSUME NEW n \in Nat, NEW latency, HasLatencies(n, latency), NEW m \in 1..n,
         NEW s \in SUBSET (1..m - 1)
  PROVE  /\ LastEnd(s) \in s \cup {0} /\ LastEnd(s) \in 0..m - 1
         /\ \A i \in s : i <= LastEnd(s)
         /\ At(latency, LastEnd(s) + 1, m) \in Costs
         /\ SplitCost(s, latency) \in Costs
         /\ SplitCost(s \cup {m}, latency)
              = Plus(SplitCost(s, latency), At(latency, LastEnd(s) + 1, m))
<1> DEFINE t == s \cup {m}
           F == GroupCosts(t, latency)
           G == GroupCosts(s, latency)
           x == At(latency, LastEnd(s) + 1, m)
<1>1. ASSUME NEW i \in s PROVE i \in 1..n /\ i < m /\ i \in Nat
  <2>1. i \in 1..m - 1 /\ m \in Nat /\ m <= n
    OBVIOUS
  <2>2. QED
    BY <2>1
<1>2. t \in SUBSET (1..n) /\ s \in SUBSET (1..n) /\ m \in t
  <2>1. m \in 1..n /\ \A i \in s : i \in 1..n
    BY <1>1
  <2>2. QED
    BY <2>1
<1>3. {i \in t : i < m} = s /\ t \ {m} = s
  <2>1. ~(m < m) /\ \A i \in s : i < m
    BY <1>1
  <2>2. m \notin s
    BY <2>1
  <2>3. QED
    BY <2>1, <2>2
<1>4. EndBefore(t, m) = LastEnd(s)
  <2> HIDE DEF t
  <2>1. QED
    BY <1>3, Zenon DEF EndBefore, LastEnd
<1>5. /\ Start(t, m) \in 1..m /\ LastEnd(s) \in s \cup {0}
      /\ \A i \in s : i <= LastEnd(s)
  <2> HIDE DEF t
  <2>1. /\ Start(t, m) \in 1..m /\ EndBefore(t, m) \in {i \in t : i < m} \cup {0}
        /\ \A i \in t : i < m => i <= EndBefore(t, m)
    BY <1>2, StartIs
  <2>2. \A i \in s : i \in t /\ i < m
    BY <1>3
  <2>3. QED
    BY <1>3, <1>4, <2>1, <2>2
<1>6. LastEnd(s) \in 0..m - 1
  <2>1. 0 \in 0..m - 1 /\ \A i \in s : i \in 0..m - 1
    OBVIOUS
  <2>2. QED
    BY <1>5, <2>1
<1>7. Start(t, m) = LastEnd(s) + 1
  BY <1>4 DEF Start
<1>8. x \in Costs
  BY <1>5, <1>7, Zenon DEF HasLatencies
<1>9. ASSUME NEW j \in s PROVE F[j] = G[j]
  <2>1. \A i \in 1..n : i < j => (i \in s <=> i \in t)
    BY <1>1
  <2>2. Start(s, j) = Start(t, j)
    <3> HIDE DEF t
    <3>1. QED
      BY <1>1, <1>2, <2>1, SameStart
  <2>3. QED
    BY <2>2, Zenon DEF GroupCosts
<1>10. F[m] = x
  BY <1>2, <1>7, Zenon DEF GroupCosts
<1> HIDE DEF t
<1>11. /\ IsFiniteSet(t)
       /\ (\E j \in t : F[j] = Inf) => SplitCost(t, latency) = Inf
       /\ ~(\E j \in t : F[j] = Inf) => F \in [t -> Int] /\ SplitCost(t, latency) = SumOver(F, t)
  BY <1>2, SplitCostIs
<1>12. /\ IsFiniteSet(s)
       /\ (\E j \in s : G[j] = Inf) => SplitCost(s, latency) = Inf
       /\ ~(\E j \in s : G[j] = Inf) => G \in [s -> Int] /\ SplitCost(s, latency) = SumOver(G, s)
  BY <1>2, SplitCostIs
<1> HIDE DEF F, G, x
<1>13. Summable(Int)
  BY NumbersSummable
<1>14. CASE \E j \in s : G[j] = Inf
  <2>1. \E j \in t : F[j] = Inf
    BY <1>3, <1>9, <1>14
  <2>2. SplitCost(t, latency) = Inf /\ SplitCost(s, latency) = Inf
    BY <1>11, <1>12, <1>14, <2>1
  <2>3. Plus(Inf, x) = Inf /\ Inf \in Costs
    BY DEF Plus, Costs
  <2>4. SplitCost(t, latency) = Plus(SplitCost(s, latency), x) /\ SplitCost(s, latency) \in Costs
    BY <2>2, <2>3
  <2>5. QED
    BY <1>5, <1>6, <1>8, <2>4 DEF t, x
<1>15. CASE ~(\E j \in s : G[j] = Inf)
  <2>1. G \in [s -> Int] /\ SplitCost(s, latency) = SumOver(G, s)
    BY <1>12, <1>15
  <2>2. SumOver(G, s) \in Int
    <3>1. s \in SUBSET s
      OBVIOUS
    <3>2. QED
      BY <1>12, <2>1, <3>1, SumIntIs
  <2>3. CASE x = Inf
    <3>1. SplitCost(t, latency) = Inf
      BY <1>2, <1>10, <1>11, <2>3
    <3>2. Plus(SumOver(G, s), x) = Inf
      BY <2>3 DEF Plus
    <3>3. QED
      BY <1>5, <1>6, <1>8, <2>1, <2>2, <3>1, <3>2 DEF t, x, Costs
  <2>4. CASE x # Inf
    <3>1. ~(\E j \in t : F[j] = Inf)
      BY <1>3, <1>9, <1>10, <1>15, <2>4
    <3>2. F \in [t -> Int] /\ SplitCost(t, latency) = SumOver(F, t)
      BY <1>11, <3>1
    <3>3. TakesOut(F, t)
      BY <1>11, <1>13, <3>2, SumTakeIn
    <3>4. t \in SUBSET t
      OBVIOUS
    <3>5. SumOver(F, t) = F[m] + SumOver(F, t \ {m})
      BY <1>2, <3>3, <3>4, Zenon DEF TakesOut
    <3>6. s \in SUBSET t /\ \A j \in s : G[j] = F[j]
      BY <1>3, <1>9
    <3>7. SumOver(G, s) = SumOver(F, s)
      <4>1. SameSum(G, F, s)
        BY <1>11, <1>13, <2>1, <3>2, <3>6, SameSumIn
      <4>2. QED
        BY <4>1 DEF SameSum
    <3>8. SplitCost(t, latency) = x + SumOver(G, s)
      BY <1>3, <1>10, <3>2, <3>5, <3>7
    <3>9. x \in Int /\ SumOver(G, s) # Inf /\ x # Inf
      BY <1>8, <2>2, <2>4, TableAssumption DEF Costs
    <3>10. Plus(SumOver(G, s), x) = SumOver(G, s) + x
      BY <3>9, Zenon DEF Plus
    <3>11. SplitCost(t, latency) = Plus(SplitCost(s, latency), x)
      BY <2>1, <2>2, <3>8, <3>9, <3>10
    <3>12. QED
      BY <1>5, <1>6, <1>8, <2>1, <2>2, <3>11 DEF t, x, Costs
  <2>5. QED
    BY <2>3, <2>4
<1>16. QED
  BY <1>14, <1>15

LEMMA NoCost ==
  ASSUME NEW n \in Nat, NEW latency, HasLatencies(n, latency)
  PROVE  SplitCost({}, latency) = 0
<1> DEFINE s == {}
           f == GroupCosts(s, latency)
<1>1. s \in SUBSET (1..n) /\ ~(\E j \in s : f[j] = Inf) /\ s \in SUBSET s
  OBVIOUS
<1> HIDE DEF s, f
<1>2. /\ IsFiniteSet(s)
      /\ ~(\E j \in s : f[j] = Inf) => f \in [s -> Int] /\ SplitCost(s, latency) = SumOver(f, s)
  BY <1>1, SplitCostIs DEF f
<1>3. SumOver(f, {}) = 0
  BY <1>1, <1>2, SumIntIs
<1>4. SplitCost(s, latency) = SumOver(f, s)
  BY <1>1, <1>2
<1>5. QED
  BY <1>3, <1>4 DEF s

(* A split of the first items is one of fewer and a last group.            *)
LEMMA SplitsIs ==
  ASSUME NEW m \in Nat \ {0}, NEW s \in Splits(m)
  PROVE  \E t \in SUBSET (1..m - 1) : s = t \cup {m}
<1>1. s \in SUBSET (1..m) /\ m \in s
  BY DEF Splits
<1>2. s \ {m} \in SUBSET (1..m - 1)
  <2>1. ASSUME NEW i \in 1..m, i # m PROVE i \in 1..m - 1
    BY <2>1
  <2>2. QED
    BY <1>1, <2>1
<1>3. s = (s \ {m}) \cup {m}
  BY <1>1
<1>4. QED
  BY <1>2, <1>3

LEMMA EndsIs ==
  ASSUME NEW m \in Nat \ {0}, NEW t \in SUBSET (1..m - 1),
         LastEnd(t) \in t \cup {0}, \A i \in t : i <= LastEnd(t)
  PROVE  t \in Splits(LastEnd(t))
<1> DEFINE p == LastEnd(t)
<1>1. ASSUME NEW i \in t PROVE i \in 1..p
  <2>1. i \in 1..m - 1 /\ i <= p
    OBVIOUS
  <2>2. p \in Nat
    <3>1. ASSUME NEW j \in t PROVE j \in Nat
      <4>1. j \in 1..m - 1
        OBVIOUS
      <4>2. QED
        BY <4>1
    <3>2. p \in t \cup {0}
      OBVIOUS
    <3> HIDE DEF p
    <3>3. QED
      BY <3>1, <3>2
  <2> HIDE DEF p
  <2>3. QED
    BY <2>1, <2>2
<1>2. p = 0 \/ p \in t
  OBVIOUS
<1> HIDE DEF p
<1>3. t \in SUBSET (1..p)
  BY <1>1
<1>4. t \in Splits(p)
  BY <1>2, <1>3 DEF Splits
<1>5. QED
  BY <1>4 DEF p

(* No split costs less than what the array says,                           *)
LEMMA NoneCheaper ==
  ASSUME NEW n \in Nat, NEW latency, HasLatencies(n, latency), NEW c, IsCost(c, n, latency),
         NEW m \in 0..n, NEW s \in Splits(m)
  PROVE  ~Less(SplitCost(s, latency), c[m])
<1> DEFINE Right(i) == \A t \in Splits(i) : ~Less(SplitCost(t, latency), c[i])
           Bad == {i \in 0..n : ~Right(i)}
<1>1. /\ \A j \in 0..n : c[j] \in Costs
      /\ c[0] = 0
      /\ \A j \in 1..n : \A k \in 1..j : ~Less(Plus(c[k - 1], At(latency, k, j)), c[j])
  BY MinCostIs
<1>2. Right(0)
  <2>1. ASSUME NEW t \in Splits(0) PROVE t = {}
    BY DEF Splits
  <2>2. SplitCost({}, latency) = 0 /\ ~Less(0, 0)
    BY NoCost, CostsIs
  <2>3. QED
    BY <1>1, <2>1, <2>2
<1>3. ASSUME NEW j \in 1..n, \A i \in 0..j - 1 : Right(i)
      PROVE  Right(j)
  <2>1. SUFFICES ASSUME NEW t \in Splits(j) PROVE ~Less(SplitCost(t, latency), c[j])
    OBVIOUS
  <2>2. j \in Nat \ {0}
    OBVIOUS
  <2>3. PICK u \in SUBSET (1..j - 1) : t = u \cup {j}
    BY <2>2, SplitsIs
  <2> DEFINE p == LastEnd(u)
             x == At(latency, p + 1, j)
  <2>4. /\ p \in u \cup {0} /\ p \in 0..j - 1
        /\ \A i \in u : i <= p
        /\ x \in Costs /\ SplitCost(u, latency) \in Costs
        /\ SplitCost(u \cup {j}, latency) = Plus(SplitCost(u, latency), x)
    BY CutCost
  <2>5. u \in Splits(p)
    BY <2>2, <2>4, EndsIs
  <2> HIDE DEF Right
  <2>6. ~Less(SplitCost(u, latency), c[p])
    <3>1. Right(p)
      BY <1>3, <2>4
    <3>2. QED
      BY <2>5, <3>1 DEF Right
  <2>7. p \in 0..n /\ p + 1 \in 1..j /\ (p + 1) - 1 = p /\ j \in 0..n
    BY <2>4
  <2>8. ~Less(Plus(c[p], x), c[j])
    <3>1. ~Less(Plus(c[(p + 1) - 1], At(latency, p + 1, j)), c[j])
      BY <1>1, <2>7
    <3>2. QED
      BY <2>7, <3>1
  <2> HIDE DEF p, x
  <2>9. c[p] \in Costs /\ c[j] \in Costs
    BY <1>1, <2>7
  <2>10. ~Less(Plus(SplitCost(u, latency), x), Plus(c[p], x))
    BY <2>4, <2>6, <2>9, CostsIs
  <2>11. Plus(SplitCost(u, latency), x) \in Costs /\ Plus(c[p], x) \in Costs
    BY <2>4, <2>9, CostsIs
  <2>12. ~Less(Plus(SplitCost(u, latency), x), c[j])
    BY <2>8, <2>9, <2>10, <2>11, CostsIs
  <2>13. QED
    BY <2>3, <2>4, <2>12
<1>4. Bad = {}
  <2> HIDE DEF Right
  <2>1. SUFFICES ASSUME Bad # {} PROVE FALSE
    OBVIOUS
  <2>2. Bad \in SUBSET Nat
    OBVIOUS
  <2>3. PICK j \in Bad : \A i \in Bad : j <= i
    <3> HIDE DEF Bad
    <3>1. QED
      BY <2>1, <2>2, LeastNumber
  <2>4. j \in 1..n
    BY <1>2, <2>3
  <2>5. ASSUME NEW i \in 0..j - 1 PROVE Right(i)
    <3>1. i \in 0..n /\ ~(j <= i)
      BY <2>4
    <3>2. QED
      BY <2>3, <3>1
  <2>6. Right(j)
    BY <1>3, <2>4, <2>5
  <2>7. QED
    BY <2>3, <2>6
<1>5. Right(m)
  BY <1>4
<1>6. QED
  BY <1>5

LEMMA LastEndIs ==
  /\ LastEnd({}) = 0
  /\ \A m \in Nat \ {0} : \A s \in SUBSET (1..m) : m \in s => LastEnd(s) = m
<1>1. LastEnd({}) = 0
  <2> DEFINE Z == {} \cup {0}
  <2>1. Z = {0} /\ Z \in SUBSET Nat /\ Z # {}
    OBVIOUS
  <2>2. LastEnd({}) = Max(Z)
    BY DEF LastEnd
  <2> HIDE DEF Z
  <2>3. IsFiniteSet(Z)
    BY <2>1, FS_Singleton
  <2>4. Max(Z) \in Z
    BY <2>1, <2>3, GreatestNumber
  <2>5. QED
    BY <2>1, <2>2, <2>4
<1>2. ASSUME NEW m \in Nat \ {0}, NEW s \in SUBSET (1..m), m \in s
      PROVE  LastEnd(s) = m
  <2> DEFINE Z == s \cup {0}
             I == 0..m
  <2>1. ASSUME NEW i \in Z PROVE i \in 0..m /\ i \in Nat /\ i <= m
    <3>1. i \in 1..m \/ i = 0
      OBVIOUS
    <3>2. QED
      BY <3>1
  <2>2. Z \in SUBSET I /\ Z \in SUBSET Nat /\ Z # {} /\ m \in Z
    BY <1>2, <2>1
  <2>3. LastEnd(s) = Max(Z)
    BY DEF LastEnd
  <2>4. IsFiniteSet(I)
    <3>1. 0 \in Int /\ m \in Int
      OBVIOUS
    <3>2. QED
      BY <3>1, FS_Interval
  <2> HIDE DEF Z, I
  <2>5. IsFiniteSet(Z)
    BY <2>2, <2>4, FS_Subset
  <2>6. Max(Z) \in Z /\ m <= Max(Z)
    BY <2>2, <2>5, GreatestNumber
  <2>7. Max(Z) <= m /\ Max(Z) \in Nat
    BY <2>1, <2>6
  <2>8. QED
    BY <2>3, <2>6, <2>7
<1>3. QED
  BY <1>1, <1>2

(* and the groups that are read from the array cost exactly that.          *)
EndsCost(g, c, latency, m) ==
  /\ EndsOf(g[m]) \in SUBSET (1..m)
  /\ LastEnd(EndsOf(g[m])) = m
  /\ SplitCost(EndsOf(g[m]), latency) = c[m]

LEMMA GroupsCost ==
  ASSUME NEW n \in Nat, NEW latency, HasLatencies(n, latency), NEW g,
         IsGroups(g, n, MinCost(n, latency), latency), NEW m \in 0..n
  PROVE  EndsCost(g, MinCost(n, latency), latency, m)
<1> DEFINE c == MinCost(n, latency)
           Right(i) == EndsCost(g, c, latency, i)
           Bad == {i \in 0..n : ~Right(i)}
<1>1. IsCost(c, n, latency)
  BY CostExists
<1>2. ASSUME NEW j \in 0..n
      PROVE  Covers(g[j], j) /\ (j # 0 => LastGroup(g, c, latency, j))
  BY GroupsCover
<1> HIDE DEF c
<1>3. c[0] = 0
  BY <1>1, MinCostIs
<1>4. Right(0)
  <2>1. Covers(g[0], 0)
    BY <1>2
  <2>2. ASSUME NEW i \in 1..Len(g[0]) PROVE FALSE
    <3>1. g[0][i] \in Nat \X Nat
      BY <2>1 DEF Covers
    <3>2. g[0][i][1] \in Nat /\ g[0][i][2] \in Nat
      BY <3>1
    <3>3. 1 <= g[0][i][1] /\ g[0][i][1] <= g[0][i][2] /\ g[0][i][2] <= 0
      BY <2>1 DEF Covers
    <3>4. QED
      BY <3>2, <3>3
  <2>3. EndsOf(g[0]) = {}
    BY <2>2 DEF EndsOf
  <2>4. SplitCost({}, latency) = 0 /\ LastEnd({}) = 0
    BY NoCost, LastEndIs
  <2>5. QED
    BY <1>3, <2>3, <2>4 DEF EndsCost
<1>5. ASSUME NEW j \in 1..n, \A i \in 0..j - 1 : Right(i)
      PROVE  Right(j)
  <2>1. PICK k \in 1..j : /\ Plus(c[k - 1], At(latency, k, j)) = c[j]
                          /\ EndsOf(g[j]) = {j} \cup EndsOf(g[k - 1])
    <3>1. j \in 0..n /\ j # 0
      OBVIOUS
    <3>2. LastGroup(g, c, latency, j)
      BY <1>2, <3>1
    <3>3. QED
      BY <3>2, Zenon DEF LastGroup
  <2> DEFINE p == k - 1
             t == EndsOf(g[p])
             ends == EndsOf(g[j])
  <2>2. p \in 0..j - 1 /\ p + 1 = k
    OBVIOUS
  <2>3. t \in SUBSET (1..p) /\ LastEnd(t) = p /\ SplitCost(t, latency) = c[p]
    <3>1. Right(p)
      BY <1>5, <2>2
    <3> HIDE DEF p
    <3>2. QED
      BY <3>1 DEF EndsCost
  <2>4. ends = t \cup {j} /\ Plus(c[p], At(latency, p + 1, j)) = c[j]
    BY <2>1, <2>2
  <2> HIDE DEF p, t, ends
  <2>5. ASSUME NEW i \in t PROVE i \in 1..j - 1 /\ i \in 1..j
    <3>1. i \in 1..p
      BY <2>3
    <3>2. QED
      BY <2>2, <3>1
  <2>6. t \in SUBSET (1..j - 1) /\ ends \in SUBSET (1..j) /\ j \in ends
    <3>1. j \in 1..j
      OBVIOUS
    <3>2. QED
      BY <2>4, <2>5, <3>1
  <2>7. SplitCost(t \cup {j}, latency)
          = Plus(SplitCost(t, latency), At(latency, LastEnd(t) + 1, j))
    BY <2>6, CutCost
  <2>8. SplitCost(ends, latency) = c[j]
    BY <2>3, <2>4, <2>7
  <2>9. LastEnd(ends) = j
    <3>1. j \in Nat \ {0}
      OBVIOUS
    <3>2. QED
      BY <2>6, <3>1, LastEndIs
  <2>10. QED
    BY <2>6, <2>8, <2>9 DEF EndsCost, ends
<1>6. Bad = {}
  <2> HIDE DEF Right
  <2>1. SUFFICES ASSUME Bad # {} PROVE FALSE
    OBVIOUS
  <2>2. Bad \in SUBSET Nat
    OBVIOUS
  <2>3. PICK j \in Bad : \A i \in Bad : j <= i
    <3> HIDE DEF Bad
    <3>1. QED
      BY <2>1, <2>2, LeastNumber
  <2>4. j \in 1..n
    BY <1>4, <2>3
  <2>5. ASSUME NEW i \in 0..j - 1 PROVE Right(i)
    <3>1. i \in 0..n /\ ~(j <= i)
      BY <2>4
    <3>2. QED
      BY <2>3, <3>1
  <2>6. Right(j)
    BY <1>5, <2>4, <2>5
  <2>7. QED
    BY <2>3, <2>6
<1>7. Right(m)
  BY <1>6
<1>8. QED
  BY <1>7 DEF c

(* So the dynamic program is not beaten.                                   *)
IsBest(ends, n, latency) ==
  \A s \in Splits(n) : ~Less(SplitCost(s, latency), SplitCost(ends, latency))

LEMMA SplitBest ==
  ASSUME NEW n \in Nat, NEW latency, HasLatencies(n, latency)
  PROVE  IsBest(EndsOf(Split(n, latency)), n, latency)
<1> DEFINE c == MinCost(n, latency)
           ends == EndsOf(Split(n, latency))
<1>1. PICK g : IsGroups(g, n, MinCost(n, latency), latency) /\ Split(n, latency) = g[n]
  BY GroupsExist
<1>2. n \in 0..n
  OBVIOUS
<1>3. EndsCost(g, c, latency, n)
  BY <1>1, <1>2, GroupsCost
<1>4. SplitCost(ends, latency) = c[n]
  BY <1>1, <1>3 DEF EndsCost
<1>5. IsCost(c, n, latency)
  BY CostExists
<1> HIDE DEF c, ends
<1>6. \A s \in Splits(n) : ~Less(SplitCost(s, latency), c[n])
  BY <1>2, <1>5, NoneCheaper
<1>7. QED
  BY <1>4, <1>6 DEF IsBest, ends

(* The ends of an adapter's mini batches are those of its groups.          *)
MiniEnds(q, minis) == {i \in DOMAIN q : \E m \in ToSet(minis) : Last(m) = q[i]}

LEMMA MiniEndsIs ==
  ASSUME NEW reqs \in Seq(Req), Distinct(reqs), NEW c \in Dirs(ToSet(reqs)),
         NEW q, NEW g, MiniGroups(q, g, reqs, c)
  PROVE  MiniEnds(q, IntraTaskBatching(reqs)) = EndsOf(g)
<1> DEFINE minis == IntraTaskBatching(reqs)
           D == Dirs(ToSet(reqs))
           N == 1..Len(g)
<1>1. \A m : m \in ToSet(minis) <=> \E d \in D : m \in ToSet(MinisOf(reqs, d))
  BY IntraIs
<1>2. D \in SUBSET Client /\ c \in D
  <2>1. ToSet(reqs) \in SUBSET Req
    BY ListIs
  <2>2. QED
    BY <2>1, RequestAssumption DEF Dirs
<1> HIDE DEF minis, D
<1>3. ASSUME NEW d \in D, NEW m \in ToSet(MinisOf(reqs, d))
      PROVE  adapter_dir[Last(m)] = d
  <2> DEFINE r == Queries(reqs, d)
             h == Split(Len(r), QueryLatency(r, d))
             M == MinisOf(reqs, d)
  <2>1. MiniGroups(r, h, reqs, d) /\ d \in Client
    BY <1>2 DEF MiniGroups
  <2> HIDE DEF r, h
  <2>2. MinisGood(r, h, reqs, d)
    BY <2>1, MinisOfIs
  <2>3. /\ DOMAIN M = 1..Len(h)
        /\ \A i \in 1..Len(h) : IsMini(M[i])
        /\ \A x : (x \in ToSet(reqs) /\ adapter_dir[x] = d) <=> \E i \in 1..Len(h) : x \in ToSet(M[i])
    BY <2>2, Zenon DEF MinisGood
  <2>4. m \in ToSet(M)
    OBVIOUS
  <2> HIDE DEF M
  <2>5. PICK i \in 1..Len(h) : M[i] = m
    BY <2>3, <2>4 DEF ToSet
  <2>6. Last(m) \in ToSet(m)
    BY <2>3, <2>5 DEF IsMini, IsPart
  <2>7. QED
    BY <2>3, <2>5, <2>6
<1> DEFINE M == MinisOf(reqs, c)
<1>4. /\ DOMAIN M = N
      /\ \A i \in N : Last(M[i]) = q[g[i][2]] /\ g[i][2] \in 1..Len(q)
  <2>1. MinisGood(q, g, reqs, c)
    BY <1>2, MinisOfIs
  <2>2. QED
    BY <2>1, Zenon DEF MinisGood
<1>5. /\ q \in Seq(Req) /\ Distinct(q) /\ DOMAIN q = 1..Len(q)
      /\ \A i \in 1..Len(q) : adapter_dir[q[i]] = c
  <2>1. q = Queries(reqs, c)
    BY DEF MiniGroups
  <2>2. /\ q \in Seq(Req) /\ Distinct(q)
        /\ ToSet(q) = {r \in ToSet(reqs) : adapter_dir[r] = c}
    BY <2>1, QueriesIs
  <2>3. DOMAIN q = 1..Len(q) /\ \A i \in 1..Len(q) : q[i] \in ToSet(q)
    BY <2>2, ListIs
  <2>4. QED
    BY <2>2, <2>3
<1> HIDE DEF N
<1>6. ASSUME NEW l \in N PROVE g[l][2] \in MiniEnds(q, minis)
  <2>1. M[l] \in ToSet(M)
    BY <1>4 DEF ToSet
  <2>2. M[l] \in ToSet(minis)
    BY <1>1, <1>2, <2>1
  <2>3. Last(M[l]) = q[g[l][2]] /\ g[l][2] \in DOMAIN q
    BY <1>4, <1>5
  <2> HIDE DEF M
  <2>4. QED
    BY <2>2, <2>3 DEF MiniEnds
<1>7. ASSUME NEW i \in MiniEnds(q, minis) PROVE \E l \in N : i = g[l][2]
  <2>1. PICK m \in ToSet(minis) : Last(m) = q[i]
    BY DEF MiniEnds
  <2>2. i \in 1..Len(q)
    BY <1>5 DEF MiniEnds
  <2>3. PICK d \in D : m \in ToSet(MinisOf(reqs, d))
    BY <1>1
  <2>4. d = c
    <3>1. adapter_dir[Last(m)] = d
      BY <1>3, <2>3
    <3>2. adapter_dir[q[i]] = c
      BY <1>5, <2>2
    <3>3. QED
      BY <2>1, <3>1, <3>2
  <2>5. PICK l \in N : M[l] = m
    BY <1>4, <2>3, <2>4 DEF ToSet
  <2>6. q[g[l][2]] = q[i] /\ g[l][2] \in DOMAIN q /\ i \in DOMAIN q
    BY <1>4, <1>5, <2>1, <2>2, <2>5
  <2>7. g[l][2] = i
    BY <1>5, <2>6 DEF Distinct
  <2>8. QED
    BY <2>7
<1>8. EndsOf(g) = {g[l][2] : l \in N}
  BY DEF EndsOf, N
<1>9. QED
  BY <1>6, <1>7, <1>8 DEF minis

(* The groups that the dynamic program finds for a list hold each item     *)
(* once, and are not beaten.                                               *)
LEMMA CutBest ==
  ASSUME NEW S, NEW s \in Seq(S), Distinct(s), NEW lat, HasLatencies(Len(s), lat),
         NEW g, g = Split(Len(s), lat), NEW M, M = Cut(s, g)
  PROVE  EachInOne(s, M) /\ LeastLatency(s, lat, M)
<1>1. DOMAIN s = 1..Len(s) /\ Len(s) \in Nat /\ \A i \in DOMAIN s : s[i] \in ToSet(s)
  BY ListIs
<1>2. Covers(g, Len(s))
  BY <1>1, SplitIs
<1>3. /\ DOMAIN M = 1..Len(g)
      /\ \A i \in 1..Len(g) : Last(M[i]) = s[g[i][2]] /\ g[i][2] \in 1..Len(s)
      /\ \A r : r \in ToSet(s) <=> \E i \in 1..Len(g) : r \in ToSet(M[i])
      /\ \A i, j \in 1..Len(g) : \A r : r \in ToSet(M[i]) /\ r \in ToSet(M[j]) => i = j
  <2>1. CutGood(s, g, S)
    BY <1>2, CutIs
  <2>2. QED
    BY <2>1, Zenon DEF CutGood
<1>4. EachInOne(s, M)
  <2>1. ASSUME NEW i \in DOMAIN s
        PROVE  Cardinality({k \in DOMAIN M : s[i] \in ToSet(M[k])}) = 1
    <3>1. PICK k \in DOMAIN M : s[i] \in ToSet(M[k])
      BY <1>1, <1>3
    <3>2. {l \in DOMAIN M : s[i] \in ToSet(M[l])} = {k}
      BY <1>3, <3>1
    <3>3. QED
      BY <3>2, FS_Singleton
  <2>2. QED
    BY <2>1 DEF EachInOne
<1> DEFINE ends == {i \in DOMAIN s : \E m \in ToSet(M) : Last(m) = s[i]}
<1>5. ends = EndsOf(g)
  <2>1. \A m : m \in ToSet(M) <=> \E l \in 1..Len(g) : m = M[l]
    BY <1>3 DEF ToSet
  <2>2. ASSUME NEW l \in 1..Len(g) PROVE g[l][2] \in ends
    BY <1>1, <1>3, <2>1
  <2>3. ASSUME NEW i \in ends PROVE \E l \in 1..Len(g) : i = g[l][2]
    <3>1. PICK l \in 1..Len(g) : Last(M[l]) = s[i]
      BY <2>1
    <3>2. s[g[l][2]] = s[i] /\ g[l][2] \in DOMAIN s /\ i \in DOMAIN s
      BY <1>1, <1>3, <3>1
    <3>3. QED
      BY <3>2 DEF Distinct
  <2> HIDE DEF ends
  <2>4. QED
    BY <2>2, <2>3 DEF EndsOf
<1>6. IsBest(EndsOf(g), Len(s), lat)
  BY <1>1, SplitBest
<1>7. QED
  BY <1>4, <1>5, <1>6, Zenon DEF IsBest, LeastLatency, ends

(* The mini batches that pets makes of the waiting requests hold each of   *)
(* them once, the macro batches each mini batch once, and no other way to  *)
(* cut an adapter's queries or the mini batches is predicted to be faster. *)
LEMMA PetsBest == ControlOK => PetsSplitsBest
<1> SUFFICES ASSUME ControlOK PROVE PetsSplitsBest
  OBVIOUS
<1> DEFINE minis == IntraTaskBatching(waiting)
           W == ToSet(waiting)
<1>1. waiting \in Seq(Req) /\ Distinct(waiting)
  BY DEF ControlOK, ListOK
<1>2. /\ minis \in Seq(Seq(Req))
      /\ \A i \in DOMAIN minis : IsMini(minis[i])
      /\ \A r : r \in W <=> \E i \in DOMAIN minis : r \in ToSet(minis[i])
      /\ \A i, j \in DOMAIN minis :
           \A r : r \in ToSet(minis[i]) /\ r \in ToSet(minis[j]) => i = j
  BY <1>1, IntraIs
<1>3. ASSUME NEW c \in Dirs(W)
      PROVE  LET q == Queries(waiting, c)
             IN  EachInOne(q, minis) /\ LeastLatency(q, QueryLatency(q, c), minis)
  <2> DEFINE q == Queries(waiting, c)
             lat == QueryLatency(q, c)
             g == Split(Len(q), lat)
             ends == MiniEnds(q, minis)
  <2>1. MiniGroups(q, g, waiting, c)
    BY DEF MiniGroups
  <2>2. q \in Seq(Req) /\ ToSet(q) \subseteq W
    BY <1>1, QueriesIs
  <2>3. c \in Client
    <3>1. W \in SUBSET Req
      BY <1>1, ListIs
    <3>2. QED
      BY <3>1, RequestAssumption DEF Dirs
  <2>4. ends = EndsOf(g)
    <3> HIDE DEF q, g
    <3>1. QED
      BY <1>1, <2>1, MiniEndsIs
  <2>5. HasLatencies(Len(q), lat) /\ Len(q) \in Nat
    <3>1. Len(q) \in Nat
      BY <2>2
    <3> HIDE DEF q
    <3>2. QED
      BY <2>2, <2>3, <3>1, QueryCosts
  <2>6. IsBest(EndsOf(g), Len(q), lat)
    <3> HIDE DEF q, lat
    <3>1. QED
      BY <2>5, SplitBest
  <2>7. EachInOne(q, minis)
    <3> HIDE DEF q, minis, W
    <3>1. ASSUME NEW i \in DOMAIN q
          PROVE  Cardinality({k \in DOMAIN minis : q[i] \in ToSet(minis[k])}) = 1
      <4>1. q[i] \in W
        BY <2>2, ListIs
      <4>2. PICK k \in DOMAIN minis : q[i] \in ToSet(minis[k])
        BY <1>2, <4>1
      <4>3. {l \in DOMAIN minis : q[i] \in ToSet(minis[l])} = {k}
        BY <1>2, <4>2
      <4>4. QED
        BY <4>3, FS_Singleton
    <3>2. QED
      BY <3>1 DEF EachInOne
  <2> HIDE DEF g
  <2>8. IsBest(ends, Len(q), lat)
    BY <2>4, <2>6
  <2>9. LeastLatency(q, lat, minis)
    BY <2>8, Zenon DEF IsBest, MiniEnds, LeastLatency
  <2>10. QED
    BY <2>7, <2>9
<1>4. /\ EachInOne(SortedMinis(minis), InterTaskBatching(minis))
      /\ LeastLatency(SortedMinis(minis), MacroLatency(SortedMinis(minis)),
                       InterTaskBatching(minis))
  <2> DEFINE m == SortedMinis(minis)
             M == InterTaskBatching(minis)
             g == MacroGroups(m)
             S == Seq(Req)
  <2>1. ASSUME NEW i \in DOMAIN minis, NEW j \in DOMAIN minis, minis[i] = minis[j]
        PROVE  i = j
    <3>1. Last(minis[i]) \in ToSet(minis[i]) /\ Last(minis[i]) \in ToSet(minis[j])
      BY <1>2, <2>1 DEF IsMini, IsPart
    <3>2. QED
      BY <1>2, <3>1
  <2>2. Distinct(minis)
    BY <2>1 DEF Distinct
  <2>3. M = Cut(m, g) /\ g = Split(Len(m), MacroLatency(m))
    BY DEF InterTaskBatching, MacroGroups
  <2>4. m = SortedMinis(minis)
    OBVIOUS
  <2> HIDE DEF minis, m, M, g
  <2>5. m \in Seq(S) /\ Distinct(m) /\ HasLatencies(Len(m), MacroLatency(m))
    BY <1>2, <2>2, <2>4, SortedIs
  <2> HIDE DEF S
  <2>6. EachInOne(m, M) /\ LeastLatency(m, MacroLatency(m), M)
    BY <2>3, <2>5, CutBest
  <2>7. QED
    BY <2>6 DEF m, M
<1>5. QED
  BY <1>3, <1>4, Zenon DEF PetsSplitsBest

(* The mini batches into which pets cuts the waiting requests hold each of *)
(* them exactly once, the macro batches each mini batch, and neither cut   *)
(* has a cheaper alternative, whatever the requests and the measured       *)
(* latencies are (infinite and negative ones, too).                        *)
THEOREM PetsIsOptimal == Spec => []PetsSplitsBest
<1>1. RouterOK => PetsSplitsBest
  BY PetsBest DEF RouterOK
<1>2. QED
  BY <1>1, RouterAlways, PTL
=============================================================================
