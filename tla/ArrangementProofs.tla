------------------------- MODULE ArrangementProofs -------------------------
(***************************************************************************)
(* What Arrangements promises of a sorted, a filtered and a joined list:   *)
(* which members it has, how often and in which order.  The packet         *)
(* store's, the session files' and the stores' proofs rest on it.          *)
(***************************************************************************)
EXTENDS Arrangements, SequenceTheorems, FiniteSetTheorems, FunctionTheorems, TLAPS

----------------------------------------------------------------------------
(* Arranging the members of a set *)

StrictOrder(S, R) ==
  /\ \A x \in S : <<x, x>> \notin R
  /\ \A x, y, z \in S : <<x, y>> \in R /\ <<y, z>> \in R => <<x, z>> \in R
  /\ \A x, y \in S : x # y => <<x, y>> \in R \/ <<y, x>> \in R

(***************************************************************************)
(* The number of members before a member is its place, since no other      *)
(* member has as many.                                                     *)
(***************************************************************************)
LEMMA ArrangedInOrder ==
  ASSUME NEW S, IsFiniteSet(S), NEW R, StrictOrder(S, R)
  PROVE  LET o == Arranged(S, R)
         IN  /\ o \in [1 .. Cardinality(S) -> S]
             /\ \A k, l \in 1 .. Cardinality(S) : k < l => <<o[k], o[l]>> \in R
<1> DEFINE Before(x) == {y \in S : <<y, x>> \in R}
           rank == Places(S, R)
           N == Cardinality(S)
<1>1. N \in Nat /\ rank = [x \in S |-> Cardinality(Before(x)) + 1]
  BY FS_CardinalityType DEF Places
<1>2. ASSUME NEW x \in S
      PROVE  IsFiniteSet(Before(x)) /\ Cardinality(Before(x)) \in Nat /\ Cardinality(Before(x)) < N
  <2>1. Before(x) \subseteq S /\ x \notin Before(x)
    BY DEF StrictOrder
  <2> HIDE DEF Before
  <2>2. IsFiniteSet(Before(x)) /\ IsFiniteSet(S \ {x}) /\ Before(x) \subseteq S \ {x}
    BY <2>1, FS_Subset, FS_RemoveElement
  <2>3. Cardinality(Before(x)) <= Cardinality(S \ {x}) /\ Cardinality(S \ {x}) = N - 1
    BY <2>2, FS_Subset, FS_RemoveElement
  <2>4. Cardinality(Before(x)) \in Nat /\ Cardinality(S \ {x}) \in Nat
    BY <2>2, FS_CardinalityType
  <2> QED
    BY <1>1, <2>2, <2>3, <2>4
<1>3. ASSUME NEW x \in S, NEW y \in S, <<x, y>> \in R
      PROVE  rank[x] < rank[y]
  <2>1. Before(x) \subseteq Before(y) /\ x \in Before(y) /\ x \notin Before(x)
    BY <1>3 DEF StrictOrder
  <2> HIDE DEF Before
  <2>2. IsFiniteSet(Before(y) \ {x}) /\ Before(x) \subseteq Before(y) \ {x}
    BY <1>2, <2>1, FS_RemoveElement
  <2>3. Cardinality(Before(x)) <= Cardinality(Before(y) \ {x})
    BY <2>2, FS_Subset
  <2>4. Cardinality(Before(y) \ {x}) = Cardinality(Before(y)) - 1
    BY <1>2, <2>1, FS_RemoveElement
  <2> HIDE DEF rank
  <2> QED
    BY <1>1, <1>2, <2>3, <2>4
<1>4. rank \in [S -> 1 .. N]
  <2> HIDE DEF Before, rank
  <2> QED
    BY <1>1, <1>2
<1> DEFINE o == Arranged(S, R)
<1>11. o = [k \in 1 .. N |-> CHOOSE x \in S : rank[x] = k]
  BY DEF Arranged
<1> HIDE DEF Before, rank, o
<1>5. \A x, y \in S : rank[x] = rank[y] => x = y
  <2>1. \A x \in S : ~ (rank[x] < rank[x])
    BY <1>1, <1>4
  <2> QED
    BY <1>3, <2>1 DEF StrictOrder
<1>6. rank \in Injection(S, 1 .. N)
  BY <1>4, <1>5 DEF Injection, IsInjective
<1>7. rank \in Surjection(S, 1 .. N)
  <2>1. IsFiniteSet(1 .. N) /\ Cardinality(1 .. N) = N
    BY <1>1, FS_Interval
  <2> QED
    BY <1>6, <2>1, FS_Injection
<1>8. \A k \in 1 .. N : \E x \in S : rank[x] = k
  BY <1>7 DEF Surjection
<1>9. o \in [1 .. N -> S] /\ \A k \in 1 .. N : o[k] \in S /\ rank[o[k]] = k
  BY <1>8, <1>11
<1>10. ASSUME NEW k \in 1 .. N, NEW l \in 1 .. N, k < l
       PROVE  <<o[k], o[l]>> \in R
  <2>1. o[k] \in S /\ o[l] \in S /\ rank[o[k]] = k /\ rank[o[l]] = l
    BY <1>9
  <2>2. o[k] # o[l] /\ <<o[l], o[k]>> \notin R
    BY <1>1, <1>3, <1>10, <2>1
  <2> QED
    BY <2>1, <2>2 DEF StrictOrder
<1> QED
  BY <1>9, <1>10 DEF N, o

LEMMA ArrangedFacts ==
  ASSUME NEW S, IsFiniteSet(S), NEW R, StrictOrder(S, R)
  PROVE  LET o == Arranged(S, R) N == Cardinality(S)
         IN  /\ N \in Nat /\ o \in [1 .. N -> S]
             /\ \A k, l \in 1 .. N : k < l => <<o[k], o[l]>> \in R
             /\ \A k, l \in 1 .. N : o[k] = o[l] => k = l
             /\ \A x \in S : \E k \in 1 .. N : o[k] = x
<1> DEFINE o == Arranged(S, R)
           N == Cardinality(S)
<1>2. o \in [1 .. N -> S] /\ \A k, l \in 1 .. N : k < l => <<o[k], o[l]>> \in R
  BY ArrangedInOrder
<1>3. N \in Nat
  BY FS_CardinalityType
<1> HIDE DEF o, N
<1>4. \A k, l \in 1 .. N : o[k] = o[l] => k = l
  <2>1. \A k \in 1 .. N : <<o[k], o[k]>> \notin R
    BY <1>2 DEF StrictOrder
  <2>2. \A k, l \in 1 .. N : k < l => o[k] # o[l]
    BY <1>2, <2>1
  <2> QED
    BY <1>3, <2>2
<1>5. o \in Injection(1 .. N, S)
  BY <1>2, <1>4 DEF Injection, IsInjective
<1>6. Cardinality(1 .. N) = Cardinality(S)
  BY <1>3, FS_Interval DEF N
<1>7. o \in Surjection(1 .. N, S)
  BY <1>5, <1>6, FS_Injection
<1>8. \A x \in S : \E k \in 1 .. N : o[k] = x
  BY <1>7 DEF Surjection
<1> QED
  BY <1>2, <1>3, <1>4, <1>8 DEF o, N

(***************************************************************************)
(* Numbers that increase and leave none of 1 .. n out are these.           *)
(***************************************************************************)
Increases(r, m) == \A k, l \in 1 .. m : k < l => r[k] < r[l]

Covers(r, m, n) == \A i \in 1 .. n : \E k \in 1 .. m : r[k] = i

LEMMA IncreasingOnto ==
  ASSUME NEW m \in Nat, NEW n \in Nat, NEW r \in [1 .. m -> 1 .. n], Increases(r, m), Covers(r, m, n)
  PROVE  m = n /\ r = [k \in 1 .. m |-> k]
<1> USE DEF Increases, Covers
<1>1. ASSUME NEW k \in 1 .. m, NEW l \in 1 .. m, r[k] = r[l] PROVE k = l
  <2>1. ~ (k < l) /\ ~ (l < k)
    BY <1>1
  <2> QED
    BY <2>1
<1>2. m = n
  <2>1. r \in Injection(1 .. m, 1 .. n) /\ r \in Surjection(1 .. m, 1 .. n)
    BY <1>1 DEF Injection, IsInjective, Surjection
  <2>2. IsFiniteSet(1 .. n) /\ Cardinality(1 .. m) = m /\ Cardinality(1 .. n) = n
    BY FS_Interval
  <2> QED
    BY <2>1, <2>2, FS_Injection
<1>3. ASSUME NEW k \in 1 .. m PROVE r[k] = k
  <2>1. k <= r[k]
    <3> DEFINE f == [j \in 1 .. k |-> r[j]]
    <3>1. \A j \in 1 .. k : j \in 1 .. m /\ r[j] \in 1 .. n /\ (j < k => r[j] < r[k])
      OBVIOUS
    <3>2. ASSUME NEW j \in 1 .. k PROVE r[j] \in 1 .. r[k]
      <4>1. CASE j = k
        BY <4>1, <3>1
      <4>2. CASE j < k
        BY <4>2, <3>1
      <4> QED
        BY <4>1, <4>2
    <3>3. f \in Injection(1 .. k, 1 .. r[k])
      BY <1>1, <3>1, <3>2 DEF Injection, IsInjective
    <3>4. r[k] \in Nat /\ k \in Nat
      OBVIOUS
    <3>5. IsFiniteSet(1 .. r[k]) /\ Cardinality(1 .. k) = k /\ Cardinality(1 .. r[k]) = r[k]
      BY <3>4, FS_Interval
    <3> QED
      BY <3>3, <3>5, FS_Injection
  <2>2. r[k] <= k
    <3> DEFINE f == [j \in k .. m |-> r[j]]
    <3>1. \A j \in k .. m : j \in 1 .. m /\ r[j] \in 1 .. n /\ (k < j => r[k] < r[j])
      OBVIOUS
    <3>2. ASSUME NEW j \in k .. m PROVE r[j] \in r[k] .. n
      <4>1. CASE j = k
        BY <4>1, <3>1
      <4>2. CASE k < j
        BY <4>2, <3>1
      <4> QED
        BY <4>1, <4>2
    <3>3. f \in Injection(k .. m, r[k] .. n)
      BY <1>1, <3>1, <3>2 DEF Injection, IsInjective
    <3>4. r[k] \in 1 .. n /\ k <= m
      OBVIOUS
    <3>5. /\ IsFiniteSet(r[k] .. n)
          /\ Cardinality(k .. m) = m - k + 1 /\ Cardinality(r[k] .. n) = n - r[k] + 1
      BY <3>4, FS_Interval
    <3>6. m - k + 1 <= n - r[k] + 1
      BY <3>3, <3>5, FS_Injection
    <3>7. \A i \in 1 .. n : m - k + 1 <= n - i + 1 => i <= k
      BY <1>2
    <3> QED
      BY <3>4, <3>6, <3>7
  <2> QED
    BY <2>1, <2>2
<1> QED
  BY <1>2, <1>3

----------------------------------------------------------------------------
(* Sorting and filtering *)

(***************************************************************************)
(* The members of sorted are those of list, each once, the newer ones      *)
(* first and those of equal age in their old order: o says where each      *)
(* comes from.                                                             *)
(***************************************************************************)
IsSorting(sorted, list) ==
  \E o \in [1 .. Len(list) -> 1 .. Len(list)] :
    /\ \A k \in 1 .. Len(list) : sorted[k] = list[o[k]]
    /\ \A k, l \in 1 .. Len(list) : o[k] = o[l] => k = l
    /\ \A i \in 1 .. Len(list) : \E k \in 1 .. Len(list) : o[k] = i
    /\ \A k, l \in 1 .. Len(list) : k < l => sorted[k].t >= sorted[l].t
    /\ \A k, l \in 1 .. Len(list) : k < l /\ sorted[k].t = sorted[l].t => o[k] < o[l]

LEMMA NewestFirstFacts ==
  ASSUME NEW S, NEW list \in Seq(S), \A x \in S : x.t \in Int
  PROVE  LET sorted == NewestFirst(list)
         IN  sorted \in Seq(S) /\ Len(sorted) = Len(list) /\ IsSorting(sorted, list)
<1> DEFINE N == Len(list)
           R == NewerFirst(list)
           o == Arranged(DOMAIN list, R)
           sorted == NewestFirst(list)
<1>1. /\ N \in Nat /\ DOMAIN list = 1 .. N
      /\ \A i \in 1 .. N : list[i] \in S /\ list[i].t \in Int
  <2>1. N \in Nat /\ DOMAIN list = 1 .. N
    BY LenProperties
  <2>2. \A i \in 1 .. N : list[i] \in S
    BY ElementOfSeq
  <2>3. \A i \in 1 .. N : list[i].t \in Int
    BY <2>2
  <2> QED
    BY <2>1, <2>2, <2>3
<1>2. IsFiniteSet(1 .. N) /\ Cardinality(1 .. N) = N
  <2>1. N \in Nat
    BY <1>1
  <2> HIDE DEF N
  <2> QED
    BY <2>1, FS_Interval
<1> DEFINE Newer(i, j) == list[i].t > list[j].t \/ (list[i].t = list[j].t /\ i < j)
<1>3. \A i, j : <<i, j>> \in R <=> i \in 1 .. N /\ j \in 1 .. N /\ Newer(i, j)
  BY <1>1 DEF NewerFirst
<1>4. StrictOrder(1 .. N, R)
  <2> HIDE DEF N, R
  <2>1. \A i \in 1 .. N : i \in Int /\ list[i].t \in Int
    BY <1>1
  <2>2. /\ \A i \in 1 .. N : ~ Newer(i, i)
        /\ \A i, j, k \in 1 .. N : Newer(i, j) /\ Newer(j, k) => Newer(i, k)
        /\ \A i, j \in 1 .. N : i # j => Newer(i, j) \/ Newer(j, i)
    BY <2>1
  <2> HIDE DEF Newer
  <2> QED
    BY <1>3, <2>2 DEF StrictOrder
<1>5. /\ o \in [1 .. N -> 1 .. N]
      /\ \A k, l \in 1 .. N : k < l => <<o[k], o[l]>> \in R
      /\ \A k, l \in 1 .. N : o[k] = o[l] => k = l
      /\ \A i \in 1 .. N : \E k \in 1 .. N : o[k] = i
  <2>1. o = Arranged(1 .. N, R)
    BY <1>1
  <2> HIDE DEF N, R, o
  <2> QED
    BY <1>2, <1>4, <2>1, ArrangedFacts, SMTT(40)
<1>6. sorted = [k \in 1 .. N |-> list[o[k]]]
  BY <1>1 DEF NewestFirst
<1> HIDE DEF N, R, o, sorted
<1>7. sorted \in [1 .. N -> S]
  BY <1>1, <1>5, <1>6
<1>8. sorted \in Seq(S) /\ Len(sorted) = N
  BY <1>1, <1>7, SeqDef, LenProperties
<1>9. \A k \in 1 .. N : sorted[k] = list[o[k]] /\ o[k] \in 1 .. N
  BY <1>5, <1>6
<1>10. ASSUME NEW k \in 1 .. N, NEW l \in 1 .. N, k < l
       PROVE  sorted[k].t >= sorted[l].t /\ (sorted[k].t = sorted[l].t => o[k] < o[l])
  <2>1. <<o[k], o[l]>> \in R
    BY <1>5, <1>10
  <2>2. list[o[k]].t > list[o[l]].t \/ (list[o[k]].t = list[o[l]].t /\ o[k] < o[l])
    BY <1>3, <2>1
  <2>3. list[o[k]].t \in Int /\ list[o[l]].t \in Int
    BY <1>1, <1>9
  <2>4. list[o[k]].t >= list[o[l]].t /\ (list[o[k]].t = list[o[l]].t => o[k] < o[l])
    BY <2>2, <2>3
  <2> QED
    BY <1>9, <2>4
<1>11. IsSorting(sorted, list)
  BY <1>5, <1>9, <1>10 DEF IsSorting, N
<1> QED
  BY <1>8, <1>11 DEF sorted, N

(***************************************************************************)
(* The members of left are those of list at the places kept, each once and *)
(* in their old order.                                                     *)
(***************************************************************************)
IsFiltering(left, list, kept) ==
  \E o \in [1 .. Len(left) -> kept] :
    /\ \A k \in 1 .. Len(left) : left[k] = list[o[k]]
    /\ \A k, l \in 1 .. Len(left) : k < l => o[k] < o[l]
    /\ \A k, l \in 1 .. Len(left) : o[k] = o[l] => k = l
    /\ \A i \in kept : \E k \in 1 .. Len(left) : o[k] = i

LEMMA KeptFacts ==
  ASSUME NEW S, NEW list \in Seq(S), NEW kept, kept \subseteq DOMAIN list
  PROVE  LET left == Kept(list, kept)
         IN  /\ left \in Seq(S) /\ Len(left) <= Len(list)
             /\ kept = DOMAIN list => Len(left) = Len(list)
             /\ IsFiltering(left, list, kept)
<1> DEFINE R == {ij \in kept \X kept : ij[1] < ij[2]}
           o == Arranged(kept, R)
           N == Cardinality(kept)
           left == Kept(list, kept)
<1>1. /\ Len(list) \in Nat /\ DOMAIN list = 1 .. Len(list)
      /\ \A i \in 1 .. Len(list) : list[i] \in S
  BY LenProperties, ElementOfSeq
<1>2. IsFiniteSet(kept) /\ N <= Len(list) /\ (kept = DOMAIN list => N = Len(list))
  <2>1. IsFiniteSet(1 .. Len(list)) /\ Cardinality(1 .. Len(list)) = Len(list)
    BY <1>1, FS_Interval
  <2>2. kept \subseteq 1 .. Len(list)
    BY <1>1
  <2>3. IsFiniteSet(kept) /\ Cardinality(kept) <= Cardinality(1 .. Len(list))
    BY <2>1, <2>2, FS_Subset
  <2> QED
    BY <1>1, <2>1, <2>3
<1>3. \A i, j : <<i, j>> \in R <=> i \in kept /\ j \in kept /\ i < j
  OBVIOUS
<1>4. StrictOrder(kept, R)
  <2>1. \A i \in kept : i \in Nat
    BY <1>1
  <2> HIDE DEF R
  <2>2. \A i \in kept : <<i, i>> \notin R
    BY <1>3, <2>1
  <2>3. ASSUME NEW i \in kept, NEW j \in kept, NEW k \in kept, <<i, j>> \in R, <<j, k>> \in R
        PROVE  <<i, k>> \in R
    BY <1>3, <2>1, <2>3
  <2>4. ASSUME NEW i \in kept, NEW j \in kept, i # j
        PROVE  <<i, j>> \in R \/ <<j, i>> \in R
    BY <1>3, <2>1, <2>4
  <2> QED
    BY <2>2, <2>3, <2>4 DEF StrictOrder
<1>5. /\ N \in Nat /\ o \in [1 .. N -> kept]
      /\ \A k, l \in 1 .. N : k < l => <<o[k], o[l]>> \in R
      /\ \A k, l \in 1 .. N : o[k] = o[l] => k = l
      /\ \A i \in kept : \E k \in 1 .. N : o[k] = i
  <2> HIDE DEF R
  <2> QED
    BY <1>2, <1>4, ArrangedFacts, SMTT(40)
<1>6. left = [k \in 1 .. N |-> list[o[k]]]
  BY DEF Kept
<1>7. \A i \in kept : list[i] \in S
  BY <1>1
<1> HIDE DEF R, o, N, left
<1>8. left \in [1 .. N -> S]
  BY <1>5, <1>6, <1>7
<1>9. left \in Seq(S) /\ Len(left) = N
  BY <1>5, <1>8, SeqDef, LenProperties
<1>10. IsFiltering(left, list, kept)
  <2>1. \A k \in 1 .. N : left[k] = list[o[k]]
    BY <1>6
  <2>2. \A k, l \in 1 .. N : k < l => o[k] < o[l]
    BY <1>3, <1>5
  <2>3. /\ o \in [1 .. Len(left) -> kept]
        /\ \A k \in 1 .. Len(left) : left[k] = list[o[k]]
        /\ \A k, l \in 1 .. Len(left) : k < l => o[k] < o[l]
        /\ \A k, l \in 1 .. Len(left) : o[k] = o[l] => k = l
        /\ \A i \in kept : \E k \in 1 .. Len(left) : o[k] = i
    BY <1>5, <1>9, <2>1, <2>2
  <2> QED
    BY <2>3 DEF IsFiltering
<1> QED
  BY <1>2, <1>5, <1>9, <1>10 DEF left, N

(***************************************************************************)
(* Every member of all comes from a place of one of the lists, and none of *)
(* their places is left out: o says where each comes from.                 *)
(***************************************************************************)
PlacesOf(lists) == UNION {{i} \X DOMAIN lists[i] : i \in DOMAIN lists}

IsJoining(all, lists) ==
  \E o \in [1 .. Len(all) -> PlacesOf(lists)] :
    /\ \A k \in 1 .. Len(all) : all[k] = lists[o[k][1]][o[k][2]]
    /\ \A i \in DOMAIN lists : \A j \in DOMAIN lists[i] : \E k \in 1 .. Len(all) : o[k] = <<i, j>>

LEMMA JoinedFacts ==
  ASSUME NEW S, NEW lists \in Seq(Seq(S))
  PROVE  LET all == Joined(lists)
         IN  all \in Seq(S) /\ IsJoining(all, lists)
<1> DEFINE P == PlacesOf(lists)
           R == {xy \in P \X P :
                   \/ xy[1][1] < xy[2][1]
                   \/ xy[1][1] = xy[2][1] /\ xy[1][2] < xy[2][2]}
           o == Arranged(P, R)
           N == Cardinality(P)
           all == Joined(lists)
           M == Len(lists)
<1>1. /\ M \in Nat /\ DOMAIN lists = 1 .. M
      /\ \A i \in 1 .. M : lists[i] \in Seq(S)
  BY LenProperties, ElementOfSeq
<1> HIDE DEF M
<1>2. ASSUME NEW i \in 1 .. M
      PROVE  /\ Len(lists[i]) \in Nat /\ DOMAIN lists[i] = 1 .. Len(lists[i])
             /\ \A j \in 1 .. Len(lists[i]) : lists[i][j] \in S
  BY <1>1, LenProperties, ElementOfSeq
<1>3. \A x : x \in P <=> \E i \in 1 .. M : \E j \in 1 .. Len(lists[i]) : x = <<i, j>>
  BY <1>1, <1>2 DEF PlacesOf
<1>4. IsFiniteSet(P)
  <2> DEFINE rows == [i \in 1 .. M |-> {i} \X DOMAIN lists[i]]
             parts == {rows[i] : i \in 1 .. M}
  <2>1. IsFiniteSet(1 .. M)
    BY <1>1, FS_Interval
  <2>2. rows \in Surjection(1 .. M, parts)
    BY DEF Surjection
  <2>3. IsFiniteSet(parts)
    <3> HIDE DEF rows, parts
    <3> QED
      BY <2>1, <2>2, FS_Surjection
  <2>4. ASSUME NEW i \in 1 .. M PROVE IsFiniteSet({i} \X DOMAIN lists[i])
    <3>1. IsFiniteSet({i})
      BY FS_Singleton
    <3>2. DOMAIN lists[i] = 1 .. Len(lists[i]) /\ Len(lists[i]) \in Int
      BY <1>2
    <3>3. IsFiniteSet(DOMAIN lists[i])
      BY <3>2, FS_Interval
    <3> QED
      BY <3>1, <3>3, FS_Product
  <2>5. \A T \in parts : IsFiniteSet(T)
    BY <2>4
  <2>6. P = UNION parts
    BY <1>1 DEF PlacesOf
  <2> HIDE DEF parts
  <2> QED
    BY <2>3, <2>5, <2>6, FS_UNION
<1>5. \A x \in P : x = <<x[1], x[2]>> /\ x[1] \in 1 .. M /\ x[2] \in 1 .. Len(lists[x[1]])
  BY <1>3
<1>6. \A x \in P : x[1] \in Int /\ x[2] \in Int
  BY <1>1, <1>2, <1>5
<1> HIDE DEF P
<1>7. \A x, y : <<x, y>> \in R <=> x \in P /\ y \in P /\ (x[1] < y[1] \/ (x[1] = y[1] /\ x[2] < y[2]))
  OBVIOUS
<1> HIDE DEF R
<1>8. StrictOrder(P, R)
  <2>1. \A x \in P : <<x, x>> \notin R
    BY <1>6, <1>7
  <2>2. ASSUME NEW x \in P, NEW y \in P, NEW z \in P, <<x, y>> \in R, <<y, z>> \in R
        PROVE  <<x, z>> \in R
    BY <1>6, <1>7, <2>2
  <2>3. ASSUME NEW x \in P, NEW y \in P, x # y
        PROVE  <<x, y>> \in R \/ <<y, x>> \in R
    <3>1. x[1] # y[1] \/ x[2] # y[2]
      BY <1>5, <2>3
    <3> QED
      BY <1>6, <1>7, <3>1
  <2> QED
    BY <2>1, <2>2, <2>3 DEF StrictOrder
<1>9. /\ N \in Nat /\ o \in [1 .. N -> P]
      /\ \A x \in P : \E k \in 1 .. N : o[k] = x
  BY <1>4, <1>8, ArrangedFacts, SMTT(40)
<1>10. all = [k \in 1 .. N |-> lists[o[k][1]][o[k][2]]]
  BY DEF Joined, PlacesOf, P, R
<1> HIDE DEF o, N, all
<1>11. ASSUME NEW x \in P PROVE lists[x[1]][x[2]] \in S
  BY <1>1, <1>2, <1>5
<1>12. all \in [1 .. N -> S]
  BY <1>9, <1>10, <1>11
<1>13. all \in Seq(S) /\ Len(all) = N
  BY <1>9, <1>12, SeqDef, LenProperties
<1>14. \A i \in DOMAIN lists : \A j \in DOMAIN lists[i] : \E k \in 1 .. N : o[k] = <<i, j>>
  <2>1. \A i \in DOMAIN lists : \A j \in DOMAIN lists[i] : <<i, j>> \in P
    BY <1>1, <1>2, <1>3
  <2> QED
    BY <1>9, <2>1
<1>15. \A k \in 1 .. N : all[k] = lists[o[k][1]][o[k][2]]
  BY <1>10
<1>16. IsJoining(all, lists)
  BY <1>9, <1>13, <1>14, <1>15 DEF IsJoining, P
<1> QED
  BY <1>13, <1>16 DEF all

(***************************************************************************)
(* A sorted list put above another and merged with it by timestamp comes   *)
(* back as it was when the members of its session are picked out.          *)
(***************************************************************************)
IsOrdered(list) == \A k, l \in DOMAIN list : k < l => list[k].t >= list[l].t

BroughtFor(s, added, old) ==
  /\ \A k \in DOMAIN added : added[k].s = s
  /\ \A i \in DOMAIN old : old[i].s # s

PickedOut(list, s) == Kept(list, {i \in DOMAIN list : list[i].s = s})

LEMMA BroughtBack ==
  ASSUME NEW S, \A x \in S : x.t \in Int,
         NEW added \in Seq(S), NEW old \in Seq(S), NEW s, BroughtFor(s, added, old), IsOrdered(added)
  PROVE  PickedOut(NewestFirst(added \o old), s) = added
<1> USE DEF BroughtFor, IsOrdered
<1> DEFINE all == added \o old
           sorted == NewestFirst(all)
           kept == {i \in DOMAIN sorted : sorted[i].s = s}
           left == Kept(sorted, kept)
           size == Len(added)
           N == size + Len(old)
           M == Len(left)
<1>1. /\ size \in Nat /\ DOMAIN added = 1 .. size /\ Len(old) \in Nat /\ DOMAIN old = 1 .. Len(old)
      /\ \A k \in 1 .. size : added[k] \in S /\ added[k].t \in Int
  <2>1. size \in Nat /\ DOMAIN added = 1 .. size /\ Len(old) \in Nat /\ DOMAIN old = 1 .. Len(old)
    BY LenProperties
  <2>2. \A k \in 1 .. size : added[k] \in S
    BY <2>1, ElementOfSeq
  <2> QED
    BY <2>1, <2>2
<1>2. /\ all \in Seq(S) /\ Len(all) = N
      /\ \A k \in 1 .. N : all[k] = IF k <= size THEN added[k] ELSE old[k - size]
  BY <1>1, ConcatProperties
<1> HIDE DEF all, size
<1>3. sorted \in Seq(S) /\ Len(sorted) = N /\ IsSorting(sorted, all)
  BY <1>2, NewestFirstFacts
<1> HIDE DEF sorted
<1>4. N \in Nat /\ DOMAIN sorted = 1 .. N
  BY <1>1, <1>3, LenProperties
<1>5. left \in Seq(S) /\ IsFiltering(left, sorted, kept)
  <2>1. kept \subseteq DOMAIN sorted
    OBVIOUS
  <2> HIDE DEF kept
  <2> QED
    BY <1>3, <2>1, KeptFacts
<1>6. \A i : i \in kept <=> i \in 1 .. N /\ sorted[i].s = s
  BY <1>4
<1> HIDE DEF kept, left
<1>7. M \in Nat /\ DOMAIN left = 1 .. M
  BY <1>5, LenProperties
<1> HIDE DEF N, M
<1>8. PICK o \in [1 .. N -> 1 .. N] :
        /\ \A k \in 1 .. N : sorted[k] = all[o[k]]
        /\ \A i \in 1 .. N : \E k \in 1 .. N : o[k] = i
        /\ \A k, l \in 1 .. N : k < l => sorted[k].t >= sorted[l].t
        /\ \A k, l \in 1 .. N : k < l /\ sorted[k].t = sorted[l].t => o[k] < o[l]
  <2>1. N = Len(all)
    BY <1>2
  <2>2. IsSorting(sorted, all)
    BY <1>3
  <2> QED
    BY <2>1, <2>2 DEF IsSorting
<1>9. PICK q \in [1 .. M -> kept] :
        /\ \A k \in 1 .. M : left[k] = sorted[q[k]]
        /\ \A k, l \in 1 .. M : k < l => q[k] < q[l]
        /\ \A i \in kept : \E k \in 1 .. M : q[k] = i
  BY <1>5 DEF IsFiltering, M
<1>10. N = size + Len(old)
  BY DEF N
<1>11. ASSUME NEW i \in 1 .. N PROVE i \in kept <=> o[i] \in 1 .. size
  <2>1. o[i] \in 1 .. N /\ sorted[i] = all[o[i]]
    BY <1>8
  <2>2. CASE o[i] <= size
    <3>1. o[i] \in 1 .. size /\ sorted[i] = added[o[i]]
      BY <1>1, <1>2, <2>1, <2>2
    <3> QED
      BY <1>1, <1>6, <3>1
  <2>3. CASE ~ (o[i] <= size)
    <3>1. o[i] - size \in 1 .. Len(old) /\ sorted[i] = old[o[i] - size] /\ o[i] \notin 1 .. size
      BY <1>1, <1>2, <1>10, <2>1, <2>3
    <3> QED
      BY <1>1, <1>6, <3>1
  <2> QED
    BY <2>2, <2>3
<1> DEFINE place == [k \in 1 .. M |-> o[q[k]]]
<1>12. ASSUME NEW k \in 1 .. M
       PROVE  q[k] \in 1 .. N /\ place[k] = o[q[k]] /\ place[k] \in 1 .. size /\ sorted[q[k]] = added[place[k]]
  <2>1. q[k] \in 1 .. N /\ place[k] = o[q[k]]
    BY <1>6, <1>9
  <2>2. place[k] \in 1 .. size
    BY <1>9, <1>11, <2>1
  <2>3. place[k] \in 1 .. N /\ place[k] <= size
    BY <1>1, <1>10, <2>2
  <2> QED
    BY <1>2, <1>8, <2>1, <2>2, <2>3
<1>13. place \in [1 .. M -> 1 .. size]
  BY <1>12
<1> HIDE DEF place
<1>14. ASSUME NEW k \in 1 .. M, NEW l \in 1 .. M, k < l PROVE place[k] < place[l]
  <2>1. q[k] < q[l] /\ q[k] \in 1 .. N /\ q[l] \in 1 .. N
    BY <1>9, <1>12, <1>14
  <2>2. added[place[k]].t >= added[place[l]].t
    <3>1. sorted[q[k]].t >= sorted[q[l]].t
      BY <1>8, <2>1
    <3> QED
      BY <1>12, <3>1
  <2>3. CASE added[place[k]].t = added[place[l]].t
    <3>1. sorted[q[k]].t = sorted[q[l]].t
      BY <1>12, <2>3
    <3>2. o[q[k]] < o[q[l]]
      BY <1>8, <2>1, <3>1
    <3> QED
      BY <1>12, <3>2
  <2>4. CASE added[place[k]].t # added[place[l]].t
    <3>1. place[k] \in 1 .. size /\ place[l] \in 1 .. size
      BY <1>12
    <3>2. added[place[k]].t \in Int /\ added[place[l]].t \in Int
      BY <1>1, <3>1
    <3>3. ~ (place[l] < place[k]) /\ place[l] # place[k]
      BY <1>1, <2>2, <2>4, <3>1, <3>2
    <3> QED
      BY <1>1, <3>1, <3>3
  <2> QED
    BY <2>3, <2>4
<1>15. ASSUME NEW i \in 1 .. size PROVE \E k \in 1 .. M : place[k] = i
  <2>1. i \in 1 .. N
    BY <1>1, <1>10
  <2>2. PICK j \in 1 .. N : o[j] = i
    BY <1>8, <2>1
  <2>3. j \in kept
    BY <1>11, <2>2
  <2>4. PICK k \in 1 .. M : q[k] = j
    BY <1>9, <2>3
  <2> QED
    BY <1>12, <2>2, <2>4
<1>16. M = size /\ \A k \in 1 .. M : place[k] = k
  <2>1. size \in Nat
    BY <1>1
  <2>2. Increases(place, M)
    BY <1>14 DEF Increases
  <2>3. Covers(place, M, size)
    BY <1>15 DEF Covers
  <2>4. M = size /\ place = [k \in 1 .. M |-> k]
    BY <1>7, <1>13, <2>1, <2>2, <2>3, IncreasingOnto
  <2> QED
    BY <2>4
<1>17. \A k \in 1 .. size : left[k] = added[k]
  BY <1>9, <1>12, <1>16
<1>18. left = added
  BY <1>5, <1>7, <1>16, <1>17, SeqEqual DEF M, size
<1> QED
  BY <1>18 DEF PickedOut, left, kept, sorted, all

(***************************************************************************)
(* Of a list cut off after its first m members, what is picked out is the  *)
(* beginning of what is picked out of the whole list; the rest of that     *)
(* comes from behind the cut.                                              *)
(***************************************************************************)
IsBeginning(part, full) == Len(part) <= Len(full) /\ \A k \in DOMAIN part : part[k] = full[k]

RestIsBehind(part, full, list, m) ==
  \A k \in Len(part) + 1 .. Len(full) : \E i \in m + 1 .. Len(list) : full[k] = list[i]

LEMMA PickedOutOfCut ==
  ASSUME NEW S, NEW list \in Seq(S), NEW m \in Nat, m <= Len(list), NEW s
  PROVE  LET part == PickedOut(SubSeq(list, 1, m), s)
             full == PickedOut(list, s)
         IN  part \in Seq(S) /\ full \in Seq(S) /\ IsBeginning(part, full) /\ RestIsBehind(part, full, list, m)
<1> DEFINE cut == SubSeq(list, 1, m)
           kept == {i \in DOMAIN list : list[i].s = s}
           keptCut == {i \in DOMAIN cut : cut[i].s = s}
           full == Kept(list, kept)
           part == Kept(cut, keptCut)
           N == Len(list)
           M == Len(full)
           L == Len(part)
<1>1. N \in Nat /\ DOMAIN list = 1 .. N
  BY LenProperties
<1>2. cut \in Seq(S) /\ DOMAIN cut = 1 .. m /\ \A i \in 1 .. m : cut[i] = list[i]
  <2>1. cut \in Seq(S) /\ Len(cut) = m /\ \A i \in 1 .. m : cut[i] = list[i]
    <3>1. m \in 0 .. N
      BY <1>1
    <3> QED
      BY <1>1, <3>1, SubSeqProperties
  <2> HIDE DEF cut
  <2> QED
    BY <2>1, LenProperties
<1> HIDE DEF cut
<1>3. /\ \A i : i \in kept <=> i \in 1 .. N /\ list[i].s = s
      /\ \A i : i \in keptCut <=> i \in kept /\ i <= m
  BY <1>1, <1>2
<1>4. full \in Seq(S) /\ IsFiltering(full, list, kept)
  <2>1. kept \subseteq DOMAIN list
    OBVIOUS
  <2> HIDE DEF kept
  <2> QED
    BY <2>1, KeptFacts
<1>5. part \in Seq(S) /\ IsFiltering(part, cut, keptCut)
  <2>1. keptCut \subseteq DOMAIN cut
    OBVIOUS
  <2> HIDE DEF keptCut
  <2> QED
    BY <1>2, <2>1, KeptFacts
<1> HIDE DEF kept, keptCut, full, part
<1>6. M \in Nat /\ L \in Nat /\ DOMAIN part = 1 .. L /\ DOMAIN full = 1 .. M
  BY <1>4, <1>5, LenProperties
<1>7. PICK q \in [1 .. M -> kept] :
        /\ \A k \in 1 .. M : full[k] = list[q[k]]
        /\ \A k, l \in 1 .. M : k < l => q[k] < q[l]
        /\ \A i \in kept : \E k \in 1 .. M : q[k] = i
  BY <1>4 DEF IsFiltering
<1>8. PICK p \in [1 .. L -> keptCut] :
        /\ \A k \in 1 .. L : part[k] = cut[p[k]]
        /\ \A k, l \in 1 .. L : k < l => p[k] < p[l]
        /\ \A i \in keptCut : \E k \in 1 .. L : p[k] = i
  BY <1>5 DEF IsFiltering
<1> HIDE DEF N, M, L
<1>9. \A k \in 1 .. M : q[k] \in 1 .. N /\ q[k] \in kept
  BY <1>3, <1>7
<1>10. \A k \in 1 .. L : p[k] \in 1 .. N /\ p[k] \in kept /\ p[k] <= m
  BY <1>3, <1>8
<1> DEFINE place == [k \in 1 .. L |-> CHOOSE l \in 1 .. M : q[l] = p[k]]
<1>11. \A k \in 1 .. L : place[k] \in 1 .. M /\ q[place[k]] = p[k]
  BY <1>7, <1>10
<1>12. place \in [1 .. L -> 1 .. M]
  BY <1>11
<1> HIDE DEF place
<1>13. ASSUME NEW k \in 1 .. L, NEW l \in 1 .. L, k < l PROVE place[k] < place[l]
  <2>1. q[place[k]] < q[place[l]]
    BY <1>8, <1>11, <1>13
  <2>2. ~ (place[l] < place[k]) /\ place[l] # place[k]
    BY <1>6, <1>7, <1>9, <1>11, <2>1
  <2> QED
    BY <1>6, <1>11, <2>2
<1>14. ASSUME NEW l \in 1 .. M, q[l] <= m PROVE \E k \in 1 .. L : place[k] = l
  <2>1. q[l] \in keptCut
    BY <1>3, <1>9, <1>14
  <2>2. PICK k \in 1 .. L : p[k] = q[l]
    BY <1>8, <2>1
  <2>3. q[place[k]] = q[l] /\ place[k] \in 1 .. M
    BY <1>11, <2>2
  <2>4. ~ (place[k] < l) /\ ~ (l < place[k])
    BY <1>7, <1>9, <2>3
  <2> QED
    BY <1>6, <2>3, <2>4
<1>15. /\ L <= M /\ \A k \in 1 .. L : place[k] = k
       /\ \A l \in L + 1 .. M : ~ (q[l] <= m)
  <2>1. CASE L = 0
    BY <1>6, <1>14, <2>1
  <2>2. CASE L # 0
    <3> DEFINE K == place[L]
    <3>1. L \in 1 .. L /\ K \in 1 .. M
      BY <1>6, <1>11, <2>2
    <3>2. \A k \in 1 .. L : place[k] \in 1 .. K
      BY <1>6, <1>11, <1>13, <3>1
    <3>3. place \in [1 .. L -> 1 .. K]
      BY <1>12, <3>2
    <3>4. ASSUME NEW l \in 1 .. K PROVE \E k \in 1 .. L : place[k] = l
      <4>1. l \in 1 .. M /\ (l = K \/ l < K)
        BY <1>6, <3>1
      <4>2. q[K] <= m
        BY <1>10, <1>11, <3>1
      <4>3. q[l] <= m
        BY <1>7, <1>9, <3>1, <4>1, <4>2
      <4> QED
        BY <1>14, <4>1, <4>3
    <3>5. K \in Nat
      BY <1>6, <3>1
    <3> HIDE DEF K
    <3>6. Increases(place, L) /\ Covers(place, L, K)
      BY <1>13, <3>4 DEF Increases, Covers
    <3>7. L = K /\ place = [k \in 1 .. L |-> k]
      BY <1>6, <3>3, <3>5, <3>6, IncreasingOnto
    <3>8. \A k \in 1 .. L : place[k] = k
      BY <3>7
    <3>9. \A l \in L + 1 .. M : ~ (q[l] <= m)
      BY <1>6, <1>14, <3>8
    <3> QED
      BY <1>6, <3>1, <3>7, <3>8, <3>9
  <2> QED
    BY <2>1, <2>2
<1>16. \A k \in 1 .. L : part[k] = full[k]
  <2> SUFFICES ASSUME NEW k \in 1 .. L PROVE part[k] = full[k]
    OBVIOUS
  <2>1. k \in 1 .. M /\ q[k] = p[k]
    BY <1>6, <1>11, <1>15
  <2>2. p[k] \in 1 .. m
    BY <1>1, <1>10
  <2> QED
    BY <1>2, <1>7, <1>8, <2>1, <2>2
<1>17. \A k \in L + 1 .. M : \E i \in m + 1 .. N : full[k] = list[i]
  <2> SUFFICES ASSUME NEW k \in L + 1 .. M PROVE \E i \in m + 1 .. N : full[k] = list[i]
    OBVIOUS
  <2>1. k \in 1 .. M
    BY <1>6
  <2>2. q[k] \in m + 1 .. N
    BY <1>1, <1>9, <1>15, <2>1
  <2> QED
    BY <1>7, <2>1, <2>2
<1>18. IsBeginning(part, full)
  BY <1>6, <1>15, <1>16 DEF IsBeginning, L, M
<1>19. RestIsBehind(part, full, list, m)
  BY <1>17 DEF RestIsBehind, L, M, N
<1> QED
  BY <1>4, <1>5, <1>18, <1>19 DEF PickedOut, part, full, kept, keptCut, cut

=============================================================================
