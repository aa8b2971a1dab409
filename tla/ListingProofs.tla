---------------------------- MODULE ListingProofs ----------------------------
(***************************************************************************)
(* What Newest and Without return, for every finite set of numbers and     *)
(* every list.                                                             *)
(***************************************************************************)
EXTENDS Listing, FiniteSetTheorems, TLAPS

-----------------------------------------------------------------------------
(* Every number below the cardinality is the count of the members above    *)
(* just one member.                                                        *)
LEMMA AboveInjective ==
    ASSUME NEW S, IsFiniteSet(S), S \subseteq Nat, NEW n \in S, NEW p \in S, n < p
    PROVE  Cardinality({m \in S : m > p}) < Cardinality({m \in S : m > n})
<1> DEFINE A == {m \in S : m > p}
           B == {m \in S : m > n}
<1>0. /\ \A m \in S : m > p => m > n
      /\ p > n /\ ~(p > p)
  <2>1. n \in Nat /\ p \in Nat /\ \A m \in S : m \in Nat
    OBVIOUS
  <2>2. QED
    BY <2>1
<1>1. A \subseteq B /\ p \in B /\ p \notin A
  BY <1>0
<1>2. IsFiniteSet(B) /\ Cardinality(B) \in Nat
  BY FS_Subset, FS_CardinalityType, B \in SUBSET S
<1>3. Cardinality(A) <= Cardinality(B) /\ (Cardinality(B) = Cardinality(A) => B = A)
  BY <1>1, <1>2, FS_Subset, A \in SUBSET B
<1>4. Cardinality(A) \in Nat
  BY <1>1, <1>2, FS_Subset, FS_CardinalityType, A \in SUBSET B
<1>5. QED
  BY <1>1, <1>2, <1>3, <1>4

LEMMA AboveOnto ==
    ASSUME NEW S, IsFiniteSet(S), S \subseteq Nat, NEW k \in 1 .. Cardinality(S)
    PROVE  \E n \in S : Cardinality({m \in S : m > n}) = k - 1
<1> DEFINE c == Cardinality(S)
           rank == [n \in S |-> Cardinality({m \in S : m > n})]
<1>1. c \in Nat
  BY FS_CardinalityType
<1>2. ASSUME NEW n \in S PROVE rank[n] \in 0 .. (c - 1)
  <2> DEFINE A == {m \in S : m > n}
  <2>1. A \in SUBSET S /\ n \notin A
    BY n \in Nat
  <2>2. IsFiniteSet(A) /\ Cardinality(A) <= c /\ (c = Cardinality(A) => S = A)
    BY <2>1, FS_Subset
  <2>3. Cardinality(A) \in Nat
    BY <2>2, FS_CardinalityType
  <2>4. Cardinality(A) # c
    BY <2>1, <2>2
  <2>5. QED
    BY <1>1, <2>2, <2>3, <2>4
<1>3. \A n, p \in S : rank[n] = rank[p] => n = p
  <2>1. SUFFICES ASSUME NEW n \in S, NEW p \in S, rank[n] = rank[p], n # p
                 PROVE  FALSE
    OBVIOUS
  <2>2. rank[n] \in Nat /\ rank[p] \in Nat
    BY <1>2
  <2>3. n \in Nat /\ p \in Nat
    OBVIOUS
  <2>4. CASE n < p
    <3>1. rank[p] < rank[n]
      BY <2>4, AboveInjective
    <3>2. QED BY <2>1, <2>2, <3>1
  <2>5. CASE p < n
    <3>1. rank[n] < rank[p]
      BY <2>5, AboveInjective
    <3>2. QED BY <2>1, <2>2, <3>1
  <2>6. QED
    BY <2>1, <2>3, <2>4, <2>5
<1>4. rank \in Injection(S, 0 .. (c - 1))
  <2>1. rank \in [S -> 0 .. (c - 1)]
    BY <1>2
  <2>2. QED
    BY <1>3, <2>1 DEF Injection, IsInjective
<1>5. IsFiniteSet(0 .. (c - 1)) /\ Cardinality(0 .. (c - 1)) = c
  <2> HIDE DEF c
  <2>1. 0 \in Int /\ c - 1 \in Int /\ (0 > c - 1 <=> c = 0) /\ (c - 1) - 0 + 1 = c
    BY <1>1
  <2>2. QED
    BY <1>1, <2>1, FS_Interval
<1>6. rank \in Surjection(S, 0 .. (c - 1))
  BY <1>4, <1>5, FS_Injection
<1>7. k - 1 \in 0 .. (c - 1)
  BY <1>1
<1>8. \E n \in S : rank[n] = k - 1
  BY <1>6, <1>7 DEF Surjection
<1>9. QED
  BY <1>8

(* The newest first: the members, each once, in falling order.             *)
THEOREM NewestFirst ==
    ASSUME NEW S, IsFiniteSet(S), S \subseteq Nat
    PROVE  /\ Newest(S) \in Seq(S)
           /\ Len(Newest(S)) = Cardinality(S)
           /\ \A i, j \in 1 .. Cardinality(S) : i < j => Newest(S)[i] > Newest(S)[j]
           /\ \A n \in S : \E i \in 1 .. Cardinality(S) : Newest(S)[i] = n
<1> DEFINE c == Cardinality(S)
           list == Newest(S)
           Above(n) == Cardinality({m \in S : m > n})
<1>1. c \in Nat
  BY FS_CardinalityType
<1>2. ASSUME NEW k \in 1 .. c
      PROVE  list[k] \in S /\ Above(list[k]) = k - 1
  <2>1. \E n \in S : Above(n) = k - 1
    BY AboveOnto
  <2>2. list[k] = CHOOSE n \in S : Above(n) = k - 1
    BY DEF Newest
  <2>3. QED
    BY <2>1, <2>2
<1>3. list \in [1 .. c -> S]
  BY <1>2 DEF Newest
<1>4. list \in Seq(S) /\ Len(list) = c
  BY <1>1, <1>3
<1>5. ASSUME NEW i \in 1 .. c, NEW j \in 1 .. c, i < j
      PROVE  list[i] > list[j]
  <2>1. list[i] \in S /\ list[j] \in S /\ Above(list[i]) = i - 1 /\ Above(list[j]) = j - 1
    BY <1>2
  <2>2. list[i] # list[j]
    BY <1>1, <1>5, <2>1
  <2>3. list[i] < list[j] => Above(list[j]) < Above(list[i])
    BY <2>1, AboveInjective
  <2>4. list[i] \in Nat /\ list[j] \in Nat
    BY <2>1
  <2> HIDE DEF Above, list
  <2>5. QED
    BY <1>1, <1>5, <2>1, <2>2, <2>3, <2>4
<1>6. ASSUME NEW n \in S
      PROVE  \E i \in 1 .. c : list[i] = n
  <2> DEFINE A == {m \in S : m > n}
  <2>1. A \in SUBSET S /\ n \notin A
    BY n \in Nat
  <2>2. IsFiniteSet(A) /\ Cardinality(A) <= c /\ (c = Cardinality(A) => S = A)
    BY <2>1, FS_Subset
  <2>3. Above(n) \in Nat /\ Above(n) < c
    <3>1. Cardinality(A) \in Nat
      BY <2>2, FS_CardinalityType
    <3>2. Cardinality(A) # c
      BY <2>1, <2>2
    <3>3. QED BY <1>1, <2>2, <3>1, <3>2
  <2>4. Above(n) + 1 \in 1 .. c
    BY <1>1, <2>3
  <2>5. PICK i \in 1 .. c : i = Above(n) + 1
    BY <2>4
  <2>6. list[i] \in S /\ Above(list[i]) = i - 1
    BY <1>2
  <2>7. Above(list[i]) = Above(n)
    BY <2>3, <2>5, <2>6
  <2>8. list[i] < n => Above(n) < Above(list[i])
    BY <2>6, AboveInjective
  <2>9. n < list[i] => Above(list[i]) < Above(n)
    BY <2>6, AboveInjective
  <2>10. n \in Nat /\ list[i] \in Nat
    BY <2>6
  <2> HIDE DEF Above, list
  <2>11. list[i] = n
    BY <2>3, <2>7, <2>8, <2>9, <2>10
  <2>12. QED
    BY <2>11
<1>7. QED
  BY <1>4, <1>5, <1>6

-----------------------------------------------------------------------------
(* places are those, in their order, of what list has and S has not.       *)
PlacesOf(places, list, S) ==
    /\ \A k \in 1 .. Len(places) : list[places[k]] \notin S
    /\ \A i, j \in 1 .. Len(places) : i < j => places[i] < places[j]
    /\ \A p \in 1 .. Len(list) :
          list[p] \notin S => \E k \in 1 .. Len(places) : places[k] = p

LEMMA WithoutPlaces ==
    ASSUME NEW T, NEW list \in Seq(T), NEW S
    PROVE  \E places \in Seq(1 .. Len(list)) :
             /\ PlacesOf(places, list, S)
             /\ Without(list, S) = [k \in 1 .. Len(places) |-> list[places[k]]]
<1> DEFINE P == {i \in DOMAIN list : list[i] \notin S}
           n == Cardinality(P)
           down == Newest(P)
           places == Reverse(down)
<1>1. Len(list) \in Nat /\ DOMAIN list = 1 .. Len(list)
  OBVIOUS
<1>2. P \subseteq 1 .. Len(list) /\ P \subseteq Nat /\ IsFiniteSet(P)
  <2>1. IsFiniteSet(1 .. Len(list))
    BY <1>1, FS_Interval
  <2>2. P \subseteq 1 .. Len(list)
    BY <1>1
  <2>3. QED
    BY <2>1, <2>2, FS_Subset, P \in SUBSET (1 .. Len(list))
<1>3. n \in Nat
  BY <1>2, FS_CardinalityType
<1> HIDE DEF P
<1>4. /\ down \in Seq(P) /\ Len(down) = n
      /\ \A i, j \in 1 .. n : i < j => down[i] > down[j]
      /\ \A p \in P : \E i \in 1 .. n : down[i] = p
  BY <1>2, NewestFirst
<1> HIDE DEF down, n
<1>5. places = [i \in 1 .. n |-> down[n - i + 1]]
  BY <1>4 DEF Reverse
<1>6. \A i \in 1 .. n : n - i + 1 \in 1 .. n /\ n - (n - i + 1) + 1 = i
  BY <1>3
<1>7. \A i \in 1 .. n : down[i] \in P
  BY <1>4
<1> HIDE DEF places
<1>8. places \in [1 .. n -> 1 .. Len(list)]
  <2>1. \A i \in 1 .. n : places[i] \in 1 .. Len(list)
    BY <1>2, <1>5, <1>6, <1>7
  <2>2. QED
    BY <1>5, <2>1
<1>9. Without(list, S) = [k \in 1 .. n |-> list[places[k]]]
  <2>1. DOMAIN places = 1 .. n
    BY <1>8
  <2>2. Without(list, S) = [k \in DOMAIN places |-> list[places[k]]]
    BY DEF Without, places, down, P
  <2>3. QED
    BY <2>1, <2>2
<1>10. \A k \in 1 .. n : list[places[k]] \notin S
  BY <1>5, <1>6, <1>7 DEF P
<1>11. ASSUME NEW i \in 1 .. n, NEW j \in 1 .. n, i < j
       PROVE  places[i] < places[j]
  <2>1. /\ n - j + 1 < n - i + 1
        /\ n - j + 1 \in 1 .. n /\ n - i + 1 \in 1 .. n
    BY <1>3, <1>11
  <2>2. down[n - j + 1] > down[n - i + 1]
    BY <1>4, <2>1
  <2>3. down[n - j + 1] \in Nat /\ down[n - i + 1] \in Nat
    BY <1>2, <1>7, <2>1
  <2>4. QED
    BY <1>5, <2>2, <2>3
<1>12. ASSUME NEW p \in 1 .. Len(list), list[p] \notin S
       PROVE  \E k \in 1 .. n : places[k] = p
  <2>1. p \in P
    BY <1>1, <1>12 DEF P
  <2>2. PICK i \in 1 .. n : down[i] = p
    BY <1>4, <2>1
  <2>3. n - i + 1 \in 1 .. n /\ places[n - i + 1] = p
    BY <1>5, <1>6, <2>2
  <2>4. QED
    BY <2>3
<1>13. places \in Seq(1 .. Len(list)) /\ Len(places) = n
  BY <1>3, <1>8
<1>14. PlacesOf(places, list, S)
  BY <1>10, <1>11, <1>12, <1>13 DEF PlacesOf
<1>15. QED
  BY <1>9, <1>13, <1>14

(* A filtered list has what was there and is not of S, and repeats nothing *)
(* if the list did not.                                                    *)
THEOREM WithoutKeeps ==
    ASSUME NEW T, NEW list \in Seq(T), NEW S
    PROVE  /\ Without(list, S) \in Seq(T)
           /\ Range(Without(list, S)) = Range(list) \ S
           /\ IsInjective(list) => IsInjective(Without(list, S))
<1>0. PICK places \in Seq(1 .. Len(list)) :
         /\ PlacesOf(places, list, S)
         /\ Without(list, S) = [k \in 1 .. Len(places) |-> list[places[k]]]
  BY WithoutPlaces
<1> DEFINE n == Len(places)
           short == Without(list, S)
<1>1. /\ n \in Nat
      /\ short = [k \in 1 .. n |-> list[places[k]]]
      /\ \A k \in 1 .. n : places[k] \in 1 .. Len(list)
      /\ \A k \in 1 .. n : list[places[k]] \notin S
      /\ \A i, j \in 1 .. n : i < j => places[i] < places[j]
      /\ \A p \in 1 .. Len(list) :
            list[p] \notin S => \E k \in 1 .. n : places[k] = p
  BY <1>0 DEF PlacesOf
<1> HIDE DEF n, short
<1>2. \A k \in 1 .. n : places[k] \in 1 .. Len(list) /\ list[places[k]] \in T
  <2>1. \A p \in 1 .. Len(list) : list[p] \in T
    OBVIOUS
  <2>2. QED BY <1>1, <2>1
<1>3. DOMAIN short = 1 .. n /\ \A k \in 1 .. n : short[k] = list[places[k]]
  BY <1>1
<1>4. short \in Seq(T)
  <2>1. short \in [1 .. n -> T]
    BY <1>1, <1>2
  <2>2. n \in Nat
    BY <1>1
  <2>3. QED BY <2>1, <2>2
<1>5. Range(short) = Range(list) \ S
  <2>1. DOMAIN list = 1 .. Len(list)
    OBVIOUS
  <2>2. ASSUME NEW x \in Range(short) PROVE x \in Range(list) \ S
    <3>1. PICK k \in 1 .. n : x = list[places[k]]
      BY <1>3 DEF Range
    <3>2. QED
      BY <1>1, <1>2, <2>1, <3>1 DEF Range
  <2>3. ASSUME NEW x \in Range(list) \ S PROVE x \in Range(short)
    <3>1. PICK p \in 1 .. Len(list) : x = list[p]
      BY <2>1 DEF Range
    <3>2. PICK k \in 1 .. n : places[k] = p
      BY <1>1, <3>1
    <3>3. QED
      BY <1>3, <3>1, <3>2 DEF Range
  <2>4. QED
    BY <2>2, <2>3
<1>6. ASSUME IsInjective(list) PROVE IsInjective(short)
  <2>1. SUFFICES ASSUME NEW i \in 1 .. n, NEW j \in 1 .. n, short[i] = short[j]
                 PROVE  i = j
    BY <1>3 DEF IsInjective
  <2>2. places[i] = places[j]
    BY <1>2, <1>3, <1>6, <2>1 DEF IsInjective
  <2>3. ~(i < j) /\ ~(j < i)
    <3>1. places[i] \in Nat
      BY <1>2
    <3>2. ~(places[i] < places[i])
      BY <3>1
    <3>3. QED
      BY <1>1, <2>2, <3>2
  <2>4. QED
    BY <2>3
<1>7. QED
  BY <1>4, <1>5, <1>6 DEF short
=============================================================================
