---------------------------- MODULE Listing_proofs ----------------------------
(***************************************************************************)
(* What the lists of Listing hold and in which order, for every finite set *)
(* and every strict order of it.                                           *)
(*                                                                         *)
(* The rank of a member grows with the order, so the ranks of n members    *)
(* are n different numbers below n: each place of the list has exactly one *)
(* member to take it.                                                      *)
(***************************************************************************)
EXTENDS Listing, FiniteSetTheorems, WellFoundedInduction, TLAPS

\* A set of naturals that has a member has a smallest one.
LEMMA SmallestExists ==
  ASSUME NEW S \in SUBSET Nat, S # {}
  PROVE  \E least \in S : \A n \in S : least <= n
<1>1. PICK least \in S : \A n \in S : <<n, least>> \notin OpToRel(<, Nat)
  BY NatLessThanWellFounded, WFMin
<1>2. \A n \in S : ~(n < least)
  BY <1>1 DEF OpToRel
<1>3. QED
  BY <1>2

LEMMA RankType ==
  ASSUME NEW S, IsFiniteSet(S), NEW before, IsStrictOrder(S, before), NEW x \in S
  PROVE  /\ Cardinality(S) \in Nat
         /\ Rank(S, before, x) \in Nat
         /\ Rank(S, before, x) < Cardinality(S)
<1> DEFINE earlier == {y \in S : <<y, x>> \in before}
<1>1. earlier \in SUBSET S /\ x \notin earlier
  BY DEF IsStrictOrder
<1>2. /\ IsFiniteSet(earlier)
      /\ Cardinality(earlier) <= Cardinality(S)
      /\ Cardinality(S) = Cardinality(earlier) => S = earlier
  BY <1>1, FS_Subset
<1>3. Cardinality(S) \in Nat /\ Cardinality(earlier) \in Nat
  BY <1>2, FS_CardinalityType
<1>4. Cardinality(earlier) # Cardinality(S)
  BY <1>1, <1>2
<1>5. Rank(S, before, x) = Cardinality(earlier)
  BY DEF Rank
<1> HIDE DEF earlier
<1>6. QED
  BY <1>2, <1>3, <1>4, <1>5

LEMMA RankAscends ==
  ASSUME NEW S, IsFiniteSet(S), NEW before, IsStrictOrder(S, before),
         NEW x \in S, NEW y \in S, <<x, y>> \in before
  PROVE  Rank(S, before, x) < Rank(S, before, y)
<1> DEFINE Earlier(z) == {w \in S : <<w, z>> \in before}
<1>1. /\ Earlier(x) \in SUBSET Earlier(y)
      /\ x \in Earlier(y)
      /\ x \notin Earlier(x)
  BY DEF IsStrictOrder
<1>2. IsFiniteSet(Earlier(y))
  <2>1. Earlier(y) \in SUBSET S
    OBVIOUS
  <2>2. QED
    BY <2>1, FS_Subset
<1>3. /\ Cardinality(Earlier(x)) <= Cardinality(Earlier(y))
      /\ Cardinality(Earlier(y)) = Cardinality(Earlier(x))
           => Earlier(y) = Earlier(x)
  BY <1>1, <1>2, FS_Subset
<1>4. Cardinality(Earlier(y)) # Cardinality(Earlier(x))
  BY <1>1, <1>3
<1>5. /\ Rank(S, before, x) = Cardinality(Earlier(x))
      /\ Rank(S, before, y) = Cardinality(Earlier(y))
  BY DEF Rank
<1>6. Rank(S, before, x) \in Nat /\ Rank(S, before, y) \in Nat
  BY RankType
<1> HIDE DEF Earlier
<1>7. QED
  BY <1>3, <1>4, <1>5, <1>6

\* No two members have the same rank, and every rank there is room for has
\* its member.
LEMMA RanksFill ==
  ASSUME NEW S, IsFiniteSet(S), NEW before, IsStrictOrder(S, before)
  PROVE  /\ \A x, y \in S : Rank(S, before, x) = Rank(S, before, y) => x = y
         /\ \A k \in 1..Cardinality(S) : \E x \in S : Rank(S, before, x) = k - 1
<1> DEFINE n == Cardinality(S)
           place == [x \in S |-> Rank(S, before, x) + 1]
<1>1. \A x \in S : Rank(S, before, x) \in Nat /\ Rank(S, before, x) < n
  BY RankType
<1>2. n \in Nat
  BY FS_CardinalityType
<1>3. ASSUME NEW x \in S, NEW y \in S, Rank(S, before, x) = Rank(S, before, y)
      PROVE  x = y
  <2>1. ASSUME <<x, y>> \in before PROVE FALSE
    BY <1>1, <1>3, <2>1, RankAscends
  <2>2. ASSUME <<y, x>> \in before PROVE FALSE
    BY <1>1, <1>3, <2>2, RankAscends
  <2>3. QED
    BY <2>1, <2>2 DEF IsStrictOrder
<1> HIDE DEF n
<1>4. place \in [S -> 1..n]
  BY <1>1, <1>2
<1>5. \A x, y \in S : place[x] = place[y] => x = y
  BY <1>1, <1>3
<1>6. place \in Injection(S, 1..n)
  BY <1>4, <1>5 DEF Injection, IsInjective
<1>7. IsFiniteSet(1..n) /\ Cardinality(1..n) = n
  BY <1>2, FS_Interval
<1>8. place \in Surjection(S, 1..n)
  <2>1. Cardinality(S) = Cardinality(1..n)
    BY <1>7 DEF n
  <2>2. QED
    BY <1>6, <1>7, <2>1, FS_Injection
<1>9. \A k \in 1..n : \E x \in S : place[x] = k
  BY <1>8 DEF Surjection
<1>10. \A k \in 1..n : \E x \in S : Rank(S, before, x) = k - 1
  BY <1>1, <1>2, <1>9
<1>11. QED
  BY <1>3, <1>10 DEF n

\* A sorted list holds each member of the set once and in order.
THEOREM InOrderLists ==
  ASSUME NEW S, IsFiniteSet(S), NEW before, IsStrictOrder(S, before)
  PROVE  LET list == InOrder(S, before)
         IN  /\ list \in Seq(S)
             /\ Len(list) = Cardinality(S)
             /\ \A x \in S : \E k \in DOMAIN list : list[k] = x
             /\ \A i, j \in DOMAIN list :
                  i < j => <<list[i], list[j]>> \in before
             /\ \A i, j \in DOMAIN list : list[i] = list[j] => i = j
<1> DEFINE n == Cardinality(S)
           list == InOrder(S, before)
<1>1. n \in Nat
  BY FS_CardinalityType
<1>2. DOMAIN list = 1..n
  BY DEF InOrder
<1>3. \A k \in 1..n : list[k] \in S /\ Rank(S, before, list[k]) = k - 1
  BY RanksFill DEF InOrder
<1>4. ASSUME NEW x \in S
      PROVE  \E k \in 1..n : list[k] = x
  <2>1. Rank(S, before, x) \in Nat /\ Rank(S, before, x) < n
    BY RankType
  <2>2. Rank(S, before, x) + 1 \in 1..n
    BY <1>1, <2>1
  <2>3. list[Rank(S, before, x) + 1] \in S
        /\ Rank(S, before, list[Rank(S, before, x) + 1]) = Rank(S, before, x)
    BY <1>3, <2>1, <2>2
  <2>4. list[Rank(S, before, x) + 1] = x
    BY <2>3, RanksFill
  <2>5. QED
    BY <2>2, <2>4
<1>5. ASSUME NEW i \in 1..n, NEW j \in 1..n, i < j
      PROVE  <<list[i], list[j]>> \in before
  <2>1. /\ list[i] \in S /\ Rank(S, before, list[i]) = i - 1
        /\ list[j] \in S /\ Rank(S, before, list[j]) = j - 1
    BY <1>3
  <2>2. ASSUME <<list[j], list[i]>> \in before PROVE FALSE
    <3>1. Rank(S, before, list[j]) < Rank(S, before, list[i])
      BY <2>1, <2>2, RankAscends
    <3>2. QED
      BY <1>1, <1>5, <2>1, <3>1
  <2>3. list[i] # list[j]
    BY <1>1, <1>5, <2>1
  <2>4. QED
    BY <2>1, <2>2, <2>3 DEF IsStrictOrder
<1>6. ASSUME NEW i \in 1..n, NEW j \in 1..n, list[i] = list[j]
      PROVE  i = j
  BY <1>1, <1>3, <1>6
<1>7. list \in [1..n -> S]
  BY <1>2, <1>3 DEF InOrder
<1> HIDE DEF list, n
<1>8. list \in Seq(S) /\ Len(list) = n
  BY <1>1, <1>7
<1>9. QED
  BY <1>2, <1>4, <1>5, <1>6, <1>8 DEF list, n

\* What is retained of a list is what it held of the set, and no value of it
\* is repeated that was not.
THEOREM RetainedHolds ==
  ASSUME NEW V, NEW list \in Seq(V), NEW kept
  PROVE  LET rest == Retained(list, kept)
         IN  /\ rest \in Seq(V)
             /\ {rest[k] : k \in DOMAIN rest} =
                  {list[i] : i \in DOMAIN list} \cap kept
             /\ (\A i, j \in DOMAIN list : list[i] = list[j] => i = j)
                  => \A i, j \in DOMAIN rest : rest[i] = rest[j] => i = j
<1> DEFINE places == Places(list, kept)
           order == InOrder(places, Ascending(places))
           rest == Retained(list, kept)
<1>1. DOMAIN list = 1..Len(list) /\ Len(list) \in Nat
  OBVIOUS
<1>2. places \in SUBSET (1..Len(list))
  BY <1>1 DEF Places
<1>3. IsFiniteSet(places)
  <2>1. IsFiniteSet(1..Len(list))
    BY <1>1, FS_Interval
  <2> HIDE DEF places
  <2>2. QED
    BY <1>2, <2>1, FS_Subset
<1>4. IsStrictOrder(places, Ascending(places))
  <2>1. \A i \in places : i \in Int
    BY <1>1, <1>2
  <2> HIDE DEF places
  <2>2. \A i, j \in places : <<i, j>> \in Ascending(places) <=> i < j
    BY DEF Ascending
  <2>3. QED
    BY <2>1, <2>2 DEF IsStrictOrder
<1>5. /\ order \in Seq(places)
      /\ \A i \in places : \E k \in DOMAIN order : order[k] = i
      /\ \A i, j \in DOMAIN order : order[i] = order[j] => i = j
  <2> HIDE DEF places
  <2>1. QED
    BY <1>3, <1>4, InOrderLists
<1>6. /\ DOMAIN order = 1..Len(order) /\ Len(order) \in Nat
      /\ \A k \in DOMAIN order : order[k] \in places
  <2> HIDE DEF places, order
  <2>1. QED
    BY <1>5
<1>7. rest = [k \in DOMAIN order |-> list[order[k]]]
  BY DEF Retained
<1>8. \A i \in places : i \in DOMAIN list /\ list[i] \in V /\ list[i] \in kept
  BY DEF Places
<1>9. \A i \in DOMAIN list : list[i] \in kept => i \in places
  BY DEF Places
<1> HIDE DEF places, order, rest
<1>10. rest \in [1..Len(order) -> V]
  BY <1>6, <1>7, <1>8
<1>11. rest \in Seq(V)
  BY <1>6, <1>10
<1>12. {rest[k] : k \in DOMAIN rest} = {list[i] : i \in DOMAIN list} \cap kept
  <2>1. ASSUME NEW k \in DOMAIN rest
        PROVE  rest[k] \in {list[i] : i \in DOMAIN list} \cap kept
    BY <1>6, <1>7, <1>8
  <2>2. ASSUME NEW i \in DOMAIN list, list[i] \in kept
        PROVE  \E k \in DOMAIN rest : rest[k] = list[i]
    BY <1>5, <1>7, <1>9, <2>2
  <2>3. QED
    BY <2>1, <2>2
<1>13. ASSUME \A i, j \in DOMAIN list : list[i] = list[j] => i = j,
              NEW i \in DOMAIN rest, NEW j \in DOMAIN rest, rest[i] = rest[j]
       PROVE  i = j
  BY <1>5, <1>6, <1>7, <1>8, <1>13
<1>14. QED
  BY <1>11, <1>12, <1>13 DEF rest
==============================================================================
