--------------------------- MODULE Migration_proofs ---------------------------
(***************************************************************************)
(* What the mint of record identifiers answers, for every radix, lengths   *)
(* and identifiers in use, and that a migration moves every record, loses  *)
(* and overwrites none, and tells the truth about it in its sidecar, for   *)
(* every source, target and sequence of failed runs.                       *)
(***************************************************************************)
EXTENDS Migration, Listing_proofs, FunctionTheorems

-----------------------------------------------------------------------------
(* The ranges of the code lengths *)

LEMMA RangeShape ==
  ASSUME NEW length \in Lengths
  PROVE  /\ FirstValue(length) \in Nat
         /\ ValueCount(length) \in Nat \ {0}
         /\ Power(length) \in Nat
         /\ FirstValue(length) + ValueCount(length) = Power(length)
<1>1. /\ Power(length - 1) \in Nat
      /\ Power(length) \in Nat
      /\ Power(length - 1) < Power(length)
  BY MintAssumption
<1>2. FirstValue(length) \in {0, Power(length - 1)}
  BY DEF FirstValue
<1>3. FirstValue(length) \in Nat /\ FirstValue(length) < Power(length)
  BY <1>1, <1>2
<1>4. QED
  BY <1>1, <1>3 DEF ValueCount

\* The range of each length ends where that of the next length begins: no
\* value lies between two of them and none in both (store.rs
\* RecordIdentifierCodeRange::new).
THEOREM RangesAdjoin ==
  ASSUME NEW length \in Lengths, length + 1 \in Lengths
  PROVE  /\ FirstValue(length + 1) = FirstValue(length) + ValueCount(length)
         /\ Codes(length) \cap Codes(length + 1) = {}
<1>1. length \in Int /\ length + 1 # MinLength /\ (length + 1) - 1 = length
  BY MintAssumption DEF Lengths
<1>2. FirstValue(length + 1) = Power(length)
  BY <1>1 DEF FirstValue
<1>3. FirstValue(length + 1) = FirstValue(length) + ValueCount(length)
  BY <1>2, RangeShape
<1>4. Codes(length) \cap Codes(length + 1) = {}
  BY <1>3, RangeShape DEF Codes
<1>5. QED
  BY <1>3, <1>4

\* A random draw lies in the range it is drawn for.
LEMMA DrawInRange ==
  ASSUME NEW length \in Lengths, NEW bits \in Bits
  PROVE  Draw(length, bits) \in Codes(length)
<1>1. bits \in Nat
  BY MintAssumption
<1>2. bits % ValueCount(length) \in 0..(ValueCount(length) - 1)
  BY <1>1, RangeShape
<1>3. QED
  BY <1>2, RangeShape DEF Draw, Codes

\* Whatever is in use and whatever the random source gives, the identifier
\* that is minted is not in use, and it is of the shortest length of which
\* one is left (store.rs next_identifier).
THEOREM MintIsFreshAndShortest ==
  ASSUME NEW used, NEW id, MayMint(used, id)
  PROVE  \E length \in Lengths :
           /\ id \in Codes(length) \ used
           /\ \A shorter \in Lengths :
                shorter < length => Codes(shorter) \subseteq used
<1>1. PICK length \in Lengths :
        /\ \A shorter \in Lengths :
             shorter < length => IsExhausted(shorter, used)
        /\ MayDraw(length, used, id) \/ IsFirstAvailable(length, used, id)
  BY DEF MayMint
<1>2. id \in Codes(length) \ used
  BY <1>1, DrawInRange DEF MayDraw, IsFirstAvailable
<1>3. QED
  BY <1>1, <1>2 DEF IsExhausted

\* Longer codes reach further.
LEMMA PowersAscend ==
  ASSUME NEW m \in Lengths, NEW n \in Lengths, m < n
  PROVE  Power(m) < Power(n)
<1> DEFINE Wrong == {k \in Nat : /\ m + k + 1 \in Lengths
                                 /\ ~(Power(m) < Power(m + k + 1))}
<1>1. m \in Nat /\ n \in Nat /\ n - m - 1 \in Nat /\ m + (n - m - 1) + 1 = n
  BY MintAssumption DEF Lengths
<1>2. \A length \in Lengths : Power(length) \in Nat
  BY MintAssumption
<1>3. ASSUME Wrong # {}
      PROVE  FALSE
  <2>1. Wrong \in SUBSET Nat
    OBVIOUS
  <2> HIDE DEF Wrong
  <2>2. PICK k \in Wrong : \A j \in Wrong : k <= j
    BY <1>3, <2>1, SmallestExists
  <2> USE DEF Wrong
  <2>3. k \in Nat /\ m + k + 1 \in Lengths /\ ~(Power(m) < Power(m + k + 1))
    BY <2>2
  <2>4. Power(m + k) < Power(m + k + 1)
    <3>1. (m + k + 1) - 1 = m + k
      BY <1>1, <2>3
    <3>2. Power((m + k + 1) - 1) < Power(m + k + 1)
      BY <2>3, MintAssumption
    <3>3. QED
      BY <3>1, <3>2
  <2>5. CASE k = 0
    <3>1. m + k = m
      BY <1>1, <2>5
    <3>2. QED
      BY <2>3, <2>4, <3>1
  <2>6. CASE k # 0
    <3>1. k - 1 \in Nat /\ m + (k - 1) + 1 = m + k
      BY <1>1, <2>3, <2>6
    <3>2. m + k \in Lengths
      BY <1>1, <2>3, <2>6, MintAssumption DEF Lengths
    <3>3. k - 1 \notin Wrong
      BY <2>2, <2>3, <3>1
    <3>4. Power(m) < Power(m + k)
      BY <3>1, <3>2, <3>3
    <3>5. Power(m) \in Nat /\ Power(m + k) \in Nat /\ Power(m + k + 1) \in Nat
      BY <1>2, <2>3, <3>2
    <3>6. QED
      BY <2>3, <2>4, <3>4, <3>5
  <2>7. QED
    BY <2>5, <2>6
<1>4. n - m - 1 \notin Wrong
  BY <1>3
<1>5. QED
  BY <1>1, <1>4

\* The codes of a length, by powers.
LEMMA CodesBetween ==
  ASSUME NEW length \in Lengths, NEW id \in Codes(length)
  PROVE  /\ id \in Nat
         /\ id < Power(length)
         /\ \A m \in Lengths : m < length => Power(m) <= id
         /\ id < Power(MaxLength)
<1>1. /\ FirstValue(length) \in Nat /\ ValueCount(length) \in Nat \ {0}
      /\ FirstValue(length) + ValueCount(length) = Power(length)
      /\ Power(length) \in Nat
  BY RangeShape
<1>2. id \in Nat /\ FirstValue(length) <= id /\ id < Power(length)
  BY <1>1 DEF Codes
<1>3. ASSUME NEW m \in Lengths, m < length
      PROVE  Power(m) <= id
  <2>1. /\ length # MinLength /\ length - 1 \in Lengths
        /\ (m = length - 1 \/ m < length - 1)
    BY <1>3, MintAssumption DEF Lengths
  <2>2. FirstValue(length) = Power(length - 1)
    BY <2>1 DEF FirstValue
  <2>3. Power(m) <= Power(length - 1)
    <3>1. Power(m) \in Nat /\ Power(length - 1) \in Nat
      BY <2>1, MintAssumption
    <3>2. QED
      BY <2>1, <3>1, PowersAscend
  <2>4. QED
    BY <1>2, <2>1, <2>2, <2>3, MintAssumption
<1>4. id < Power(MaxLength)
  <2>1. MaxLength \in Lengths /\ (length = MaxLength \/ length < MaxLength)
    BY MintAssumption DEF Lengths
  <2>2. Power(MaxLength) \in Nat
    BY <2>1, MintAssumption
  <2>3. QED
    BY <1>1, <1>2, <2>1, <2>2, PowersAscend
<1>5. QED
  BY <1>2, <1>3, <1>4

\* Every short code is a code of the length it is written with.
LEMMA ShortCodeHasLength ==
  ASSUME NEW id \in ShortCodes
  PROVE  /\ Digits(id) \in Lengths
         /\ id \in Codes(Digits(id))
<1> DEFINE Fits == {n \in Lengths : id < Power(n)}
<1>1. ShortCodes = 0..(Power(MaxLength) - 1)
  BY DEF ShortCodes, Power
<1>2. /\ MaxLength \in Lengths /\ Lengths \subseteq Nat
      /\ \A n \in Lengths : Power(n) \in Nat
  BY MintAssumption DEF Lengths
<1>3. id \in Nat /\ id < Power(MaxLength)
  BY <1>1, <1>2
<1>4. Fits # {} /\ Fits \in SUBSET Nat
  BY <1>2, <1>3
<1> HIDE DEF Fits
<1>5. PICK n \in Fits : \A m \in Fits : n <= m
  BY <1>4, SmallestExists
<1> USE DEF Fits
<1>6. /\ Digits(id) \in Lengths
      /\ id < Power(Digits(id))
      /\ \A m \in Lengths : id < Power(m) => Digits(id) <= m
  <2>1. Digits(id) = CHOOSE l \in Lengths :
                       id < Power(l) /\ \A m \in Lengths : id < Power(m) => l <= m
    BY DEF Digits, Power
  <2>2. \E l \in Lengths :
          id < Power(l) /\ \A m \in Lengths : id < Power(m) => l <= m
    BY <1>5
  <2>3. QED
    BY <2>1, <2>2
<1>7. FirstValue(Digits(id)) <= id
  <2>1. CASE Digits(id) = MinLength
    BY <1>3, <2>1 DEF FirstValue
  <2>2. CASE Digits(id) # MinLength
    <3>1. Digits(id) - 1 \in Lengths /\ ~(Digits(id) <= Digits(id) - 1)
      BY <1>6, <2>2, MintAssumption DEF Lengths
    <3>2. ~(id < Power(Digits(id) - 1)) /\ Power(Digits(id) - 1) \in Nat
      BY <1>2, <1>6, <3>1
    <3>3. FirstValue(Digits(id)) = Power(Digits(id) - 1)
      BY <2>2 DEF FirstValue
    <3>4. QED
      BY <1>3, <3>2, <3>3
  <2>3. QED
    BY <2>1, <2>2
<1>8. QED
  BY <1>3, <1>6, <1>7, RangeShape DEF Codes

\* An identifier is written with as many characters as the length it is a
\* code of.
LEMMA DigitsOfCode ==
  ASSUME NEW length \in Lengths, NEW id \in Codes(length)
  PROVE  id \in ShortCodes /\ Digits(id) = length
<1>1. /\ id \in Nat /\ id < Power(length) /\ id < Power(MaxLength)
      /\ \A m \in Lengths : m < length => Power(m) <= id
  BY CodesBetween
<1>2. /\ MaxLength \in Lengths /\ Lengths \subseteq Nat
      /\ \A n \in Lengths : Power(n) \in Nat
  BY MintAssumption DEF Lengths
<1>3. id \in ShortCodes
  BY <1>1, <1>2 DEF ShortCodes, Power
<1>4. Digits(id) = CHOOSE l \in Lengths :
                     id < Power(l) /\ \A m \in Lengths : id < Power(m) => l <= m
  BY DEF Digits, Power
<1>5. \A l \in Lengths :
        (id < Power(l) /\ \A m \in Lengths : id < Power(m) => l <= m) <=> l = length
  <2> TAKE l \in Lengths
  <2>1. \A m \in Lengths : id < Power(m) => length <= m
    BY <1>1, <1>2
  <2>2. QED
    BY <1>1, <1>2, <2>1
<1>6. QED
  BY <1>3, <1>4, <1>5

\* What is minted is a short code, not in use, and none that is free is
\* written with fewer characters.
LEMMA MintedIs ==
  ASSUME NEW used, NEW id, MayMint(used, id)
  PROVE  /\ id \in ShortCodes \ used
         /\ \A free \in ShortCodes \ used : Digits(id) <= Digits(free)
<1>1. PICK length \in Lengths :
        /\ id \in Codes(length) \ used
        /\ \A shorter \in Lengths : shorter < length => Codes(shorter) \subseteq used
  BY MintIsFreshAndShortest
<1>2. id \in ShortCodes /\ Digits(id) = length
  BY <1>1, DigitsOfCode
<1>3. ASSUME NEW free \in ShortCodes \ used
      PROVE  length <= Digits(free)
  <2>1. Digits(free) \in Lengths /\ free \in Codes(Digits(free))
    BY ShortCodeHasLength
  <2>2. ~(Digits(free) < length)
    BY <1>1, <2>1
  <2>3. QED
    BY <2>1, <2>2, MintAssumption DEF Lengths
<1>4. QED
  BY <1>1, <1>2, <1>3

\* As long as one short code is free the mint answers: the scan leaves no gap
\* between the lengths (store.rs, first_available_identifier).
THEOREM MintAnswersUnlessFull ==
  ASSUME NEW used, NEW free \in ShortCodes \ used
  PROVE  \E id \in ShortCodes : MayMint(used, id)
<1> DEFINE Open == {length \in Lengths : ~IsExhausted(length, used)}
<1>1. Digits(free) \in Open
  BY ShortCodeHasLength DEF IsExhausted
<1>2. Open \in SUBSET Nat
  BY MintAssumption DEF Lengths
<1> HIDE DEF Open
<1>3. PICK length \in Open : \A m \in Open : length <= m
  BY <1>1, <1>2, SmallestExists
<1> USE DEF Open
<1>4. \A shorter \in Lengths : shorter < length => IsExhausted(shorter, used)
  BY <1>2, <1>3
<1> DEFINE Unused == Codes(length) \ used
<1>5. Unused # {} /\ Unused \in SUBSET Nat
  BY <1>3, CodesBetween DEF IsExhausted
<1> HIDE DEF Unused
<1>6. PICK id \in Unused : \A other \in Unused : id <= other
  BY <1>5, SmallestExists
<1> USE DEF Unused
<1>7. IsFirstAvailable(length, used, id)
  <2>1. ASSUME NEW smaller \in Codes(length), smaller < id
        PROVE  smaller \in used
    BY <1>5, <1>6, <2>1, CodesBetween
  <2>2. QED
    BY <1>6, <2>1 DEF IsFirstAvailable
<1>8. id \in ShortCodes
  BY <1>3, <1>6, DigitsOfCode
<1>9. QED
  BY <1>3, <1>4, <1>7, <1>8 DEF MayMint

-----------------------------------------------------------------------------
(* The order a run goes through the records in *)

Plan == InGroups(source)

\* What a sort by identifier makes of records no two of which share one.
LEMMA ByIdentifierLists ==
  ASSUME NEW R \in SUBSET SourceRecords, IsFiniteSet(R),
         \A r, s \in R : r.identifier = s.identifier => r = s
  PROVE  /\ ByIdentifier(R) \in Seq(R)
         /\ Len(ByIdentifier(R)) = Cardinality(R)
         /\ \A r \in R : \E k \in DOMAIN ByIdentifier(R) : ByIdentifier(R)[k] = r
         /\ \A i, j \in DOMAIN ByIdentifier(R) :
              ByIdentifier(R)[i] = ByIdentifier(R)[j] => i = j
<1> DEFINE before == {pair \in R \X R : pair[1].identifier < pair[2].identifier}
<1>1. \A r \in R : r.identifier \in Nat
  BY MigrationAssumption DEF SourceRecords
<1>2. \A r, s \in R : <<r, s>> \in before <=> r.identifier < s.identifier
  OBVIOUS
<1> HIDE DEF before
<1>3. IsStrictOrder(R, before)
  BY <1>1, <1>2 DEF IsStrictOrder
<1>4. ByIdentifier(R) = InOrder(R, before)
  BY DEF ByIdentifier, before
<1>5. QED
  BY <1>3, <1>4, InOrderLists

\* Two lists one after the other.
LEMMA Joined ==
  ASSUME NEW S, NEW one \in Seq(S), NEW two \in Seq(S)
  PROVE  /\ one \o two \in Seq(S)
         /\ Len(one \o two) = Len(one) + Len(two)
         /\ \A k \in 1..(Len(one) + Len(two)) :
              (one \o two)[k] = IF k <= Len(one) THEN one[k] ELSE two[k - Len(one)]
  OBVIOUS

\* A run goes through every source record once, those whose identifiers are
\* kept before all others.
LEMMA PlanHolds ==
  ASSUME source \in Sources
  PROVE  /\ Plan \in Seq(SourceRecords)
         /\ Len(Plan) = Len(source)
         /\ \A i \in DOMAIN source : \E k \in DOMAIN Plan : Plan[k] = source[i]
         /\ \A i, j \in DOMAIN Plan : Plan[i].identifier = Plan[j].identifier => i = j
         /\ \A i, j \in DOMAIN Plan :
              i < j /\ KeepsIdentifier(Plan[j].identifier)
                => KeepsIdentifier(Plan[i].identifier)
<1> DEFINE R == Range(source)
           kept == {r \in R : KeepsIdentifier(r.identifier)}
           minted == {r \in R : ~KeepsIdentifier(r.identifier)}
           one == ByIdentifier(kept)
           two == ByIdentifier(minted)
<1>1. /\ source \in Seq(SourceRecords)
      /\ \A i, j \in DOMAIN source : source[i].identifier = source[j].identifier => i = j
  BY MigrationAssumption DEF DistinctIdentifiers
<1>2. Len(source) \in Nat /\ DOMAIN source = 1..Len(source)
  BY <1>1
<1>3. IsFiniteSet(R) /\ Cardinality(R) = Len(source)
  <2>1. source \in Surjection(1..Len(source), R) /\ source \in Injection(1..Len(source), R)
    <3>1. source \in [1..Len(source) -> R]
      <4>1. source = [i \in 1..Len(source) |-> source[i]]
        BY <1>1, <1>2
      <4>2. QED
        BY <1>2, <4>1 DEF Range
    <3>2. IsInjective(source)
      BY <1>1 DEF IsInjective
    <3>3. \A y \in R : \E i \in 1..Len(source) : source[i] = y
      BY <1>2 DEF Range
    <3>4. QED
      BY <3>1, <3>2, <3>3 DEF Surjection, Injection
  <2>2. IsFiniteSet(1..Len(source)) /\ Cardinality(1..Len(source)) = Len(source)
    <3>1. PICK n \in Nat : n = Len(source)
      BY <1>2
    <3>2. IsFiniteSet(1..n) /\ Cardinality(1..n) = n
      BY FS_Interval
    <3>3. QED
      BY <3>1, <3>2
  <2>3. QED
    BY <2>1, <2>2, FS_Surjection
<1>4. /\ R \subseteq SourceRecords
      /\ \A r, s \in R : r.identifier = s.identifier => r = s
  BY <1>1, <1>2 DEF Range
<1> HIDE DEF R
<1>5. /\ kept \in SUBSET R /\ minted \in SUBSET R
      /\ kept \cup minted = R /\ kept \cap minted = {}
  OBVIOUS
<1>6. IsFiniteSet(kept) /\ IsFiniteSet(minted)
  BY <1>3, <1>5, FS_Subset
<1>7. Cardinality(kept) + Cardinality(minted) = Len(source)
  <2> HIDE DEF kept, minted
  <2>1. Cardinality(kept) \in Nat /\ Cardinality(minted) \in Nat /\ Cardinality({}) = 0
    BY <1>6, FS_CardinalityType, FS_EmptySet
  <2>2. Cardinality(kept \cup minted) =
          Cardinality(kept) + Cardinality(minted) - Cardinality(kept \cap minted)
    BY <1>6, FS_Union
  <2>3. /\ Cardinality(kept \cup minted) = Len(source)
        /\ Cardinality(kept \cap minted) = 0
    BY <1>3, <1>5, <2>1
  <2>4. QED
    BY <2>1, <2>2, <2>3
<1>8. /\ one \in Seq(kept) /\ Len(one) = Cardinality(kept)
      /\ \A r \in kept : \E k \in DOMAIN one : one[k] = r
      /\ \A i, j \in DOMAIN one : one[i] = one[j] => i = j
  <2>1. kept \in SUBSET SourceRecords /\ \A r, s \in kept : r.identifier = s.identifier => r = s
    BY <1>4, <1>5
  <2> HIDE DEF kept
  <2>2. QED
    BY <1>6, <2>1, ByIdentifierLists
<1>9. /\ two \in Seq(minted) /\ Len(two) = Cardinality(minted)
      /\ \A r \in minted : \E k \in DOMAIN two : two[k] = r
      /\ \A i, j \in DOMAIN two : two[i] = two[j] => i = j
  <2>1. minted \in SUBSET SourceRecords /\ \A r, s \in minted : r.identifier = s.identifier => r = s
    BY <1>4, <1>5
  <2> HIDE DEF minted
  <2>2. QED
    BY <1>6, <2>1, ByIdentifierLists
<1>10. Plan = one \o two
  BY DEF Plan, InGroups, R
<1> HIDE DEF one, two
<1>11. one \in Seq(SourceRecords) /\ two \in Seq(SourceRecords)
  BY <1>4, <1>5, <1>8, <1>9
<1>12. /\ Plan \in Seq(SourceRecords)
       /\ Len(Plan) = Len(one) + Len(two)
       /\ \A k \in 1..(Len(one) + Len(two)) :
            Plan[k] = IF k <= Len(one) THEN one[k] ELSE two[k - Len(one)]
  BY <1>10, <1>11, Joined
<1>13. /\ Len(one) \in Nat /\ Len(two) \in Nat
       /\ DOMAIN one = 1..Len(one) /\ DOMAIN two = 1..Len(two)
       /\ DOMAIN Plan = 1..(Len(one) + Len(two))
       /\ \A k \in 1..Len(one) : one[k] \in kept
       /\ \A k \in 1..Len(two) : two[k] \in minted
  <2> HIDE DEF kept, minted
  <2>1. /\ Len(one) \in Nat /\ DOMAIN one = 1..Len(one)
        /\ \A k \in 1..Len(one) : one[k] \in kept
    BY <1>8
  <2>2. /\ Len(two) \in Nat /\ DOMAIN two = 1..Len(two)
        /\ \A k \in 1..Len(two) : two[k] \in minted
    BY <1>9
  <2>3. DOMAIN Plan = 1..Len(Plan)
    BY <1>12
  <2>4. QED
    BY <1>12, <2>1, <2>2, <2>3
<1>14. Len(Plan) = Len(source)
  BY <1>7, <1>8, <1>9, <1>12
<1>15. ASSUME NEW r \in R
       PROVE  \E k \in DOMAIN Plan : Plan[k] = r
  <2>1. CASE r \in kept
    <3>1. PICK k \in 1..Len(one) : one[k] = r
      BY <1>8, <1>13, <2>1
    <3>2. k \in DOMAIN Plan /\ Plan[k] = r
      BY <1>12, <1>13, <3>1
    <3>3. QED
      BY <3>2
  <2>2. CASE r \in minted
    <3>1. PICK k \in 1..Len(two) : two[k] = r
      BY <1>9, <1>13, <2>2
    <3>2. /\ Len(one) + k \in 1..(Len(one) + Len(two))
          /\ ~(Len(one) + k <= Len(one))
          /\ (Len(one) + k) - Len(one) = k
      BY <1>13, <3>1
    <3>3. Plan[Len(one) + k] = r
      BY <1>12, <3>1, <3>2
    <3>4. QED
      BY <1>13, <3>2, <3>3
  <2>3. QED
    BY <1>5, <2>1, <2>2
<1>16. ASSUME NEW i \in DOMAIN Plan
       PROVE  Plan[i] = IF i <= Len(one) THEN one[i] ELSE two[i - Len(one)]
  BY <1>12, <1>13
<1>17. \A i \in DOMAIN Plan :
         /\ i <= Len(one) => i \in 1..Len(one) /\ Plan[i] = one[i] /\ Plan[i] \in kept
         /\ ~(i <= Len(one)) => /\ i - Len(one) \in 1..Len(two)
                                /\ Plan[i] = two[i - Len(one)]
                                /\ Plan[i] \in minted
  BY <1>13, <1>16
<1>18. ASSUME NEW i \in DOMAIN Plan, NEW j \in DOMAIN Plan, Plan[i] = Plan[j]
       PROVE  i = j
  <2>1. i \in Int /\ j \in Int
    BY <1>13
  <2>2. i <= Len(one) <=> j <= Len(one)
    BY <1>5, <1>17, <1>18
  <2>3. QED
    BY <1>8, <1>9, <1>13, <1>17, <1>18, <2>1, <2>2
<1>19. \A i \in DOMAIN Plan : Plan[i] \in R
  BY <1>5, <1>17
<1>20. \A i, j \in DOMAIN Plan : Plan[i].identifier = Plan[j].identifier => i = j
  BY <1>4, <1>18, <1>19
<1>21. ASSUME NEW i \in DOMAIN Plan, NEW j \in DOMAIN Plan, i < j,
              KeepsIdentifier(Plan[j].identifier)
       PROVE  KeepsIdentifier(Plan[i].identifier)
  <2>1. j <= Len(one)
    BY <1>17, <1>21
  <2>2. i <= Len(one)
    BY <1>13, <1>21, <2>1
  <2>3. QED
    BY <1>17, <2>2
<1>22. \A i \in DOMAIN source : source[i] \in R
  BY DEF R, Range
<1>23. QED
  BY <1>12, <1>14, <1>15, <1>20, <1>21, <1>22

-----------------------------------------------------------------------------
(* The inductive invariant *)

Currents(rows) == {rows[i].current : i \in DOMAIN rows}

\* A row and the target tell where a record is.
RowTells(row, record) ==
  /\ row.previous = record.identifier
  /\ row.current \in DOMAIN target
  /\ target[row.current] = [entry |-> record.entry, second |-> record.second]
  /\ KeepsIdentifier(record.identifier) => row.current = record.identifier

\* While a run copies, its table tells of the records it has been through, in
\* the order of its plan, one place in the target for each, and the target
\* holds nothing else; the rest of the plan is to do.
RunOnTrack ==
  phase = "copying" =>
    /\ outcome = "none"
    /\ Len(table) + Len(todo) = Len(Plan)
    /\ \A i \in DOMAIN todo : todo[i] = Plan[Len(table) + i]
    /\ \A i \in DOMAIN table : RowTells(table[i], Plan[i])
    /\ \A i, j \in DOMAIN table : table[i].current = table[j].current => i = j
    /\ DOMAIN target = Currents(table)

IInv == TypeOK /\ RunOnTrack /\ CompletedIsFaithful /\ SidecarStaysFaithful

\* One record more.  Its identifier is not in the target: a minted one is
\* fresh, and a kept one comes before every minted one and differs from the
\* kept ones before it.
LEMMA Migrates ==
  ASSUME IInv, MigrateRecord
  PROVE  \E id \in Identifiers \ DOMAIN target, record \in SourceRecords :
           /\ record = Head(todo)
           /\ Len(table) + 1 \in DOMAIN Plan /\ record = Plan[Len(table) + 1]
           /\ IF KeepsIdentifier(record.identifier)
                THEN id = record.identifier
                ELSE Minted(id)
           /\ DOMAIN target' = DOMAIN target \cup {id}
           /\ target'[id] = [entry |-> record.entry, second |-> record.second]
           /\ \A r \in DOMAIN target : target'[r] = target[r]
           /\ log' = Append(log, id)
           /\ table' = Append(table, [previous |-> record.identifier,
                                      current  |-> id])
<1>1. PICK id \in Identifiers :
        /\ IF KeepsIdentifier(Head(todo).identifier)
             THEN id = Head(todo).identifier
             ELSE Minted(id)
        /\ Import(id, Head(todo))
        /\ table' = Append(table, [previous |-> Head(todo).identifier,
                                   current  |-> id])
  BY DEF MigrateRecord
<1>2. phase = "copying" /\ todo # <<>> /\ todo \in Seq(SourceRecords)
      /\ table \in Seq(Rows) /\ source \in Sources
  BY DEF MigrateRecord, IInv, TypeOK
<1>3. PICK record \in SourceRecords : record = Head(todo)
  BY <1>2
<1>4. /\ Plan \in Seq(SourceRecords)
      /\ \A i, j \in DOMAIN Plan : Plan[i].identifier = Plan[j].identifier => i = j
      /\ \A i, j \in DOMAIN Plan :
           i < j /\ KeepsIdentifier(Plan[j].identifier)
             => KeepsIdentifier(Plan[i].identifier)
  BY <1>2, PlanHolds
<1>5. /\ Len(table) + Len(todo) = Len(Plan)
      /\ \A i \in DOMAIN todo : todo[i] = Plan[Len(table) + i]
      /\ \A i \in DOMAIN table : RowTells(table[i], Plan[i])
      /\ DOMAIN target = Currents(table)
  BY <1>2 DEF IInv, RunOnTrack
<1>6. /\ Len(table) \in Nat /\ Len(todo) \in Nat \ {0} /\ Len(Plan) \in Nat
      /\ DOMAIN table = 1..Len(table) /\ DOMAIN todo = 1..Len(todo)
      /\ DOMAIN Plan = 1..Len(Plan)
      /\ Head(todo) = todo[1]
  BY <1>2, <1>4
<1>7. /\ Len(table) + 1 \in DOMAIN Plan /\ record = Plan[Len(table) + 1]
      /\ DOMAIN table \subseteq DOMAIN Plan
      /\ \A i \in DOMAIN table : i < Len(table) + 1
  BY <1>3, <1>5, <1>6
<1>8. id \notin DOMAIN target
  <2>1. CASE KeepsIdentifier(record.identifier)
    <3>1. ASSUME NEW i \in DOMAIN table, id = table[i].current
          PROVE  FALSE
      <4>1. KeepsIdentifier(Plan[i].identifier) /\ i \in DOMAIN Plan /\ i # Len(table) + 1
        BY <1>4, <1>6, <1>7, <2>1
      <4>2. table[i].current = Plan[i].identifier
        BY <1>5, <4>1 DEF RowTells
      <4>3. QED
        BY <1>1, <1>3, <1>4, <1>7, <2>1, <3>1, <4>1, <4>2
    <3>2. QED
      BY <1>5, <3>1 DEF Currents
  <2>2. CASE ~KeepsIdentifier(record.identifier)
    BY <1>1, <1>3, <2>2, MintedIs DEF Minted
  <2>3. QED
    BY <2>1, <2>2
<1>9. /\ DOMAIN target' = DOMAIN target \cup {id}
      /\ target'[id] = [entry |-> record.entry, second |-> record.second]
      /\ \A r \in DOMAIN target : target'[r] = target[r]
      /\ log' = Append(log, id)
  BY <1>1, <1>3, <1>8 DEF Import
<1>10. QED
  BY <1>1, <1>3, <1>7, <1>8, <1>9

\* Nothing in the target is ever changed or dropped by a step.
LEMMA TargetStays ==
  ASSUME IInv, [Next]_vars
  PROVE  /\ UNCHANGED <<kind, source>>
         /\ \A id \in DOMAIN target : id \in DOMAIN target' /\ target'[id] = target[id]
<1>1. CASE MigrateRecord
  <2>1. UNCHANGED <<kind, source>>
    BY <1>1 DEF MigrateRecord
  <2>2. QED
    BY <1>1, <2>1, Migrates
<1>2. CASE Start \/ WriteTable \/ RunFails \/ WriteFails \/ UNCHANGED vars
  BY <1>2 DEF Start, WriteTable, RunFails, WriteFails, vars
<1>3. QED
  BY <1>1, <1>2 DEF Next

LEMMA PlanStays ==
  ASSUME UNCHANGED <<kind, source>>
  PROVE  /\ Plan' = Plan
         /\ \A id : KeepsIdentifier(id)' <=> KeepsIdentifier(id)
  BY DEF Plan, InGroups, KeepsIdentifier

\* Rows that are true of the target stay true.
LEMMA FaithfulStays ==
  ASSUME NEW rows, Faithful(rows), source' = source,
         \A id \in DOMAIN target : id \in DOMAIN target' /\ target'[id] = target[id]
  PROVE  Faithful(rows)'
<1>1. ASSUME NEW i \in DOMAIN source'
      PROVE  \E j \in DOMAIN rows :
               /\ rows[j].previous = source'[i].identifier
               /\ rows[j].current \in DOMAIN target'
               /\ target'[rows[j].current] = [entry  |-> source'[i].entry,
                                              second |-> source'[i].second]
  BY DEF Faithful
<1>2. QED
  BY <1>1 DEF Faithful

\* With nothing left to do the table is true of the target.
LEMMA CompleteTable ==
  ASSUME IInv, phase = "copying", todo = <<>>
  PROVE  Faithful(table)
<1>1. /\ table \in Seq(Rows) /\ source \in Sources
      /\ Len(table) = Len(Plan)
      /\ \A i \in DOMAIN table : RowTells(table[i], Plan[i])
      /\ \A i, j \in DOMAIN table : table[i].current = table[j].current => i = j
  BY DEF IInv, TypeOK, RunOnTrack
<1>2. /\ Plan \in Seq(SourceRecords) /\ Len(Plan) = Len(source)
      /\ \A i \in DOMAIN source : \E k \in DOMAIN Plan : Plan[k] = source[i]
  BY <1>1, PlanHolds
<1>3. DOMAIN table = DOMAIN Plan /\ DOMAIN table = 1..Len(table) /\ Len(table) \in Nat
  BY <1>1, <1>2
<1>4. Cardinality(Currents(table)) = Len(table)
  <2> DEFINE place == [i \in 1..Len(table) |-> table[i].current]
  <2>1. /\ place \in Surjection(1..Len(table), Currents(table))
        /\ place \in Injection(1..Len(table), Currents(table))
    <3>1. place \in [1..Len(table) -> Currents(table)]
      BY <1>3 DEF Currents
    <3>2. IsInjective(place)
      BY <1>1, <1>3 DEF IsInjective
    <3>3. \A y \in Currents(table) : \E i \in 1..Len(table) : place[i] = y
      BY <1>3 DEF Currents
    <3> HIDE DEF place
    <3>4. QED
      BY <3>1, <3>2, <3>3 DEF Surjection, Injection
  <2>2. IsFiniteSet(1..Len(table)) /\ Cardinality(1..Len(table)) = Len(table)
    <3>1. PICK n \in Nat : n = Len(table)
      BY <1>3
    <3>2. IsFiniteSet(1..n) /\ Cardinality(1..n) = n
      BY FS_Interval
    <3>3. QED
      BY <3>1, <3>2
  <2> HIDE DEF place
  <2>3. QED
    BY <2>1, <2>2, FS_Surjection
<1>5. ASSUME NEW i \in DOMAIN source
      PROVE  \E j \in DOMAIN table :
               /\ table[j].previous = source[i].identifier
               /\ table[j].current \in DOMAIN target
               /\ target[table[j].current] = [entry  |-> source[i].entry,
                                              second |-> source[i].second]
  <2>1. PICK k \in DOMAIN Plan : Plan[k] = source[i]
    BY <1>2
  <2>2. QED
    BY <1>1, <1>3, <2>1 DEF RowTells
<1>6. QED
  BY <1>1, <1>2, <1>4, <1>5 DEF Faithful, Currents

-----------------------------------------------------------------------------
(* The invariant, step by step *)

LEMMA TypeInit == Init => TypeOK
<1> SUFFICES ASSUME Init PROVE TypeOK
  OBVIOUS
<1>1. /\ DOMAIN target \subseteq Identifiers
      /\ \A id \in DOMAIN target :
           target[id] \in [entry : Entries, second : Seconds]
      /\ faults \in 0..MaxFaults
  BY MigrationAssumption DEF Init
<1>2. \A S : <<>> \in Seq(S)
  OBVIOUS
<1>3. DOMAIN <<>> = {}
  OBVIOUS
<1>4. QED
  BY <1>1, <1>2, <1>3 DEF Init, TypeOK, NoFile

LEMMA TypeNext == IInv /\ [Next]_vars => TypeOK'
<1> SUFFICES ASSUME IInv, [Next]_vars PROVE TypeOK'
  OBVIOUS
<1>1. TypeOK
  BY DEF IInv
<1>2. CASE Start
  <2>1. todo' \in Seq(SourceRecords)
    BY <1>1, <1>2, PlanHolds DEF Start, TypeOK, Plan
  <2>2. table' = <<>> /\ table' \in Seq(Rows) /\ DOMAIN table' = {}
    BY <1>2 DEF Start
  <2>3. QED
    BY <1>1, <1>2, <2>1, <2>2 DEF Start, Ends, TypeOK
<1>3. CASE MigrateRecord
  <2>1. PICK id \in Identifiers \ DOMAIN target, record \in SourceRecords :
          /\ IF KeepsIdentifier(record.identifier)
               THEN id = record.identifier
               ELSE Minted(id)
          /\ DOMAIN target' = DOMAIN target \cup {id}
          /\ target'[id] = [entry |-> record.entry, second |-> record.second]
          /\ \A r \in DOMAIN target : target'[r] = target[r]
          /\ log' = Append(log, id)
          /\ table' = Append(table, [previous |-> record.identifier, current |-> id])
    BY <1>3, Migrates
  <2>2. /\ record.identifier \in Identifiers
        /\ [entry |-> record.entry, second |-> record.second]
             \in [entry : Entries, second : Seconds]
    BY DEF SourceRecords
  <2>3. /\ DOMAIN target' \subseteq Identifiers
        /\ \A r \in DOMAIN target' :
             target'[r] \in [entry : Entries, second : Seconds]
    BY <1>1, <2>1, <2>2 DEF TypeOK
  <2>4. log' \in Seq(Identifiers)
    BY <1>1, <2>1 DEF TypeOK
  <2>5. kind # "copy" => id \in ShortIdentifiers
    <3>1. CASE KeepsIdentifier(record.identifier)
      BY <2>1, <3>1 DEF KeepsIdentifier
    <3>2. CASE ~KeepsIdentifier(record.identifier)
      <4>1. id \in ShortCodes
        BY <2>1, <3>2, MintedIs DEF Minted
      <4>2. id < Power(MaxLength)
        BY <4>1, ShortCodeHasLength, CodesBetween
      <4>3. QED
        BY <4>2 DEF ShortIdentifiers
    <3>3. QED
      BY <3>1, <3>2
  <2>6. /\ table' \in Seq(Rows)
        /\ kind # "copy" =>
             \A i \in DOMAIN table' : table'[i].current \in ShortIdentifiers
    <3> DEFINE row == [previous |-> record.identifier, current |-> id]
    <3>1. row \in Rows /\ row.current = id
      BY <2>2 DEF Rows
    <3>2. table \in Seq(Rows) /\ table' = Append(table, row)
      BY <1>1, <2>1 DEF TypeOK
    <3> HIDE DEF row
    <3>3. /\ table' \in Seq(Rows)
          /\ \A i \in DOMAIN table' :
               \/ i \in DOMAIN table /\ table'[i] = table[i]
               \/ table'[i] = row
      BY <3>1, <3>2
    <3>4. QED
      BY <1>1, <2>5, <3>1, <3>3 DEF TypeOK
  <2>7. /\ todo' \in Seq(SourceRecords)
        /\ UNCHANGED <<kind, source, sidecar, phase, outcome, faults>>
    BY <1>1, <1>3 DEF MigrateRecord, TypeOK
  <2>8. QED
    BY <1>1, <2>3, <2>4, <2>6, <2>7 DEF TypeOK
<1>4. CASE WriteTable
  <2>1. sidecar' \in [state : {"absent", "torn", "whole"}, rows : Seq(Rows)]
    BY <1>1, <1>4 DEF WriteTable, TypeOK, Whole
  <2>2. QED
    BY <1>1, <1>4, <2>1 DEF WriteTable, Ends, TypeOK
<1>5. ASSUME CallFails
      PROVE  faults' \in 0..MaxFaults
  BY <1>1, <1>5, MigrationAssumption DEF CallFails, TypeOK
<1>6. CASE RunFails
  BY <1>1, <1>5, <1>6 DEF RunFails, Ends, TypeOK
<1>7. CASE WriteFails
  <2>1. sidecar' \in [state : {"absent", "torn", "whole"}, rows : Seq(Rows)]
    <3>1. <<>> \in Seq(Rows) /\ table \in Seq(Rows)
      BY <1>1 DEF TypeOK
    <3>2. CASE sidecar' = sidecar
      BY <1>1, <3>2 DEF TypeOK
    <3>3. CASE sidecar' = Torn
      BY <3>1, <3>3 DEF Torn
    <3>4. CASE sidecar' = Whole(table)
      BY <3>1, <3>4 DEF Whole
    <3>5. QED
      BY <1>7, <3>2, <3>3, <3>4 DEF WriteFails
  <2>2. QED
    BY <1>1, <1>5, <1>7, <2>1 DEF WriteFails, Ends, TypeOK
<1>8. CASE UNCHANGED vars
  BY <1>1, <1>8 DEF vars, TypeOK
<1>9. QED
  BY <1>2, <1>3, <1>4, <1>6, <1>7, <1>8 DEF Next

LEMMA RunNext == IInv /\ [Next]_vars => RunOnTrack'
<1> SUFFICES ASSUME IInv, [Next]_vars PROVE RunOnTrack'
  OBVIOUS
<1>1. UNCHANGED <<kind, source>>
  BY TargetStays
<1>2. Plan' = Plan /\ \A id : KeepsIdentifier(id)' <=> KeepsIdentifier(id)
  BY <1>1, PlanStays
<1>3. CASE Start
  <2>1. CASE DOMAIN target = {}
    <3>1. /\ outcome' = "none" /\ todo' = Plan /\ table' = <<>>
          /\ UNCHANGED target
      BY <1>3, <2>1 DEF Start, Plan
    <3>2. Plan \in Seq(SourceRecords)
      BY PlanHolds DEF IInv, TypeOK
    <3>3. /\ Len(table') = 0 /\ DOMAIN table' = {}
          /\ Len(Plan) \in Nat /\ DOMAIN Plan = 1..Len(Plan)
      BY <3>1, <3>2
    <3>4. Currents(table') = {}
      BY <3>3 DEF Currents
    <3>5. \A i \in DOMAIN todo' : todo'[i] = Plan'[Len(table') + i]
      BY <1>2, <3>1, <3>3
    <3>6. QED
      BY <1>2, <2>1, <3>1, <3>3, <3>4, <3>5 DEF RunOnTrack, Currents
  <2>2. CASE DOMAIN target # {}
    BY <1>3, <2>2 DEF Start, Ends, RunOnTrack
  <2>3. QED
    BY <2>1, <2>2
<1>4. CASE MigrateRecord
  <2>1. PICK id \in Identifiers \ DOMAIN target, record \in SourceRecords :
          /\ Len(table) + 1 \in DOMAIN Plan /\ record = Plan[Len(table) + 1]
          /\ KeepsIdentifier(record.identifier) => id = record.identifier
          /\ DOMAIN target' = DOMAIN target \cup {id}
          /\ target'[id] = [entry |-> record.entry, second |-> record.second]
          /\ \A r \in DOMAIN target : target'[r] = target[r]
          /\ table' = Append(table, [previous |-> record.identifier, current |-> id])
    BY <1>4, Migrates
  <2> DEFINE row == [previous |-> record.identifier, current |-> id]
  <2>n. PICK n \in Nat : n = Len(table)
    BY DEF IInv, TypeOK
  <2>2. /\ phase = "copying" /\ phase' = phase /\ outcome' = outcome
        /\ todo # <<>> /\ todo' = Tail(todo)
    BY <1>4 DEF MigrateRecord
  <2>3. table \in Seq(Rows) /\ todo \in Seq(SourceRecords) /\ row \in Rows
    BY DEF IInv, TypeOK, SourceRecords, Rows
  <2>4. /\ outcome = "none"
        /\ n + Len(todo) = Len(Plan)
        /\ \A i \in DOMAIN todo : todo[i] = Plan[n + i]
        /\ \A i \in DOMAIN table : RowTells(table[i], Plan[i])
        /\ \A i, j \in DOMAIN table : table[i].current = table[j].current => i = j
        /\ DOMAIN target = Currents(table)
    BY <2>2, <2>n DEF IInv, RunOnTrack
  <2>5. row.previous = record.identifier /\ row.current = id /\ table' = Append(table, row)
    BY <2>1
  <2> HIDE DEF row
  <2>6. /\ DOMAIN table = 1..n
        /\ Len(table') = n + 1 /\ DOMAIN table' = 1..(n + 1)
        /\ \A i \in 1..n : table'[i] = table[i]
        /\ table'[n + 1] = row
    BY <2>n, <2>3, <2>5
  <2>7. /\ Len(todo) \in Nat \ {0} /\ Len(todo') = Len(todo) - 1
        /\ DOMAIN todo = 1..Len(todo) /\ DOMAIN todo' = 1..(Len(todo) - 1)
        /\ \A i \in 1..(Len(todo) - 1) : todo'[i] = todo[i + 1]
    BY <2>2, <2>3
  <2>8. Len(table') + Len(todo') = Len(Plan)
    <3>1. PICK m \in Nat : m = Len(todo)
      BY <2>7
    <3>2. Len(table') + Len(todo') = (n + 1) + (m - 1)
      BY <2>6, <2>7, <3>1
    <3>3. (n + 1) + (m - 1) = n + m
      OBVIOUS
    <3>4. QED
      BY <2>4, <3>1, <3>2, <3>3
  <2>9. \A i \in DOMAIN todo' : todo'[i] = Plan[Len(table') + i]
    <3> TAKE i \in DOMAIN todo'
    <3>1. i \in Int /\ i + 1 \in DOMAIN todo /\ todo'[i] = todo[i + 1]
      BY <2>7
    <3>2. n + (i + 1) = Len(table') + i
      BY <2>6, <3>1
    <3>3. QED
      BY <2>4, <3>1, <3>2
  <2>10. ASSUME NEW i \in 1..(n + 1)
         PROVE  RowTells(table[i], Plan[i])'
    <3>1. CASE i = n + 1
      BY <1>2, <2>n, <2>1, <2>5, <2>6, <3>1 DEF RowTells
    <3>2. CASE i # n + 1
      <4>1. i \in 1..n /\ table'[i] = table[i] /\ RowTells(table[i], Plan[i])
        BY <2>4, <2>6, <3>2
      <4>2. QED
        BY <1>2, <2>1, <4>1 DEF RowTells
    <3>3. QED
      BY <3>1, <3>2
  <2>11. \A i \in 1..n : table[i].current # id
    BY <2>1, <2>4, <2>6 DEF Currents
  <2>12. \A i, j \in DOMAIN table' : table'[i].current = table'[j].current => i = j
    BY <2>4, <2>5, <2>6, <2>11
  <2>13. DOMAIN target' = Currents(table')
    BY <2>1, <2>4, <2>5, <2>6 DEF Currents
  <2>14. QED
    BY <1>2, <2>2, <2>4, <2>6, <2>8, <2>9, <2>10, <2>12, <2>13 DEF RunOnTrack,
       RowTells, Currents
<1>5. CASE WriteTable \/ RunFails \/ WriteFails
  BY <1>5 DEF WriteTable, RunFails, WriteFails, Ends, RunOnTrack
<1>6. CASE UNCHANGED vars
  BY <1>2, <1>6 DEF vars, IInv, RunOnTrack, RowTells, Currents
<1>7. QED
  BY <1>3, <1>4, <1>5, <1>6 DEF Next

\* A run completes with its table true of the target, and ends so until the
\* next one starts.
LEMMA CompletedNext == IInv /\ [Next]_vars => CompletedIsFaithful'
<1> SUFFICES ASSUME IInv, [Next]_vars, outcome' = "completed"
             PROVE  Faithful(table)' /\ (kind' # "copy" => sidecar' = Whole(table'))
  BY DEF CompletedIsFaithful
<1>1. CASE WriteTable
  <2>1. Faithful(table)
    BY <1>1, CompleteTable DEF WriteTable
  <2>2. /\ UNCHANGED <<kind, source, target, table>>
        /\ kind # "copy" => sidecar' = Whole(table)
    BY <1>1 DEF WriteTable
  <2>3. QED
    BY <2>1, <2>2 DEF Faithful
<1>2. CASE ~WriteTable
  <2>1. UNCHANGED <<kind, source, target, table, sidecar, outcome>>
    <3>1. ~Start /\ ~RunFails /\ ~WriteFails
      BY DEF Start, RunFails, WriteFails, Ends
    <3>2. ~MigrateRecord
      BY DEF MigrateRecord, IInv, RunOnTrack
    <3>3. QED
      BY <1>2, <3>1, <3>2 DEF Next, vars
  <2>2. Faithful(table) /\ (kind # "copy" => sidecar = Whole(table))
    BY <2>1 DEF IInv, CompletedIsFaithful
  <2>3. QED
    BY <2>1, <2>2 DEF Faithful
<1>3. QED
  BY <1>1, <1>2

LEMMA SidecarNext == IInv /\ [Next]_vars => SidecarStaysFaithful'
<1> SUFFICES ASSUME IInv, [Next]_vars, sidecar'.state = "whole"
             PROVE  Faithful(sidecar.rows)'
  BY DEF SidecarStaysFaithful
<1>1. /\ UNCHANGED <<kind, source>>
      /\ \A id \in DOMAIN target : id \in DOMAIN target' /\ target'[id] = target[id]
  BY TargetStays
<1>2. CASE sidecar' = sidecar
  <2>1. PICK rows : rows = sidecar.rows
    OBVIOUS
  <2>2. Faithful(rows)
    BY <1>2, <2>1 DEF IInv, SidecarStaysFaithful
  <2>3. Faithful(rows)'
    BY <1>1, <2>2, FaithfulStays
  <2>4. QED
    BY <1>2, <2>1, <2>3 DEF Faithful
<1>3. CASE sidecar' # sidecar
  <2>1. phase = "copying" /\ todo = <<>> /\ sidecar' \in {Torn, Whole(table)}
    BY <1>3 DEF Next, Start, MigrateRecord, WriteTable, RunFails, WriteFails,
       vars
  <2>2. sidecar' = Whole(table)
    BY <2>1 DEF Torn
  <2>3. PICK rows : rows = table
    OBVIOUS
  <2>4. Faithful(rows)
    BY <2>1, <2>3, CompleteTable
  <2>5. Faithful(rows)'
    BY <1>1, <2>4, FaithfulStays
  <2>6. sidecar'.rows = rows
    BY <2>2, <2>3 DEF Whole
  <2>7. QED
    BY <2>5, <2>6 DEF Faithful
<1>4. QED
  BY <1>2, <1>3

\* The strengthening, for every source, target and sequence of runs.
THEOREM Inductive == Spec => []IInv
<1>1. Init => IInv
  BY TypeInit DEF Init, IInv, RunOnTrack, CompletedIsFaithful,
                  SidecarStaysFaithful, NoFile
<1>2. IInv /\ [Next]_vars => IInv'
  BY TypeNext, RunNext, CompletedNext, SidecarNext DEF IInv
<1>3. QED
  BY <1>1, <1>2, PTL DEF Spec

-----------------------------------------------------------------------------
(* Invariants *)

\* Every variable stays in its type, and no migration that mints leaves a row
\* whose current identifier is a long one.
THEOREM TypeCorrect == Spec => []TypeOK
<1>1. IInv => TypeOK
  BY DEF IInv
<1>2. QED
  BY <1>1, Inductive, PTL

\* A run that reports completion has moved every record, unchanged and without
\* one overwriting another, and its sidecar says so (migration.rs,
\* V050RecordGroups and the migrate methods).
THEOREM CompletionIsFaithful == Spec => []CompletedIsFaithful
<1>1. IInv => CompletedIsFaithful
  BY DEF IInv
<1>2. QED
  BY <1>1, Inductive, PTL

\* A sidecar, once whole, stays true of the target through every later run.
THEOREM SidecarsStayFaithful == Spec => []SidecarStaysFaithful
<1>1. IInv => SidecarStaysFaithful
  BY DEF IInv
<1>2. QED
  BY <1>1, Inductive, PTL

\* While a run copies, the target holds what its table lists and nothing else:
\* a run never adds to what another run left behind.
THEOREM RunsAccountForTarget == Spec => []RunAccountsForTarget
<1>1. IInv => RunAccountsForTarget
  BY DEF IInv, RunOnTrack, RunAccountsForTarget, Currents
<1>2. QED
  BY <1>1, Inductive, PTL

-----------------------------------------------------------------------------
(* Action properties *)

\* No record of the target is changed or dropped by a migration.
THEOREM TargetsOnlyGrow == Spec => TargetOnlyGrows
<1>1. IInv /\ [Next]_vars =>
        [\A id \in DOMAIN target : id \in DOMAIN target' /\ target'[id] = target[id]]_vars
  BY TargetStays
<1>2. QED
  BY <1>1, Inductive, PTL DEF Spec, TargetOnlyGrows

\* A migration that mints gives the shortest code that is free at that moment
\* (store.rs, next_identifier).
THEOREM MigrationMintsShortest == Spec => MintsShortest
<1> DEFINE P == \A id \in DOMAIN target' \ DOMAIN target :
                  ~KeepsIdentifier(Head(todo).identifier) =>
                    \A free \in ShortCodes \ DOMAIN target : Digits(id) <= Digits(free)
<1>1. ASSUME IInv, [Next]_vars
      PROVE  P
  <2>1. CASE MigrateRecord
    <3>1. PICK new \in Identifiers \ DOMAIN target, record \in SourceRecords :
            /\ record = Head(todo)
            /\ IF KeepsIdentifier(record.identifier)
                 THEN new = record.identifier
                 ELSE Minted(new)
            /\ DOMAIN target' = DOMAIN target \cup {new}
      BY <1>1, <2>1, Migrates
    <3>2. QED
      BY <3>1, MintedIs DEF Minted
  <2>2. CASE ~MigrateRecord
    BY <1>1, <2>2 DEF Next, Start, WriteTable, RunFails, WriteFails, vars
  <2>3. QED
    BY <2>1, <2>2
<1>2. IInv /\ [Next]_vars => [P]_vars
  BY <1>1
<1>3. QED
  BY <1>2, Inductive, PTL DEF Spec, MintsShortest

\* A run in which no call fails ends without its records only when the target
\* holds every short code (store.rs, IdentifierSpaceExhausted).
THEOREM FailsWhenFull == Spec => FailsOnlyWhenFull
<1> DEFINE P == phase = "copying" /\ outcome' = "failed" /\ faults' = faults =>
                  ShortCodes \subseteq DOMAIN target
<1>1. ASSUME IInv, [Next]_vars, phase = "copying", outcome' = "failed", faults' = faults
      PROVE  ShortCodes \subseteq DOMAIN target
  <2>1. outcome = "none" /\ faults \in Nat
    BY <1>1, MigrationAssumption DEF IInv, RunOnTrack, TypeOK
  <2>2. ~CallFails
    BY <1>1, <2>1 DEF CallFails
  <2>3. NothingToMint
    BY <1>1, <2>1, <2>2 DEF Next, Start, MigrateRecord, WriteTable, RunFails,
                            WriteFails, Ends, vars
  <2>4. ASSUME NEW free \in ShortCodes \ DOMAIN target
        PROVE  FALSE
    <3>1. \E id \in ShortCodes : MayMint(DOMAIN target, id)
      BY MintAnswersUnlessFull
    <3>2. QED
      BY <2>3, <3>1, MigrationAssumption DEF NothingToMint, Minted
  <2>5. QED
    BY <2>4
<1>2. IInv /\ [Next]_vars => [P]_vars
  BY <1>1
<1>3. QED
  BY <1>2, Inductive, PTL DEF Spec, FailsOnlyWhenFull
==============================================================================
