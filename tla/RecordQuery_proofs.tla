------------------------- MODULE RecordQuery_proofs -------------------------
(***************************************************************************)
(* Proofs about RecordQuery: stamping adds nothing to what the store does, *)
(* no commit changes the order of recency of two records that stay, a      *)
(* window holds the newest matching records, and the topic catalog agrees  *)
(* with the queries, whatever the identifiers, the clock and the           *)
(* operations.                                                             *)
(***************************************************************************)
EXTENDS RecordQuery, RecordStore_proofs, CivilDate_proofs, Listing_proofs,
        FunctionTheorems

LiveIsFinite == IsFiniteSet(Live)

QueryInv == TypeOK /\ StampsOK /\ LiveIsAsserted /\ LiveIsFinite

\* Every behaviour of the stamped store is one of the store.
THEOREM StampsAddNothing == QuerySpec => Spec
  <1>1. QueryInit => Init
    BY DEF QueryInit
  <1>2. [QueryNext]_queryVars => [Next]_vars
    BY DEF QueryNext, queryVars
  <1>3. QED
    BY <1>1, <1>2, PTL DEF QuerySpec, Spec

\* A step leaves the log and adds no record, or appends one commit, and a
\* record it adds is the one that commit asserts.
LEMMA LogGrows ==
  ASSUME TypeOK, [Next]_vars
  PROVE  \/ log' = log /\ Live' \subseteq Live
         \/ \E op \in CommitOperations :
              /\ log' = Append(log, op)
              /\ \A id \in Live' \ Live : op = [verb |-> "Assert", key |-> id]
  <1> DEFINE Grows ==
        \/ log' = log /\ Live' \subseteq Live
        \/ \E op \in CommitOperations :
             /\ log' = Append(log, op)
             /\ \A id \in Live' \ Live : op = [verb |-> "Assert", key |-> id]
  <1> SUFFICES Grows
    OBVIOUS
  <1>1. ASSUME NEW entry \in Entries, CaptureEntry(entry)
        PROVE  Grows
    <2>1. PICK id \in Identifiers \ Live :
            /\ log' = Append(log, [verb |-> "Assert", key |-> id])
            /\ records' = [r \in Live \cup {id} |->
                             IF r = id THEN entry ELSE records[r]]
      BY <1>1 DEF CaptureEntry, Commit
    <2>2. Live' = Live \cup {id}
      BY <2>1 DEF Live
    <2>3. [verb |-> "Assert", key |-> id] \in CommitOperations
      BY DEF CommitOperations
    <2>4. QED
      BY <2>1, <2>2, <2>3
  <1>2. ASSUME NEW id \in Identifiers, Retract(id)
        PROVE  Grows
    <2>1. /\ log' = Append(log, [verb |-> "Retract", key |-> id])
          /\ [verb |-> "Retract", key |-> id] \in CommitOperations
      BY <1>2 DEF Retract, Commit, CommitOperations
    <2>2. Live' \ Live = {}
      BY <1>2, RetractLeaves
    <2>3. QED
      BY <2>1, <2>2
  <1>3. ASSUME NEW id \in Identifiers, Commit("Mutate", id), Live' = Live
        PROVE  Grows
    <2>1. /\ log' = Append(log, [verb |-> "Mutate", key |-> id])
          /\ [verb |-> "Mutate", key |-> id] \in CommitOperations
      BY <1>3 DEF Commit, CommitOperations
    <2>2. QED
      BY <1>3, <2>1
  <1>4. ASSUME NEW id \in Identifiers, RemoveEntry(id)
        PROVE  Grows
    BY <1>2, <1>4 DEF RemoveEntry
  <1>5. ASSUME NEW id \in Identifiers, NEW certainty \in Magnitudes,
               ChangeCertainty(id, certainty)
        PROVE  Grows
    <2>1. Commit("Mutate", id) /\ Live' = Live
      BY <1>5 DEF ChangeCertainty, Live
    <2>2. QED
      BY <1>3, <2>1
  <1>6. ASSUME NEW id \in Identifiers, NEW entry \in Entries,
               ChangeRecord(id, entry)
        PROVE  Grows
    <2>1. Commit("Mutate", id) /\ Live' = Live
      BY <1>6 DEF ChangeRecord, Live
    <2>2. QED
      BY <1>3, <2>1
  <1>7. CASE RetractCandidate
    <2>1. PICK s \in job.todo : Retract(s.identifier) /\ job # Idle
      BY <1>7 DEF RetractCandidate, Idle
    <2>2. s.identifier \in Identifiers
      BY <2>1 DEF TypeOK, Jobs, Summaries
    <2>3. QED
      BY <1>2, <2>1, <2>2
  <1>8. CASE UNCHANGED <<records, log>>
    BY <1>8 DEF Live
  <1>9. ASSUME [Next]_vars, ~UNCHANGED <<records, log>>
        PROVE  \/ \E entry \in Entries : CaptureEntry(entry)
               \/ \E id \in Identifiers : RemoveEntry(id)
               \/ \E id \in Identifiers, certainty \in Magnitudes :
                    ChangeCertainty(id, certainty)
               \/ \E id \in Identifiers, entry \in Entries :
                    ChangeRecord(id, entry)
               \/ RetractCandidate
    BY <1>9 DEF Next, vars, BeginCollection, CaptureSummary, CaptureFails,
                BeginRetraction, RetractionFails, FinishCollection, Restart
  <1>10. QED
    BY <1>1, <1>4, <1>5, <1>6, <1>7, <1>8, <1>9

\* The first Assert of an identifier that has one is found again, whatever is
\* appended to the log.
LEMMA FirstAssertStays ==
  ASSUME TypeOK, NEW op \in CommitOperations, log' = Append(log, op),
         NEW id, Asserts(id) # {}
  PROVE  Asserts(id)' # {} /\ FirstAssert(id)' = FirstAssert(id)
  <1>1. log \in Seq(CommitOperations)
    BY DEF TypeOK
  <1>2. /\ DOMAIN log = 1..Len(log) /\ Len(log) \in Nat
        /\ DOMAIN log' = 1..(Len(log) + 1)
        /\ \A n \in 1..Len(log) : log'[n] = log[n]
    BY <1>1
  <1>3. /\ Asserts(id) \subseteq Asserts(id)'
        /\ Asserts(id)' \subseteq Asserts(id) \cup {Len(log) + 1}
        /\ Asserts(id) \subseteq 1..Len(log)
    BY <1>2 DEF Asserts
  <1>4. PICK first \in Asserts(id) : \A m \in Asserts(id) : first <= m
    BY <1>2, <1>3, SmallestExists
  <1>5. \A n \in Asserts(id) : (\A m \in Asserts(id) : n <= m) => n = first
    BY <1>3, <1>4
  <1>6. first \in Asserts(id)' /\ \A m \in Asserts(id)' : first <= m
    BY <1>2, <1>3, <1>4
  <1>7. \A n \in Asserts(id)' : (\A m \in Asserts(id)' : n <= m) => n = first
    BY <1>2, <1>3, <1>6
  <1>8. FirstAssert(id) = first
    BY <1>4, <1>5 DEF FirstAssert
  <1>9. FirstAssert(id)' = first
    BY <1>6, <1>7 DEF FirstAssert
  <1>10. QED
    BY <1>6, <1>8, <1>9

\* What one step keeps of the stamps and the commit order of two records
\* that stay live.
LEMMA QueryNextKeeps ==
  ASSUME QueryInv, TypeOK', [QueryNext]_queryVars
  PROVE  /\ StampsOK'
         /\ LiveIsAsserted'
         /\ LiveIsFinite'
         /\ \A id \in Live \cap Live' :
              /\ stamps'[id] = stamps[id]
              /\ FirstAssert(id)' = FirstAssert(id)
  <1>1. CASE UNCHANGED queryVars
    <2>1. UNCHANGED <<records, log, stamps>>
      BY <1>1 DEF queryVars, vars
    <2>2. QED
      BY <2>1 DEF QueryInv, StampsOK, LiveIsAsserted, LiveIsFinite, Live,
         Asserts, FirstAssert
  <1>2. CASE QueryNext
    <2>1. PICK second \in ReadSeconds :
            stamps' = [id \in Live' |-> IF id \in Live THEN stamps[id] ELSE second]
      BY <1>2 DEF QueryNext, StampsAfter
    <2>2. /\ StampsOK'
          /\ \A id \in Live \cap Live' : stamps'[id] = stamps[id]
      BY <2>1 DEF QueryInv, StampsOK
    <2>3. \A id \in Live : Asserts(id) # {}
      BY DEF QueryInv, LiveIsAsserted
    <2>4. [Next]_vars /\ TypeOK /\ IsFiniteSet(Live)
      BY <1>2 DEF QueryNext, QueryInv, LiveIsFinite
    <2>5. LiveIsFinite'
      <3>1. CASE Live' \subseteq Live
        BY <2>4, <3>1, FS_Subset DEF LiveIsFinite
      <3>2. ASSUME NEW op \in CommitOperations,
                   \A id \in Live' \ Live : op = [verb |-> "Assert", key |-> id]
            PROVE  LiveIsFinite'
        <4>1. Live' \subseteq Live \cup {op.key}
          BY <3>2
        <4>2. IsFiniteSet(Live \cup {op.key})
          BY <2>4, FS_AddElement
        <4>3. QED
          BY <4>1, <4>2, FS_Subset DEF LiveIsFinite
      <3>3. QED
        BY <2>4, <3>1, <3>2, LogGrows
    <2>6. CASE log' = log /\ Live' \subseteq Live
      <3>1. \A id : /\ Asserts(id)' = Asserts(id)
                    /\ FirstAssert(id)' = FirstAssert(id)
        BY <2>6 DEF Asserts, FirstAssert
      <3>2. QED
        BY <2>2, <2>3, <2>5, <2>6, <3>1 DEF LiveIsAsserted
    <2>7. ASSUME NEW op \in CommitOperations, log' = Append(log, op),
                 \A id \in Live' \ Live : op = [verb |-> "Assert", key |-> id]
          PROVE  /\ LiveIsAsserted'
                 /\ \A id \in Live \cap Live' : FirstAssert(id)' = FirstAssert(id)
      <3>1. \A id \in Live : /\ Asserts(id)' # {}
                             /\ FirstAssert(id)' = FirstAssert(id)
        BY <2>3, <2>7, FirstAssertStays DEF QueryInv
      <3>2. ASSUME NEW id \in Live' \ Live
            PROVE  Asserts(id)' # {}
        <4>1. log \in Seq(CommitOperations)
          BY DEF QueryInv, TypeOK
        <4>2. /\ Len(log) + 1 \in DOMAIN log'
              /\ log'[Len(log) + 1] = [verb |-> "Assert", key |-> id]
          BY <2>7, <3>2, <4>1
        <4>3. Len(log) + 1 \in Asserts(id)'
          BY <4>2 DEF Asserts
        <4>4. QED
          BY <4>3
      <3>3. QED
        BY <3>1, <3>2 DEF LiveIsAsserted
    <2>8. QED
      BY <2>2, <2>4, <2>5, <2>6, <2>7, LogGrows
  <1>3. QED
    BY <1>1, <1>2

LEMMA QueryInductive == QuerySpec => []QueryInv
  <1>1. QueryInit => StampsOK /\ LiveIsAsserted /\ LiveIsFinite
    BY FS_EmptySet DEF QueryInit, Init, StampsOK, LiveIsAsserted, LiveIsFinite,
       Live
  <1>2. QueryInv /\ TypeOK' /\ [QueryNext]_queryVars
          => StampsOK' /\ LiveIsAsserted' /\ LiveIsFinite'
    BY QueryNextKeeps
  <1>3. QuerySpec => []TypeOK
    BY StampsAddNothing, TypeCorrect, PTL
  <1>4. QED
    BY <1>1, <1>2, <1>3, PTL DEF QuerySpec, QueryInv

\* Two records that stay live keep their order of recency through every
\* commit (StoredRecord::with_certainty and with_entry keep the stamp, and
\* RecordCommitOrder counts first Asserts only).
THEOREM RecencyIsKept == QuerySpec => ChangesKeepRecency
  <1>1. QueryInv /\ TypeOK' /\ [QueryNext]_queryVars =>
          [\A a, b \in Live \cap Live' : Newer(a, b)' <=> Newer(a, b)]_queryVars
    <2> SUFFICES ASSUME QueryInv, TypeOK', [QueryNext]_queryVars,
                        NEW a \in Live \cap Live', NEW b \in Live \cap Live'
                 PROVE  Newer(a, b)' <=> Newer(a, b)
      OBVIOUS
    <2>1. /\ stamps'[a] = stamps[a] /\ FirstAssert(a)' = FirstAssert(a)
          /\ stamps'[b] = stamps[b] /\ FirstAssert(b)' = FirstAssert(b)
      BY QueryNextKeeps
    <2>2. QED
      BY <2>1 DEF Newer, RecordedTime
  <1>2. QueryInv => TypeOK
    BY DEF QueryInv
  <1>3. QED
    BY <1>1, <1>2, QueryInductive, PTL DEF QuerySpec, ChangesKeepRecency

\* Two seconds of the clock have the same reading only if they are the same,
\* and their readings are in their order.
LEMMA ReadingsAscend ==
  ASSUME NEW a \in ReadSeconds, NEW b \in ReadSeconds
  PROVE  /\ a \in Nat /\ b \in Nat
         /\ Earlier(Reading[a], Reading[b]) <=> a < b
  <1>1. \A now \in Int : ClockSeconds(now) \in Nat
    BY DEF ClockSeconds
  <1>2. a \in Nat /\ b \in Nat
    BY <1>1, RecordQueryAssumption DEF ReadSeconds
  <1>3. YearFits(a) /\ YearFits(b)
    BY RecordQueryAssumption
  <1>4. Reading[a] = FromUnixSeconds(a) /\ Reading[b] = FromUnixSeconds(b)
    BY DEF Reading
  <1>5. a < b => Earlier(Reading[a], Reading[b])
    BY <1>2, <1>3, <1>4, RecordedTimesAscend
  <1>6. b < a => Earlier(Reading[b], Reading[a])
    BY <1>2, <1>3, <1>4, RecordedTimesAscend
  <1>7. ~Earlier(Reading[a], Reading[a])
    BY <1>2, <1>4, NotBothEarlier
  <1>8. Earlier(Reading[b], Reading[a]) => ~Earlier(Reading[a], Reading[b])
    BY <1>2, <1>4, NotBothEarlier
  <1>9. QED
    BY <1>2, <1>5, <1>6, <1>7, <1>8

\* A range of dates and times answers with the records of the seconds between,
\* whatever the clock said (RecordFilter::matches_recorded_time).
THEOREM RangesAnswerSeconds == QuerySpec => []RangesAreExact
  <1>1. TypeOK /\ StampsOK => RangesAreExact
    <2> SUFFICES ASSUME TypeOK, StampsOK,
                        NEW first \in ReadSeconds, NEW last \in ReadSeconds
                 PROVE  Matching(AllIn(Between(Reading[first], Reading[last]))) =
                          {id \in Live : first <= stamps[id] /\ stamps[id] <= last}
      BY DEF RangesAreExact
    <2> DEFINE range == Between(Reading[first], Reading[last])
    <2>1. ASSUME NEW id \in Live
          PROVE  RecordedTime(id) \in range
                   <=> first <= stamps[id] /\ stamps[id] <= last
      <3>1. stamps[id] \in ReadSeconds
        BY DEF StampsOK
      <3>2. RecordedTime(id) \in RecordedTimes
        BY <3>1 DEF RecordedTime, RecordedTimes
      <3>3. QED
        BY <3>1, <3>2, ReadingsAscend DEF Between, RecordedTime
    <2>2. \A id \in Live : records[id] \in Entries
      BY DEF TypeOK, Live
    <2>3. \A id \in Live : /\ records[id].certainty \in Magnitudes
                          /\ records[id].privacy \in Magnitudes
      BY <2>2 DEF Entries
    <2> HIDE DEF range
    <2>4. Matching(AllIn(range)) = {id \in Live : RecordedTime(id) \in range}
      BY <2>3 DEF Matching, AllIn, MatchesTopic
    <2>5. QED
      BY <2>1, <2>4 DEF range
  <1>2. QED
    BY <1>1, QueryInductive, PTL DEF QueryInv

-----------------------------------------------------------------------------
(* Recency *)

\* What RecordCommitOrder finds for a live record: its first Assert, which is
\* the only one when its identifier was minted once.
LEMMA FirstAssertType ==
  ASSUME QueryInv, NEW id \in Live
  PROVE  /\ FirstAssert(id) \in Nat
         /\ MintedOnce(id) => CapturedAt(id) = FirstAssert(id)
  <1>1. log \in Seq(CommitOperations) /\ Asserts(id) # {}
    BY DEF QueryInv, TypeOK, LiveIsAsserted
  <1>2. Asserts(id) \subseteq 1..Len(log) /\ Len(log) \in Nat
    BY <1>1 DEF Asserts
  <1>3. PICK first \in Asserts(id) : \A m \in Asserts(id) : first <= m
    BY <1>1, <1>2, SmallestExists
  <1>4. /\ FirstAssert(id) \in Asserts(id)
        /\ \A m \in Asserts(id) : FirstAssert(id) <= m
    BY <1>1, <1>3 DEF FirstAssert
  <1>5. ASSUME MintedOnce(id)
        PROVE  CapturedAt(id) = FirstAssert(id)
    <2>1. IsFiniteSet(Asserts(id))
      <3>1. IsFiniteSet(1..Len(log))
        BY <1>2, FS_Interval
      <3>2. QED
        BY <1>2, <3>1, FS_Subset
    <2>2. PICK n : Asserts(id) = {n}
      BY <1>5, <2>1, FS_Singleton DEF MintedOnce
    <2>3. n \in Nat
      BY <1>2, <2>2
    <2>4. QED
      BY <1>4, <2>2, <2>3 DEF CapturedAt
  <1>6. QED
    BY <1>2, <1>4, <1>5

\* Recency as numbers.
LEMMA NewerIs ==
  ASSUME QueryInv, NEW a \in Live, NEW b \in Live
  PROVE  /\ stamps[a] \in Nat /\ stamps[b] \in Nat
         /\ Newer(a, b) <=>
              \/ stamps[a] > stamps[b]
              \/ stamps[a] = stamps[b] /\ FirstAssert(a) > FirstAssert(b)
  <1>1. stamps[a] \in ReadSeconds /\ stamps[b] \in ReadSeconds
    BY DEF QueryInv, StampsOK
  <1>2. /\ stamps[a] \in Nat /\ stamps[b] \in Nat
        /\ Earlier(Reading[stamps[b]], Reading[stamps[a]]) <=> stamps[b] < stamps[a]
        /\ Earlier(Reading[stamps[a]], Reading[stamps[b]]) <=> stamps[a] < stamps[b]
        /\ ~Earlier(Reading[stamps[a]], Reading[stamps[a]])
    BY <1>1, ReadingsAscend
  <1>3. Reading[stamps[a]] = Reading[stamps[b]] <=> stamps[a] = stamps[b]
    BY <1>2
  <1>4. QED
    BY <1>2, <1>3 DEF Newer, RecordedTime

\* The order windows are cut from leaves no two records undecided.
LEMMA NewestFirstIsStrict ==
  ASSUME QueryInv, NEW S \in SUBSET Live
  PROVE  IsStrictOrder(S, NewestFirst(S))
  <1>1. \A a \in S : a \in Nat /\ stamps[a] \in Nat /\ FirstAssert(a) \in Nat
    BY FirstAssertType, NewerIs, RecordQueryAssumption DEF QueryInv, TypeOK
  <1>2. \A a, b \in S :
          <<a, b>> \in NewestFirst(S) <=>
            \/ stamps[a] > stamps[b]
            \/ stamps[a] = stamps[b] /\ FirstAssert(a) > FirstAssert(b)
            \/ stamps[a] = stamps[b] /\ FirstAssert(a) = FirstAssert(b) /\ a < b
    <2> TAKE a \in S, b \in S
    <2>1. /\ Newer(a, b) <=>
               \/ stamps[a] > stamps[b]
               \/ stamps[a] = stamps[b] /\ FirstAssert(a) > FirstAssert(b)
          /\ Newer(b, a) <=>
               \/ stamps[b] > stamps[a]
               \/ stamps[b] = stamps[a] /\ FirstAssert(b) > FirstAssert(a)
      BY NewerIs
    <2>2. <<a, b>> \in NewestFirst(S) <=> Newer(a, b) \/ (~Newer(b, a) /\ a < b)
      BY DEF NewestFirst
    <2>3. QED
      BY <1>1, <2>1, <2>2
  <1>3. QED
    BY <1>1, <1>2 DEF IsStrictOrder

\* The first places of a list without repetitions.
LEMMA TruncateHolds ==
  ASSUME NEW S, NEW list \in Seq(S), NEW limit \in Nat,
         \A i, j \in DOMAIN list : list[i] = list[j] => i = j
  PROVE  LET cut == Truncate(list, limit)
         IN  /\ Len(cut) = SmallerOf(limit, Len(list))
             /\ DOMAIN cut = 1..Len(cut)
             /\ Len(cut) \in Nat /\ Len(cut) <= Len(list)
             /\ \A i \in DOMAIN cut : i \in DOMAIN list /\ cut[i] = list[i]
             /\ Cardinality(Range(cut)) = Len(cut)
  <1> DEFINE cut == Truncate(list, limit)
             n == SmallerOf(limit, Len(list))
  <1>1. n \in Nat /\ n <= Len(list)
    BY DEF SmallerOf
  <1>2. /\ Len(cut) = n
        /\ DOMAIN cut = 1..n
        /\ \A i \in 1..n : i \in DOMAIN list /\ cut[i] = list[i]
    BY <1>1 DEF Truncate
  <1>3. cut \in Surjection(1..n, Range(cut)) /\ cut \in Injection(1..n, Range(cut))
    <2> HIDE DEF n
    <2>1. cut \in [1..n -> Range(cut)]
      <3>1. cut \in Seq(S)
        BY <1>1 DEF Truncate, n
      <3>2. cut = [i \in 1..n |-> cut[i]]
        BY <1>2, <3>1
      <3>3. QED
        BY <1>2, <3>2 DEF Range
    <2> HIDE DEF cut
    <2>2. \A y \in Range(cut) : \E i \in 1..n : cut[i] = y
      BY <1>2 DEF Range
    <2>3. IsInjective(cut)
      BY <1>2 DEF IsInjective
    <2>4. QED
      BY <2>1, <2>2, <2>3 DEF Surjection, Injection
  <1>4. Cardinality(Range(cut)) = n
    <2>1. IsFiniteSet(1..n) /\ Cardinality(1..n) = n
      BY <1>1, FS_Interval
    <2> HIDE DEF cut, n
    <2>2. QED
      BY <1>3, <2>1, FS_Surjection
  <1>5. QED
    BY <1>1, <1>2, <1>4

\* What records_for_query answers a query with a window: the newest records
\* it matches, newest first.
LEMMA WindowHolds ==
  ASSUME QueryInv, NEW q \in Queries, q.window # "None"
  PROVE  LET answer == Answer(q)
             kept   == Range(answer)
         IN  /\ kept \subseteq Matching(q)
             /\ Cardinality(kept) = Len(answer)
             /\ Len(answer) = SmallerOf(Limits[q.window], Cardinality(Matching(q)))
             /\ \A i, j \in DOMAIN answer :
                  i < j => <<answer[i], answer[j]>> \in NewestFirst(Matching(q))
             /\ \A in \in kept, out \in Matching(q) \ kept :
                  <<in, out>> \in NewestFirst(Matching(q))
  <1> DEFINE M == Matching(q)
             before == NewestFirst(M)
             list == InOrder(M, before)
             answer == Truncate(list, Limits[q.window])
  <1>1. Limits[q.window] \in Nat
    <2>1. q.window \in Windows
      BY RecordQueryAssumption DEF RecordQueries
    <2>2. QED
      BY <2>1, RecordQueryAssumption
  <1>2. M \in SUBSET Live /\ IsFiniteSet(M)
    <2>1. M \in SUBSET Live
      BY DEF Matching
    <2>2. QED
      BY <2>1, FS_Subset DEF QueryInv, LiveIsFinite
  <1>3. IsStrictOrder(M, before)
    BY <1>2, NewestFirstIsStrict
  <1> HIDE DEF M, before
  <1>4. /\ list \in Seq(M)
        /\ Len(list) = Cardinality(M)
        /\ \A x \in M : \E k \in DOMAIN list : list[k] = x
        /\ \A i, j \in DOMAIN list : i < j => <<list[i], list[j]>> \in before
        /\ \A i, j \in DOMAIN list : list[i] = list[j] => i = j
    BY <1>2, <1>3, InOrderLists
  <1> HIDE DEF list
  <1>5. /\ Len(answer) = SmallerOf(Limits[q.window], Len(list))
        /\ DOMAIN answer = 1..Len(answer)
        /\ Len(answer) \in Nat /\ Len(answer) <= Len(list)
        /\ \A i \in DOMAIN answer : i \in DOMAIN list /\ answer[i] = list[i]
        /\ Cardinality(Range(answer)) = Len(answer)
    BY <1>1, <1>4, TruncateHolds
  <1>6. Answer(q) = answer
    BY DEF Answer, M, before, list
  <1> HIDE DEF answer
  <1>7. DOMAIN list = 1..Len(list) /\ Len(list) \in Nat
    BY <1>4
  <1>8. Range(answer) \subseteq M
    BY <1>4, <1>5 DEF Range
  <1>9. ASSUME NEW in \in Range(answer), NEW out \in M \ Range(answer)
        PROVE  <<in, out>> \in before
    <2>1. PICK i \in 1..Len(answer) : answer[i] = in
      BY <1>5 DEF Range
    <2>2. PICK j \in 1..Len(list) : list[j] = out
      BY <1>4, <1>7
    <2>3. j \notin 1..Len(answer)
      BY <1>5, <2>2 DEF Range
    <2>4. i < j
      BY <1>5, <1>7, <2>3
    <2>5. QED
      BY <1>4, <1>5, <1>7, <2>1, <2>2, <2>4
  <1>10. QED
    BY <1>4, <1>5, <1>6, <1>8, <1>9 DEF M, before

\* A window holds the newest matching records, newest first, and as many as
\* it has room for (store.rs, records_for_query and RecentRecordSelection).
THEOREM WindowsAreNewest == QuerySpec => []WindowIsNewest
  <1>1. QueryInv => WindowIsNewest
    <2> SUFFICES ASSUME QueryInv, NEW q \in Queries, q.window # "None"
                 PROVE  LET answer == Answer(q)
                            kept   == Range(answer)
                        IN  /\ kept \subseteq Matching(q)
                            /\ Cardinality(kept) = Len(answer)
                            /\ Len(answer) = SmallerOf(Limits[q.window],
                                                       Cardinality(Matching(q)))
                            /\ \A i, j \in DOMAIN answer :
                                 i < j /\ MintedOnce(answer[i]) /\ MintedOnce(answer[j])
                                   => ~CapturedAfter(answer[j], answer[i])
                            /\ \A in \in kept, out \in Matching(q) \ kept :
                                 MintedOnce(in) /\ MintedOnce(out) => ~CapturedAfter(out, in)
      BY DEF WindowIsNewest
    <2>1. ASSUME NEW a \in Live, NEW b \in Live,
                 <<a, b>> \in NewestFirst(Matching(q)), MintedOnce(a), MintedOnce(b)
          PROVE  ~CapturedAfter(b, a)
      <3>1. ~Newer(b, a)
        <4>1. Newer(a, b) \/ ~Newer(b, a)
          BY <2>1 DEF NewestFirst
        <4>2. QED
          BY <4>1, FirstAssertType, NewerIs
      <3>2. CapturedAt(a) = FirstAssert(a) /\ CapturedAt(b) = FirstAssert(b)
        BY <2>1, FirstAssertType
      <3>3. QED
        BY <3>1, <3>2, NewerIs DEF CapturedAfter
    <2>2. Matching(q) \subseteq Live /\ Range(Answer(q)) \subseteq Matching(q)
      BY WindowHolds DEF Matching
    <2>3. \A i \in DOMAIN Answer(q) : Answer(q)[i] \in Live
      BY <2>2 DEF Range
    <2>4. QED
      BY <2>1, <2>2, <2>3, WindowHolds
  <1>2. QED
    BY <1>1, QueryInductive, PTL

-----------------------------------------------------------------------------
(* Topics *)

\* The topic catalog counts as many records for a topic as a public query for
\* it shows: no live record lists a topic twice, so its places are records
\* (store.rs, topic_counts).
THEOREM CatalogCountsRecords == QuerySpec => []CatalogAgreesWithQueries
  <1>1. ASSUME QueryInv, NEW topic \in Topics
        PROVE  TopicCount(topic) =
                 Len(Answer([topics |-> [mode |-> "Partial", topics |-> {topic}],
                             certainty |-> Magnitudes, privacy |-> Public,
                             times |-> RecordedTimes, window |-> "None"]))
    <2> DEFINE q == [topics |-> [mode |-> "Partial", topics |-> {topic}],
                     certainty |-> Magnitudes, privacy |-> Public,
                     times |-> RecordedTimes, window |-> "None"]
               M == Matching(q)
               P == {place \in TopicPlaces :
                       records[place[1]].topics[place[2]] = topic}
               record == [place \in P |-> place[1]]
    <2>1. \A id \in Live :
            /\ records[id].certainty \in Magnitudes
            /\ RecordedTime(id) \in RecordedTimes
            /\ IsInjective(records[id].topics)
      BY <1>1 DEF QueryInv, TypeOK, StampsOK, Entries, HasValidTopics,
                  RecordedTime, RecordedTimes
    <2>2. M = {id \in Live : /\ topic \in Range(records[id].topics)
                             /\ records[id].privacy \in Public}
      BY <2>1 DEF Matching, MatchesTopic
    <2>3. IsFiniteSet(M) /\ M \in SUBSET Nat
      <3>1. M \in SUBSET Live
        BY <2>2
      <3>2. QED
        BY <1>1, <3>1, FS_Subset, RecordQueryAssumption
           DEF QueryInv, LiveIsFinite, TypeOK
    <2>4. Len(Answer(q)) = Cardinality(M)
      <3> HIDE DEF M
      <3>1. IsStrictOrder(M, Ascending(M))
        BY <2>3 DEF IsStrictOrder, Ascending
      <3>2. Len(InOrder(M, Ascending(M))) = Cardinality(M)
        BY <2>3, <3>1, InOrderLists
      <3>3. Answer(q) = InOrder(M, Ascending(M))
        BY DEF Answer, ByIdentifier, M
      <3>4. QED
        BY <3>2, <3>3
    <2>5. \A place : place \in P <=>
            \E id \in Live : \E k \in DOMAIN records[id].topics :
              /\ place = <<id, k>>
              /\ records[id].privacy \in Public
              /\ records[id].topics[k] = topic
      BY DEF TopicPlaces
    <2> HIDE DEF P, M
    <2>6. record \in [P -> M]
      BY <2>2, <2>5 DEF Range
    <2>7. ASSUME NEW x \in P, NEW y \in P, record[x] = record[y]
          PROVE  x = y
      BY <2>1, <2>5, <2>7 DEF IsInjective
    <2>8. ASSUME NEW id \in M
          PROVE  \E place \in P : record[place] = id
      <3>1. PICK k \in DOMAIN records[id].topics : records[id].topics[k] = topic
        BY <2>2 DEF Range
      <3>2. <<id, k>> \in P
        BY <2>2, <2>5, <3>1
      <3>3. QED
        BY <3>2
    <2>9. record \in Bijection(P, M)
      BY <2>6, <2>7, <2>8 DEF Bijection, Injection, Surjection, IsInjective
    <2>10. Cardinality(P) = Cardinality(M)
      <3>1. ExistsBijection(P, M)
        BY <2>9 DEF ExistsBijection
      <3>2. ExistsBijection(M, P)
        BY <3>1, Fun_ExistsBijSymmetric
      <3>3. QED
        BY <2>3, <3>2, FS_Bijection
    <2>11. QED
      BY <2>4, <2>10 DEF TopicCount, P
  <1>2. QueryInv => CatalogAgreesWithQueries
    BY <1>1 DEF CatalogAgreesWithQueries
  <1>3. QED
    BY <1>2, QueryInductive, PTL
==============================================================================
