----------------------------- MODULE RecordQuery -----------------------------
(***************************************************************************)
(* The read path of SpiritStore: record filters, qualitative recency and   *)
(* topic counts, over RecordStore with the stamp of every record added.    *)
(*                                                                         *)
(* A record is stamped with the date and the time of day of the daemon's   *)
(* clock when it is captured.  The clock may be set back, and many records *)
(* share a second; the commit log breaks the ties.                         *)
(***************************************************************************)
EXTENDS RecordStore, SequencesExt, CivilDate, Listing

CONSTANTS
  Seconds,   \* what the system's clock says, seconds after the Unix epoch
  Limits,    \* records each qualitative window keeps
  Queries    \* record queries clients ask

VARIABLE
  stamps     \* second every live record was stamped in

queryVars == <<vars, stamps>>

-----------------------------------------------------------------------------
(* Data *)

Windows == {"Shallow", "Recent", "Deep", "VeryDeep"}

Topics == UNION {Range(topics) : topics \in TopicLists}

TopicSelections ==
  [mode : {"Any"}, topics : {{}}] \cup
  [mode : {"Partial", "Full"}, topics : SUBSET Topics]

\* Any, Exact, AtMost and AtLeast accept an interval of the magnitudes.
MagnitudeSelections == SUBSET Magnitudes \ {{}}

\* The seconds ClockPlane reads, and the reading a record is stamped with.
ReadSeconds == {ClockSeconds(now) : now \in Seconds}
Reading == [second \in ReadSeconds |-> FromUnixSeconds(second)]
RecordedTimes == {Reading[second] : second \in ReadSeconds}

\* The recorded times a Between accepts.
Between(first, last) ==
  {time \in RecordedTimes : ~Earlier(time, first) /\ ~Earlier(last, time)}

\* Any, Since, Until and Between accept an interval of the recorded times;
\* a window accepts every record and cuts the list afterwards.
TimeRanges == {Between(first, last) :
                 first \in RecordedTimes, last \in RecordedTimes}

RecordQueries ==
  LET Selections(times, windows) ==
        [topics : TopicSelections, certainty : MagnitudeSelections,
         privacy : MagnitudeSelections, times : times, window : windows]
  IN  Selections(TimeRanges \cup {RecordedTimes}, {"None"}) \cup
      Selections({RecordedTimes}, Windows)

ASSUME RecordQueryAssumption ==
  /\ Identifiers \subseteq Nat
  /\ Seconds \subseteq Int
  /\ \A second \in ReadSeconds : YearFits(second)
  /\ Limits \in [Windows -> Nat]
  /\ Queries \subseteq RecordQueries

\* What an observation that names no privacy sees: exact Zero.
Public == {"Zero"}

-----------------------------------------------------------------------------
(* Stamps *)

\* Mutant: a changed record is stamped again.
StampsAfterRestamping(second) ==
  [id \in Live' |-> IF id \in Live /\ records'[id] = records[id]
                      THEN stamps[id] ELSE second]

\* A capture stamps the record; changes keep the stamp with the identifier.
StampsAfter(second) ==
  [id \in Live' |-> IF id \in Live THEN stamps[id] ELSE second]

QueryInit == Init /\ stamps = <<>>

QueryNext ==
  /\ Next
  /\ \E second \in ReadSeconds : stamps' = StampsAfter(second)

QuerySpec == QueryInit /\ [][QueryNext]_queryVars

-----------------------------------------------------------------------------
(* RecordCommitOrder *)

Asserts(id) ==
  {n \in DOMAIN log : log[n].verb = "Assert" /\ log[n].key = id}

\* The first Assert of the key in the whole commit log, 0 without one.
FirstAssert(id) ==
  IF Asserts(id) = {} THEN 0
  ELSE CHOOSE n \in Asserts(id) : \A m \in Asserts(id) : n <= m

\* StoredRecord::recorded_time: the store keeps a date and a time of day.
RecordedTime(id) == Reading[stamps[id]]

\* Later in recorded time, and at the same time in first-assert order.
Newer(a, b) ==
  \/ Earlier(RecordedTime(b), RecordedTime(a))
  \/ RecordedTime(a) = RecordedTime(b) /\ FirstAssert(a) > FirstAssert(b)

-----------------------------------------------------------------------------
(* RecordFilter and RecentRecordSelection *)

MatchesTopic(selection, entry) ==
  LET topics == Range(entry.topics)
  IN  \/ selection.mode = "Any"
      \/ selection.mode = "Partial" /\ selection.topics \cap topics # {}
      \/ selection.mode = "Full" /\ selection.topics \subseteq topics

Matching(q) ==
  {id \in Live :
     /\ MatchesTopic(q.topics, records[id])
     /\ records[id].certainty \in q.certainty
     /\ RecordedTime(id) \in q.times
     /\ records[id].privacy \in q.privacy}

\* all_records is in identifier order; the sort by recency is stable.
NewestFirst(S) ==
  {pair \in S \X S :
     LET a == pair[1]
         b == pair[2]
     IN  Newer(a, b) \/ (~Newer(b, a) /\ a < b)}
ByIdentifier(S) == Ascending(S)

SmallerOf(m, n) == IF m <= n THEN m ELSE n

Truncate(list, limit) == SubSeq(list, 1, SmallerOf(limit, Len(list)))

\* Mutant: the window is cut before the records are filtered.
AnswerCutFirst(q) ==
  IF q.window = "None"
    THEN InOrder(Matching(q), ByIdentifier(Matching(q)))
    ELSE Retained(Truncate(InOrder(Live, NewestFirst(Live)), Limits[q.window]),
                  Matching(q))

\* records_for_query
Answer(q) ==
  IF q.window = "None"
    THEN InOrder(Matching(q), ByIdentifier(Matching(q)))
    ELSE Truncate(InOrder(Matching(q), NewestFirst(Matching(q))),
                  Limits[q.window])

\* Every place of a topic in the list of a public record.
TopicPlaces ==
  UNION {{id} \X DOMAIN records[id].topics :
           id \in {r \in Live : records[r].privacy \in Public}}

\* topic_counts
TopicCount(topic) ==
  Cardinality({place \in TopicPlaces :
                 records[place[1]].topics[place[2]] = topic})

-----------------------------------------------------------------------------
(* Properties *)

\* Exactly the live records have a stamp, and an Assert in the log.
StampsOK == stamps \in [Live -> ReadSeconds]
LiveIsAsserted == \A id \in Live : Asserts(id) # {}

\* The capture of a live record is the last Assert of its identifier.
CapturedAt(id) == CHOOSE n \in Asserts(id) : \A m \in Asserts(id) : m <= n

CapturedAfter(a, b) ==
  \/ stamps[a] > stamps[b]
  \/ stamps[a] = stamps[b] /\ CapturedAt(a) > CapturedAt(b)

MintedOnce(id) == Cardinality(Asserts(id)) = 1

\* ARCHITECTURE.md, constraint on qualitative depths: they "are applied after
\* topic/kind/certainty/privacy matching and keep the newest matching records
\* at the requested depth".  A window is filled with matching records, newest
\* first, and no matching record it leaves out is newer than one it keeps;
\* of records whose identifier was minted a second time nothing is said.
WindowIsNewest ==
  \A q \in Queries :
    q.window # "None" =>
      LET answer == Answer(q)
          kept   == Range(answer)
      IN  /\ kept \subseteq Matching(q)
          /\ Cardinality(kept) = Len(answer)
          /\ Len(answer) = SmallerOf(Limits[q.window],
                                     Cardinality(Matching(q)))
          /\ \A i, j \in DOMAIN answer :
               i < j /\ MintedOnce(answer[i]) /\ MintedOnce(answer[j])
                 => ~CapturedAfter(answer[j], answer[i])
          /\ \A in \in kept, out \in Matching(q) \ kept :
               MintedOnce(in) /\ MintedOnce(out) => ~CapturedAfter(out, in)

\* ARCHITECTURE.md:53: a change of certainty or entry "preserves the
\* daemon-stamped provenance".  Whatever commits, two records that stay live
\* keep their order of recency: no maintenance moves a record into a window
\* or out of one except by changing what it matches.
ChangesKeepRecency ==
  [][\A a, b \in Live \cap Live' : Newer(a, b)' <=> Newer(a, b)]_queryVars

\* Every record with a recorded time in the set.
AllIn(times) ==
  [topics |-> [mode |-> "Any", topics |-> {}], certainty |-> Magnitudes,
   privacy |-> Magnitudes, times |-> times, window |-> "None"]

\* A range of recorded times, given by dates and times of day, answers with
\* exactly the records the clock stamped between the two seconds.
RangesAreExact ==
  \A first, last \in ReadSeconds :
    Matching(AllIn(Between(Reading[first], Reading[last]))) =
      {id \in Live : first <= stamps[id] /\ stamps[id] <= last}

\* The topic catalog and the record queries, two separate walks over the
\* table, agree: a topic counts as many records as a public query for it
\* shows, which needs the topic discipline on every way into the table.
CatalogAgreesWithQueries ==
  \A topic \in Topics :
    TopicCount(topic) =
      Len(Answer([topics |-> [mode |-> "Partial", topics |-> {topic}],
                  certainty |-> Magnitudes, privacy |-> Public,
                  times |-> RecordedTimes, window |-> "None"]))
==============================================================================
