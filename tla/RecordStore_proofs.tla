------------------------- MODULE RecordStore_proofs -------------------------
(***************************************************************************)
(* Proofs about RecordStore: IInv is inductive, whatever the identifiers,  *)
(* the entries and the bounds, and the capture-before-retract properties   *)
(* follow from it.                                                         *)
(***************************************************************************)
EXTENDS RecordStore, TLAPS

\* An entry keeps its topics when its certainty changes.
LEMMA CertaintyKeepsTopics ==
  ASSUME NEW entry \in Entries, NEW certainty \in Magnitudes
  PROVE  /\ [entry EXCEPT !.certainty = certainty] \in Entries
         /\ HasValidTopics(entry) =>
              HasValidTopics([entry EXCEPT !.certainty = certainty])
  BY DEF Entries, Magnitudes, HasValidTopics

\* What retracting a record leaves of the table.
LEMMA RetractLeaves ==
  ASSUME NEW id, Retract(id)
  PROVE  /\ Live' = Live \ {id}
         /\ \A r \in Live' : records'[r] = records[r]
  BY DEF Retract, Live, Restrict

\* A commit extends the log by an operation of the log's type.
LEMMA CommitTyped ==
  ASSUME NEW verb \in {"Assert", "Mutate", "Retract"}, NEW id \in Identifiers,
         log \in Seq(CommitOperations), Commit(verb, id)
  PROVE  log' \in Seq(CommitOperations)
  <1>1. [verb |-> verb, key |-> id] \in CommitOperations
    BY DEF CommitOperations
  <1>2. QED
    BY <1>1 DEF Commit

\* The summary of a live record is a summary.
LEMMA SummaryTyped ==
  ASSUME TypeOK, NEW id \in Live
  PROVE  Summary(id) \in Summaries
  BY DEF TypeOK, Summary, Summaries

LEMMA TypeInit == Init => TypeOK
  BY RecordStoreAssumption
     DEF Init, TypeOK, Live, ArchiveSets, Jobs, Idle, NoReceipt, HasValidTopics

\* TypeOK is inductive by itself.
LEMMA TypeNext == TypeOK /\ [Next]_vars => TypeOK'
  <1> SUFFICES ASSUME TypeOK, [Next]_vars PROVE TypeOK'
    OBVIOUS
  <1> USE RecordStoreAssumption
  <1> DEFINE TableOK ==
        /\ Live \subseteq Identifiers
        /\ \A id \in Live :
             records[id] \in Entries /\ HasValidTopics(records[id])
  <1> DEFINE RestOK ==
        /\ archives \in ArchiveSets
        /\ job \in Jobs
        /\ receipt \in [retracted : SUBSET Identifiers,
                        records : SUBSET Summaries,
                        skipped : SUBSET Identifiers]
        /\ faults \in 0..MaxFaults
        /\ restarts \in 0..MaxRestarts
        /\ collected \subseteq Summaries
  <1>a. TableOK /\ log \in Seq(CommitOperations) /\ RestOK
    BY DEF TypeOK
  <1>b. SUFFICES TableOK' /\ log' \in Seq(CommitOperations) /\ RestOK'
    BY DEF TypeOK
  <1>n. NoReceipt \in [retracted : SUBSET Identifiers,
                       records : SUBSET Summaries,
                       skipped : SUBSET Identifiers]
    BY DEF NoReceipt
  <1>1. ASSUME NEW entry \in Entries, CaptureEntry(entry)
        PROVE  TableOK' /\ log' \in Seq(CommitOperations) /\ RestOK'
    <2>1. PICK id \in Identifiers \ Live :
            /\ Commit("Assert", id)
            /\ records' = [r \in Live \cup {id} |->
                             IF r = id THEN entry ELSE records[r]]
            /\ collected' = {s \in collected : s.identifier # id}
      BY <1>1 DEF CaptureEntry
    <2>2. TableOK'
      BY <1>1, <1>a, <2>1 DEF CaptureEntry, Live
    <2>3. log' \in Seq(CommitOperations)
      BY <1>a, <2>1, CommitTyped
    <2>4. RestOK'
      BY <1>1, <1>a, <1>n, <2>1
         DEF CaptureEntry, ClientWrites, BetweenOperations
    <2>5. QED
      BY <2>2, <2>3, <2>4
  <1>2. ASSUME NEW id \in Identifiers, RemoveEntry(id)
        PROVE  TableOK' /\ log' \in Seq(CommitOperations) /\ RestOK'
    <2>1. TableOK'
      BY <1>2, <1>a, RetractLeaves DEF RemoveEntry
    <2>2. log' \in Seq(CommitOperations)
      BY <1>2, <1>a, CommitTyped DEF RemoveEntry, Retract
    <2>3. RestOK'
      BY <1>2, <1>a, <1>n DEF RemoveEntry, ClientWrites, BetweenOperations
    <2>4. QED
      BY <2>1, <2>2, <2>3
  <1>3. ASSUME NEW id \in Identifiers, NEW certainty \in Magnitudes,
               ChangeCertainty(id, certainty)
        PROVE  TableOK' /\ log' \in Seq(CommitOperations) /\ RestOK'
    <2>1. /\ id \in Live
          /\ records' = [records EXCEPT ![id] =
                           [records[id] EXCEPT !.certainty = certainty]]
      BY <1>3 DEF ChangeCertainty
    <2>2. TableOK'
      BY <1>a, <2>1, CertaintyKeepsTopics DEF Live
    <2>3. log' \in Seq(CommitOperations)
      BY <1>3, <1>a, CommitTyped DEF ChangeCertainty
    <2>4. RestOK'
      BY <1>3, <1>a, <1>n DEF ChangeCertainty, ClientWrites, BetweenOperations
    <2>5. QED
      BY <2>2, <2>3, <2>4
  <1>4. ASSUME NEW id \in Identifiers, NEW entry \in Entries,
               ChangeRecord(id, entry)
        PROVE  TableOK' /\ log' \in Seq(CommitOperations) /\ RestOK'
    <2>1. TableOK'
      BY <1>4, <1>a DEF ChangeRecord, Live
    <2>2. log' \in Seq(CommitOperations)
      BY <1>4, <1>a, CommitTyped DEF ChangeRecord
    <2>3. RestOK'
      BY <1>4, <1>a, <1>n DEF ChangeRecord, ClientWrites, BetweenOperations
    <2>4. QED
      BY <2>1, <2>2, <2>3
  <1>5. ASSUME NEW target \in Targets, NEW exactZero \in BOOLEAN,
               NEW picked \in SUBSET Identifiers,
               BeginCollection(target, exactZero, picked)
        PROVE  TableOK' /\ log' \in Seq(CommitOperations) /\ RestOK'
    <2> DEFINE summaries == {Summary(id) : id \in Candidates(exactZero, picked)}
    <2>1. summaries \in SUBSET Summaries
      BY SummaryTyped DEF Candidates
    <2>2. /\ job' = [phase |-> IF target = "Print" THEN "retracting"
                                                   ELSE "capturing",
                     target |-> target,
                     archive |-> IF target = "Path" THEN "path"
                                                    ELSE "default",
                     summaries |-> summaries,
                     todo |-> summaries]
          /\ receipt' = NoReceipt
          /\ UNCHANGED <<records, log, archives, faults, restarts, collected>>
      BY <1>5 DEF BeginCollection, BetweenOperations
    <2> HIDE DEF summaries
    <2>3. job' \in Jobs
      BY <2>1, <2>2 DEF Jobs, ArchiveNames
    <2>4. QED
      BY <1>a, <1>n, <2>2, <2>3 DEF Live
  <1>6. CASE CaptureSummary
    <2>1. job # Idle /\ job.phase = "capturing"
      BY <1>6 DEF CaptureSummary, Idle
    <2>2. PICK s \in job.todo :
            /\ archives' = [archives EXCEPT ![job.archive] =
                 {t \in @ : t.identifier # s.identifier} \cup {s}]
            /\ job' = [job EXCEPT !.todo = @ \ {s}]
      BY <1>6 DEF CaptureSummary
    <2>3. job \in Jobs \ {Idle} /\ job.todo \subseteq Summaries
      BY <1>a, <2>1 DEF Jobs
    <2>4. job' \in Jobs
      BY <2>2, <2>3 DEF Jobs
    <2>5. archives' \in ArchiveSets
      BY <1>a, <2>2, <2>3 DEF ArchiveSets, Jobs
    <2>6. QED
      BY <1>6, <1>a, <2>4, <2>5 DEF CaptureSummary, Live
  <1>7. CASE CaptureFails
    <2>1. job # Idle /\ job.phase = "capturing"
      BY <1>7 DEF CaptureFails, Idle
    <2>2. job \in Jobs \ {Idle} /\ job.summaries \subseteq Summaries
      BY <1>a, <2>1 DEF Jobs
    <2>3. faults' \in 0..MaxFaults
      BY <1>7, <1>a DEF CaptureFails, ArchiveRefuses, EngineFails
    <2>4. job' \in Jobs
      BY <1>7, <2>2 DEF CaptureFails, Jobs, ArchiveNames
    <2>5. {s.identifier : s \in job.summaries} \subseteq Identifiers
      BY <2>2 DEF Summaries
    <2>6. receipt' \in [retracted : SUBSET Identifiers,
                        records : SUBSET Summaries,
                        skipped : SUBSET Identifiers]
      BY <1>7, <1>a, <1>n, <2>5 DEF CaptureFails
    <2>7. QED
      BY <1>7, <1>a, <2>3, <2>4, <2>6 DEF CaptureFails, Live
  <1>8. CASE BeginRetraction
    <2>1. job # Idle /\ job.phase = "capturing"
      BY <1>8 DEF BeginRetraction, Idle
    <2>2. job' \in Jobs
      BY <1>8, <1>a, <2>1 DEF BeginRetraction, Jobs
    <2>3. QED
      BY <1>8, <1>a, <2>2 DEF BeginRetraction, Live
  <1>9. CASE RetractCandidate
    <2>1. job # Idle /\ job.phase = "retracting"
      BY <1>9 DEF RetractCandidate, Idle
    <2>2. job \in Jobs \ {Idle} /\ job.todo \subseteq Summaries
      BY <1>a, <2>1 DEF Jobs
    <2>3. PICK s \in job.todo :
            /\ Retract(s.identifier)
            /\ job' = [job EXCEPT !.todo = @ \ {s}]
            /\ collected' = IF job.target = "Print" THEN collected
                                                    ELSE collected \cup {s}
      BY <1>9 DEF RetractCandidate
    <2>4. s \in Summaries /\ s.identifier \in Identifiers
      BY <2>2 DEF Summaries
    <2>5. TableOK'
      BY <1>a, <2>3, RetractLeaves
    <2>6. log' \in Seq(CommitOperations)
      BY <1>a, <2>3, <2>4, CommitTyped DEF Retract
    <2>7. job' \in Jobs
      BY <2>2, <2>3 DEF Jobs
    <2>8. QED
      BY <1>9, <1>a, <2>3, <2>4, <2>5, <2>6, <2>7 DEF RetractCandidate
  <1>10. CASE RetractionFails
    BY <1>10, <1>a DEF RetractionFails, EngineFails, Jobs, Live
  <1>11. CASE FinishCollection
    <2>1. job # Idle /\ job.phase = "retracting"
      BY <1>11 DEF FinishCollection, Idle
    <2>2. job.summaries \subseteq Summaries
      BY <1>a, <2>1 DEF Jobs
    <2>3. {s.identifier : s \in job.summaries} \subseteq Identifiers
      BY <2>2 DEF Summaries
    <2>4. job' \in Jobs
      BY <1>11 DEF FinishCollection, Jobs
    <2>5. QED
      BY <1>11, <1>a, <2>2, <2>3, <2>4 DEF FinishCollection, Live
  <1>12. CASE Restart
    <2>1. job' \in Jobs
      BY <1>12 DEF Restart, Jobs
    <2>2. QED
      BY <1>12, <1>a, <1>n, <2>1 DEF Restart, Live
  <1>13. CASE UNCHANGED vars
    BY <1>13, <1>a DEF vars, Live
  <1>14. QED
    BY <1>1, <1>2, <1>3, <1>4, <1>5, <1>6, <1>7, <1>8, <1>9, <1>10, <1>11,
       <1>12, <1>13 DEF Next

-----------------------------------------------------------------------------

\* A summary tells the identifier and the entry of its record.
LEMMA SummaryFields ==
  ASSUME NEW id
  PROVE  Summary(id).identifier = id /\ Summary(id).entry = records[id]
  BY DEF Summary

\* A record that is live in both states with the same entry stays current.
LEMMA CurrentStays ==
  ASSUME NEW s, Current(s), s.identifier \in Live',
         records'[s.identifier] = records[s.identifier]
  PROVE  Current(s)'
  BY DEF Current, Summary

\* A collection in progress stays on track.
LEMMA JobNext == TypeOK /\ JobOnTrack /\ [Next]_vars => JobOnTrack'
  <1> SUFFICES ASSUME TypeOK, JobOnTrack, [Next]_vars PROVE JobOnTrack'
    OBVIOUS
  <1>1. ASSUME job' = Idle PROVE JobOnTrack'
    BY <1>1 DEF JobOnTrack
  <1>2. ASSUME UNCHANGED <<records, archives, job, receipt>> PROVE JobOnTrack'
    BY <1>2 DEF JobOnTrack, Live, Current, Summary
  <1>3. ASSUME NEW target \in Targets, NEW exactZero \in BOOLEAN,
               NEW picked \in SUBSET Identifiers,
               BeginCollection(target, exactZero, picked)
        PROVE  JobOnTrack'
    <2> DEFINE summaries == {Summary(id) : id \in Candidates(exactZero, picked)}
    <2>1. /\ job' = [phase |-> IF target = "Print" THEN "retracting"
                                                   ELSE "capturing",
                     target |-> target,
                     archive |-> IF target = "Path" THEN "path"
                                                    ELSE "default",
                     summaries |-> summaries,
                     todo |-> summaries]
          /\ receipt' = NoReceipt
          /\ exactZero
          /\ UNCHANGED records
      BY <1>3 DEF BeginCollection, BetweenOperations, AcceptsQuery
    <2>2. \A s \in summaries : Current(s) /\ IsExactZeroPublic(s.entry)
      BY <2>1, SummaryFields DEF Candidates, Current
    <2>3. \A s, t \in summaries : s.identifier = t.identifier => s = t
      BY SummaryFields
    <2>4. \A s \in summaries : Current(s)'
      BY <2>1, <2>2, CurrentStays DEF Current, Live
    <2> HIDE DEF summaries
    <2>5. QED
      BY <2>1, <2>2, <2>3, <2>4 DEF JobOnTrack
  <1>4. CASE CaptureSummary
    <2>1. job # Idle /\ job.phase = "capturing"
      BY <1>4 DEF CaptureSummary, Idle
    <2>2. PICK s \in job.todo :
            /\ archives' = [archives EXCEPT ![job.archive] =
                 {t \in @ : t.identifier # s.identifier} \cup {s}]
            /\ job' = [job EXCEPT !.todo = @ \ {s}]
      BY <1>4 DEF CaptureSummary
    <2>3. UNCHANGED <<records, receipt>>
      BY <1>4 DEF CaptureSummary
    <2>4. job \in Jobs \ {Idle} /\ archives \in ArchiveSets
      BY <2>1 DEF TypeOK
    <2>5. /\ job'.phase = "capturing"
          /\ job'.archive = job.archive
          /\ job'.summaries = job.summaries
          /\ job'.todo = job.todo \ {s}
      BY <2>1, <2>2, <2>4 DEF Jobs
    <2>6. archives'[job.archive] =
            {t \in archives[job.archive] : t.identifier # s.identifier}
              \cup {s}
      BY <2>2, <2>4 DEF Jobs, ArchiveSets
    <2>7. job'.summaries \ job'.todo \subseteq archives'[job'.archive]
      BY <2>1, <2>2, <2>5, <2>6 DEF JobOnTrack
    <2>8. \A t \in job'.summaries : Current(t)'
      BY <2>1, <2>3, <2>5 DEF JobOnTrack, Current, Live, Summary
    <2>9. QED
      BY <2>1, <2>3, <2>5, <2>7, <2>8 DEF JobOnTrack
  <1>5. CASE CaptureFails
    <2>1. job # Idle /\ job.phase = "capturing"
      BY <1>5 DEF CaptureFails, Idle
    <2>2. job \in Jobs \ {Idle}
      BY <2>1 DEF TypeOK
    <2>3. CASE job' = Idle
      BY <2>3, <1>1
    <2>4. CASE job' # Idle
      <3>1. /\ job' = [job EXCEPT !.archive = "backup",
                                  !.todo = job.summaries]
            /\ UNCHANGED <<records, receipt>>
        BY <1>5, <2>4 DEF CaptureFails
      <3>2. /\ job'.phase = "capturing"
            /\ job'.summaries = job.summaries
            /\ job'.todo = job.summaries
        BY <2>1, <2>2, <3>1 DEF Jobs
      <3>3. \A t \in job'.summaries : Current(t)'
        BY <2>1, <3>1, <3>2 DEF JobOnTrack, Current, Live, Summary
      <3>4. QED
        BY <2>1, <3>1, <3>2, <3>3 DEF JobOnTrack
    <2>5. QED
      BY <2>3, <2>4
  <1>6. CASE BeginRetraction
    <2>1. job # Idle /\ job.phase = "capturing" /\ job.todo = {}
      BY <1>6 DEF BeginRetraction, Idle
    <2>2. job \in Jobs \ {Idle}
      BY <2>1 DEF TypeOK
    <2>3. /\ job' = [job EXCEPT !.phase = "retracting",
                                !.todo = job.summaries]
          /\ UNCHANGED <<records, receipt, archives>>
      BY <1>6 DEF BeginRetraction
    <2>4. /\ job'.phase = "retracting"
          /\ job'.archive = job.archive
          /\ job'.summaries = job.summaries
          /\ job'.todo = job.summaries
      BY <2>1, <2>2, <2>3 DEF Jobs
    <2>5. \A t \in job'.todo : Current(t)'
      BY <2>1, <2>3, <2>4 DEF JobOnTrack, Current, Live, Summary
    <2>6. QED
      BY <2>1, <2>3, <2>4, <2>5 DEF JobOnTrack
  <1>7. CASE RetractCandidate
    <2>1. job # Idle /\ job.phase = "retracting"
      BY <1>7 DEF RetractCandidate, Idle
    <2>2. PICK s \in job.todo :
            /\ Retract(s.identifier)
            /\ job' = [job EXCEPT !.todo = @ \ {s}]
      BY <1>7 DEF RetractCandidate
    <2>3. UNCHANGED <<archives, receipt>>
      BY <1>7 DEF RetractCandidate
    <2>4. job \in Jobs \ {Idle}
      BY <2>1 DEF TypeOK
    <2>5. /\ job'.phase = "retracting"
          /\ job'.target = job.target
          /\ job'.archive = job.archive
          /\ job'.summaries = job.summaries
          /\ job'.todo = job.todo \ {s}
      BY <2>1, <2>2, <2>4 DEF Jobs
    <2>6. /\ Live' = Live \ {s.identifier}
          /\ \A r \in Live' : records'[r] = records[r]
      BY <2>2, RetractLeaves
    <2>7. \A t \in job'.todo : t.identifier # s.identifier
      BY <2>1, <2>2, <2>5 DEF JobOnTrack
    <2>8. \A t \in job'.todo : Current(t)'
      <3>1. TAKE t \in job'.todo
      <3>2. Current(t) /\ t.identifier \in Live'
        BY <2>1, <2>5, <2>6, <2>7 DEF JobOnTrack, Current
      <3>3. QED
        BY <2>6, <3>2, CurrentStays
    <2>9. \A t \in job'.summaries \ job'.todo : t.identifier \notin Live'
      BY <2>1, <2>5, <2>6 DEF JobOnTrack
    <2>10. QED
      BY <2>1, <2>3, <2>5, <2>8, <2>9 DEF JobOnTrack
  <1>8. ASSUME job = Idle, UNCHANGED job PROVE JobOnTrack'
    BY <1>8 DEF JobOnTrack
  <1>9. CASE \/ \E entry \in Entries : CaptureEntry(entry)
             \/ \E id \in Identifiers : RemoveEntry(id)
             \/ \E id \in Identifiers, certainty \in Magnitudes :
                  ChangeCertainty(id, certainty)
             \/ \E id \in Identifiers, entry \in Entries :
                  ChangeRecord(id, entry)
    BY <1>8, <1>9 DEF CaptureEntry, RemoveEntry, ChangeCertainty,
                      ChangeRecord, ClientWrites, BetweenOperations
  <1>10. CASE RetractionFails \/ FinishCollection \/ Restart
    BY <1>1, <1>10 DEF RetractionFails, FinishCollection, Restart
  <1>11. CASE UNCHANGED vars
    BY <1>2, <1>11 DEF vars
  <1>12. QED
    BY <1>3, <1>4, <1>5, <1>6, <1>7, <1>9, <1>10, <1>11 DEF Next

\* What has been collected stays captured and stays out of the table.
LEMMA CollectedNext ==
  IInv /\ [Next]_vars => CollectedIsCaptured' /\ CollectedIsGone'
  <1> SUFFICES ASSUME IInv, [Next]_vars
               PROVE  CollectedIsCaptured' /\ CollectedIsGone'
    OBVIOUS
  <1>1. ASSUME UNCHANGED <<archives, collected>>, Live' \subseteq Live
        PROVE  CollectedIsCaptured' /\ CollectedIsGone'
    BY <1>1 DEF IInv, CollectedIsCaptured, CollectedIsGone
  <1>2. ASSUME NEW entry \in Entries, CaptureEntry(entry)
        PROVE  CollectedIsCaptured' /\ CollectedIsGone'
    <2>1. PICK id \in Identifiers \ Live :
            /\ records' = [r \in Live \cup {id} |->
                             IF r = id THEN entry ELSE records[r]]
            /\ collected' = {s \in collected : s.identifier # id}
      BY <1>2 DEF CaptureEntry
    <2>2. Live' = Live \cup {id} /\ UNCHANGED archives
      BY <1>2, <2>1 DEF CaptureEntry, Live
    <2>3. QED
      BY <2>1, <2>2 DEF IInv, CollectedIsCaptured, CollectedIsGone
  <1>3. ASSUME NEW id \in Identifiers, RemoveEntry(id)
        PROVE  CollectedIsCaptured' /\ CollectedIsGone'
    BY <1>1, <1>3, RetractLeaves DEF RemoveEntry
  <1>4. ASSUME NEW id \in Identifiers, NEW certainty \in Magnitudes,
               ChangeCertainty(id, certainty)
        PROVE  CollectedIsCaptured' /\ CollectedIsGone'
    BY <1>1, <1>4 DEF ChangeCertainty, Live
  <1>5. ASSUME NEW id \in Identifiers, NEW entry \in Entries,
               ChangeRecord(id, entry)
        PROVE  CollectedIsCaptured' /\ CollectedIsGone'
    BY <1>1, <1>5 DEF ChangeRecord, Live
  <1>6. CASE CaptureSummary
    <2>1. job # Idle /\ job.phase = "capturing"
      BY <1>6 DEF CaptureSummary, Idle
    <2>2. PICK s \in job.todo :
            archives' = [archives EXCEPT ![job.archive] =
              {t \in @ : t.identifier # s.identifier} \cup {s}]
      BY <1>6 DEF CaptureSummary
    <2>3. UNCHANGED <<records, collected>>
      BY <1>6 DEF CaptureSummary
    <2>4. s.identifier \in Live
      BY <2>1, <2>2 DEF IInv, JobOnTrack, Current
    <2>5. archives \in ArchiveSets
      BY DEF IInv, TypeOK
    <2>6. ASSUME NEW t \in collected, NEW a \in ArchiveNames, t \in archives[a]
          PROVE  t \in archives'[a]
      <3>1. t.identifier # s.identifier
        BY <2>4 DEF IInv, CollectedIsGone
      <3>2. QED
        BY <2>2, <2>5, <2>6, <3>1 DEF ArchiveSets
    <2>7. QED
      BY <2>3, <2>6 DEF IInv, CollectedIsCaptured, CollectedIsGone, Live
  <1>7. CASE RetractCandidate
    <2>1. job # Idle /\ job.phase = "retracting"
      BY <1>7 DEF RetractCandidate, Idle
    <2>2. PICK s \in job.todo :
            /\ Retract(s.identifier)
            /\ collected' = IF job.target = "Print" THEN collected
                                                    ELSE collected \cup {s}
      BY <1>7 DEF RetractCandidate
    <2>3. Live' = Live \ {s.identifier} /\ UNCHANGED archives
      BY <1>7, <2>2, RetractLeaves DEF RetractCandidate
    <2>4. job.target # "Print" => s \in archives[job.archive]
      BY <2>1, <2>2 DEF IInv, JobOnTrack
    <2>5. job.archive \in ArchiveNames
      BY <2>1 DEF IInv, TypeOK, Jobs
    <2>6. QED
      BY <2>2, <2>3, <2>4, <2>5
         DEF IInv, CollectedIsCaptured, CollectedIsGone
  <1>8. CASE \E target \in Targets, exactZero \in BOOLEAN,
                picked \in SUBSET Identifiers :
               BeginCollection(target, exactZero, picked)
    BY <1>1, <1>8 DEF BeginCollection, Live
  <1>9. CASE CaptureFails \/ BeginRetraction \/ RetractionFails
               \/ FinishCollection \/ Restart
    BY <1>1, <1>9 DEF CaptureFails, BeginRetraction, RetractionFails,
                      FinishCollection, Restart, Live
  <1>10. CASE UNCHANGED vars
    BY <1>1, <1>10 DEF vars, Live
  <1>11. QED
    BY <1>2, <1>3, <1>4, <1>5, <1>6, <1>7, <1>8, <1>9, <1>10 DEF Next

\* The receipt tells the store after every step.
LEMMA ReceiptNext == IInv /\ [Next]_vars => ReceiptTellsTheStore'
  <1> SUFFICES ASSUME IInv, [Next]_vars PROVE ReceiptTellsTheStore'
    OBVIOUS
  <1>1. ASSUME receipt' = NoReceipt PROVE ReceiptTellsTheStore'
    BY <1>1 DEF ReceiptTellsTheStore, NoReceipt
  <1>2. ASSUME UNCHANGED <<records, receipt>> PROVE ReceiptTellsTheStore'
    BY <1>2 DEF IInv, ReceiptTellsTheStore, Live
  <1>3. CASE CaptureFails
    <2>1. CASE UNCHANGED receipt
      BY <1>2, <1>3, <2>1 DEF CaptureFails
    <2>2. CASE ~UNCHANGED receipt
      <3>1. /\ job # Idle /\ job.phase = "capturing"
            /\ receipt' = [NoReceipt EXCEPT !.skipped =
                 {s.identifier : s \in job.summaries}]
            /\ UNCHANGED records
        BY <1>3, <2>2 DEF CaptureFails, Idle
      <3>2. {s.identifier : s \in job.summaries} \subseteq Live
        BY <3>1 DEF IInv, JobOnTrack, Current
      <3>3. QED
        BY <3>1, <3>2 DEF ReceiptTellsTheStore, NoReceipt, Live
    <2>3. QED
      BY <2>1, <2>2
  <1>4. CASE RetractCandidate
    <2>1. receipt' = NoReceipt
      BY <1>4 DEF RetractCandidate, IInv, JobOnTrack, Idle
    <2>2. QED
      BY <1>1, <2>1
  <1>5. CASE FinishCollection
    <2>1. job # Idle /\ job.phase = "retracting" /\ job.todo = {}
      BY <1>5 DEF FinishCollection, Idle
    <2>2. \A s \in job.summaries : s.identifier \notin Live
      BY <2>1 DEF IInv, JobOnTrack
    <2>3. QED
      BY <1>5, <2>2 DEF FinishCollection, ReceiptTellsTheStore, Live
  <1>6. CASE \/ \E entry \in Entries : CaptureEntry(entry)
             \/ \E id \in Identifiers : RemoveEntry(id)
             \/ \E id \in Identifiers, certainty \in Magnitudes :
                  ChangeCertainty(id, certainty)
             \/ \E id \in Identifiers, entry \in Entries :
                  ChangeRecord(id, entry)
             \/ \E target \in Targets, exactZero \in BOOLEAN,
                   picked \in SUBSET Identifiers :
                  BeginCollection(target, exactZero, picked)
             \/ Restart
    BY <1>1, <1>6 DEF CaptureEntry, RemoveEntry, ChangeCertainty,
                      ChangeRecord, BeginCollection, ClientWrites,
                      BetweenOperations, Restart
  <1>7. CASE CaptureSummary \/ BeginRetraction \/ RetractionFails
    BY <1>2, <1>7 DEF CaptureSummary, BeginRetraction, RetractionFails
  <1>8. CASE UNCHANGED vars
    BY <1>2, <1>8 DEF vars
  <1>9. QED
    BY <1>3, <1>4, <1>5, <1>6, <1>7, <1>8 DEF Next

LEMMA IInvInit == Init => IInv
  BY TypeInit DEF Init, IInv, JobOnTrack, CollectedIsCaptured,
                  CollectedIsGone, ReceiptTellsTheStore, NoReceipt

LEMMA IInvNext == IInv /\ [Next]_vars => IInv'
  BY TypeNext, JobNext, CollectedNext, ReceiptNext DEF IInv

-----------------------------------------------------------------------------
(* Theorems *)

\* Every variable of the store keeps the shape its Rust type gives it, and
\* every live record has passed validate_topics (store.rs).
THEOREM TypeCorrect == Spec => []TypeOK
  <1>1. Init => TypeOK
    BY TypeInit
  <1>2. TypeOK /\ [Next]_vars => TypeOK'
    BY TypeNext
  <1>3. QED
    BY <1>1, <1>2, PTL DEF Spec

\* The invariant a reader can reason with: how far a collection has come.
THEOREM Inductive == Spec => []IInv
  <1>1. QED
    BY IInvInit, IInvNext, PTL DEF Spec

\* What collect_removal_candidates took out of the table for an archive is in
\* an archive until its identifier is minted again, whatever fails or
\* restarts in between.
THEOREM CollectedStaysCaptured == Spec => []CollectedIsCaptured
  <1>1. IInv => CollectedIsCaptured
    BY DEF IInv
  <1>2. QED
    BY <1>1, Inductive, PTL

\* The reply of collect_removal_candidates is true of the table.
THEOREM ReceiptsAreTrue == Spec => []ReceiptTellsTheStore
  <1>1. IInv => ReceiptTellsTheStore
    BY DEF IInv
  <1>2. QED
    BY <1>1, Inductive, PTL

\* While a collection retracts, the records that leave the table are those
\* RetractCandidate takes, and they are current.
LEMMA OnlyCandidatesLeave ==
  ASSUME IInv, [Next]_vars, job.phase = "retracting", NEW id \in Live \ Live'
  PROVE  Summary(id) \in job.summaries
  <1>1. job # Idle
    BY DEF Idle
  <1>2. Live' # Live
    OBVIOUS
  <1>3. ~(UNCHANGED records)
    BY <1>2 DEF Live
  <1>4. RetractCandidate
    BY <1>1, <1>3
       DEF Next, vars, Idle, CaptureEntry, RemoveEntry, ChangeCertainty,
           ChangeRecord, BeginCollection, ClientWrites, BetweenOperations,
           CaptureSummary, CaptureFails, BeginRetraction, RetractionFails,
           FinishCollection, Restart
  <1>5. PICK s \in job.todo : Retract(s.identifier)
    BY <1>4 DEF RetractCandidate
  <1>6. id = s.identifier
    BY <1>5, RetractLeaves
  <1>7. s \in job.summaries /\ s = Summary(id)
    BY <1>1, <1>5, <1>6 DEF IInv, JobOnTrack, Current
  <1>8. QED
    BY <1>7

\* A record leaves the table in a collection only once the archive holds it
\* as it stands (the loop of collect_removal_candidates after
\* capture_to_target).
THEOREM CapturesFirst == Spec => CaptureBeforeRetract
  <1>1. IInv /\ [Next]_vars =>
          [job.phase = "retracting" /\ job.target # "Print"
             => \A id \in Live \ Live' :
                  Summary(id) \in archives[job.archive]]_vars
    <2> SUFFICES ASSUME IInv, [Next]_vars, job.phase = "retracting",
                        job.target # "Print", NEW id \in Live \ Live'
                 PROVE  Summary(id) \in archives[job.archive]
      OBVIOUS
    <2>1. job # Idle
      BY DEF Idle
    <2>2. QED
      BY <2>1, OnlyCandidatesLeave DEF IInv, JobOnTrack
  <1>2. QED
    BY <1>1, Inductive, PTL DEF Spec, CaptureBeforeRetract

\* A collection retracts records of exact Zero certainty and privacy only
\* (CollectionQueryGuard and the query of collect_removal_candidates).
THEOREM CollectsPublicZeroes == Spec => CollectsOnlyZeroPublic
  <1>1. IInv /\ [Next]_vars =>
          [job.phase = "retracting"
             => \A id \in Live \ Live' : IsExactZeroPublic(records[id])]_vars
    <2> SUFFICES ASSUME IInv, [Next]_vars, job.phase = "retracting",
                        NEW id \in Live \ Live'
                 PROVE  IsExactZeroPublic(records[id])
      OBVIOUS
    <2>1. job # Idle
      BY DEF Idle
    <2>2. QED
      BY <2>1, OnlyCandidatesLeave, SummaryFields DEF IInv, JobOnTrack
  <1>2. QED
    BY <1>1, Inductive, PTL DEF Spec, CollectsOnlyZeroPublic
==============================================================================
