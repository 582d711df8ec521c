----------------------------- MODULE RecordStore -----------------------------
(***************************************************************************)
(* SpiritStore of store.rs behind its actor: the records table, the        *)
(* engine's commit log, the removal-candidate archives, and the collection *)
(* of removal candidates taken apart into the commits it is made of.       *)
(*                                                                         *)
(* The actor runs one operation at a time, so nothing interleaves with a   *)
(* collection; but each of its commits is durable on its own, and between  *)
(* two of them an engine call can fail and the process can stop.           *)
(***************************************************************************)
EXTENDS Integers, FiniteSets, Sequences, Functions

CONSTANTS
  Identifiers,   \* RecordIdentifier values in reach of the mint
  TopicLists,    \* topics of the entries clients submit, which stand for
                 \* their text and kind as well
  Targets,       \* output targets collections name
  MaxCommits,    \* bound: commits clients' own operations make
  MaxFaults,     \* bound: engine calls that fail in a behaviour
  MaxRestarts    \* bound: restarts in a behaviour

VARIABLES
  records,    \* the records table, identifier -> entry; the daemon's stamp,
              \* which no operation here reads or changes, is left out
  log,        \* the engine's commit log; its length is the commit sequence
  archives,   \* archive databases, name -> set of summaries, durable
  job,        \* the collection in progress, or Idle
  receipt,    \* reply of the last operation when it was a collection
  faults,     \* failed engine calls so far
  restarts,   \* restarts so far
  collected   \* history: summaries collected into an archive, each until
              \* its identifier is minted again

vars == <<records, log, archives, job, receipt, faults, restarts, collected>>

-----------------------------------------------------------------------------
(* Data *)

Magnitudes == {"Zero", "Maximum"}

ASSUME RecordStoreAssumption ==
  /\ TopicLists \subseteq Seq(STRING)
  /\ Targets \subseteq {"Default", "Path", "Print"}
  /\ MaxCommits \in Nat
  /\ MaxFaults \in Nat
  /\ MaxRestarts \in Nat

Entries ==
  [topics : TopicLists, certainty : Magnitudes, privacy : Magnitudes]

\* validate_topics: at least one topic and none of them twice.
HasValidTopics(entry) == entry.topics # <<>> /\ IsInjective(entry.topics)

\* RecordSummary: all of the record but its date and time.
Summaries == [identifier : Identifiers, entry : Entries]
Summary(id) == [identifier |-> id, entry |-> records[id]]

\* The default archive beside the store, the one shared fallback in the
\* temporary directory, and an explicit path.
ArchiveNames == {"default", "backup", "path"}

CommitOperations == [verb : {"Assert", "Mutate", "Retract"}, key : Identifiers]

Idle == [phase |-> "idle"]
NoReceipt == [retracted |-> {}, records |-> {}, skipped |-> {}]

Init ==
  /\ records = <<>>
  /\ log = <<>>
  /\ archives = [a \in ArchiveNames |-> {}]
  /\ job = Idle
  /\ receipt = NoReceipt
  /\ faults = 0
  /\ restarts = 0
  /\ collected = {}

-----------------------------------------------------------------------------
(* Engine *)

Live == DOMAIN records

\* One transaction on the records table, one entry in the commit log.
Commit(verb, id) == log' = Append(log, [verb |-> verb, key |-> id])

Retract(id) ==
  /\ Commit("Retract", id)
  /\ records' = Restrict(records, Live \ {id})

\* An engine call that fails commits nothing.
EngineFails == faults < MaxFaults /\ faults' = faults + 1

-----------------------------------------------------------------------------
(* Operations of one commit.  A rejected entry, a missing record and an     *)
(* engine call that fails change nothing.                                   *)

BetweenOperations == job = Idle /\ receipt' = NoReceipt

ClientWrites == BetweenOperations /\ Len(log) < MaxCommits

\* assert_entry: the mint looks at the live identifiers only.
CaptureEntry(entry) ==
  /\ ClientWrites
  /\ HasValidTopics(entry)
  /\ \E id \in Identifiers \ Live :
       /\ Commit("Assert", id)
       /\ records' = [r \in Live \cup {id} |->
                        IF r = id THEN entry ELSE records[r]]
       /\ collected' = {s \in collected : s.identifier # id}
  /\ UNCHANGED <<archives, job, faults, restarts>>

RemoveEntry(id) ==
  /\ ClientWrites
  /\ id \in Live
  /\ Retract(id)
  /\ UNCHANGED <<archives, job, faults, restarts, collected>>

ChangeCertainty(id, certainty) ==
  /\ ClientWrites
  /\ id \in Live
  /\ Commit("Mutate", id)
  /\ records' = [records EXCEPT ![id].certainty = certainty]
  /\ UNCHANGED <<archives, job, faults, restarts, collected>>

\* Mutant: the replacement entry skips the topic discipline.
ChangeRecordUnvalidated(id, entry) ==
  /\ ClientWrites
  /\ id \in Live
  /\ Commit("Mutate", id)
  /\ records' = [records EXCEPT ![id] = entry]
  /\ UNCHANGED <<archives, job, faults, restarts, collected>>

ChangeRecord(id, entry) ==
  /\ ClientWrites
  /\ HasValidTopics(entry)
  /\ id \in Live
  /\ Commit("Mutate", id)
  /\ records' = [records EXCEPT ![id] = entry]
  /\ UNCHANGED <<archives, job, faults, restarts, collected>>

-----------------------------------------------------------------------------
(* collect_removal_candidates *)

IsExactZeroPublic(entry) ==
  entry.certainty = "Zero" /\ entry.privacy = "Zero"

\* The rest of the query (topics, kind, recorded time) picks any subset.
Candidates(exactZero, picked) ==
  {id \in Live \cap picked :
     exactZero => IsExactZeroPublic(records[id])}

\* Mutant: any query is collected.
AcceptsAnyQuery(exactZero) == TRUE

\* CollectionQueryGuard: only an exact-zero public query is collected.
AcceptsQuery(exactZero) == exactZero

\* The summaries are taken once, before the first commit of the collection.
BeginCollection(target, exactZero, picked) ==
  /\ BetweenOperations
  /\ AcceptsQuery(exactZero)
  /\ LET summaries == {Summary(id) : id \in Candidates(exactZero, picked)}
     IN  job' = [phase     |-> IF target = "Print" THEN "retracting"
                                                   ELSE "capturing",
                 target    |-> target,
                 archive   |-> IF target = "Path" THEN "path" ELSE "default",
                 summaries |-> summaries,
                 todo      |-> summaries]
  /\ UNCHANGED <<records, log, archives, faults, restarts, collected>>

Archived(a, id) == \E s \in archives[a] : s.identifier = id

\* Mutant: the archive is written as a fresh database.
CaptureSummaryAfresh ==
  /\ job.phase = "capturing"
  /\ \E s \in job.todo :
       /\ archives' = [archives EXCEPT ![job.archive] =
            (job.summaries \ job.todo) \cup {s}]
       /\ job' = [job EXCEPT !.todo = @ \ {s}]
  /\ UNCHANGED <<records, log, receipt, faults, restarts, collected>>

\* One append of a summary to the archive, a commit of its own.  Nothing in
\* the repository says what the engine does with an assertion of a key that
\* is there already: it may refuse it (CaptureFails) or replace the row.
CaptureSummary ==
  /\ job.phase = "capturing"
  /\ \E s \in job.todo :
       /\ archives' = [archives EXCEPT ![job.archive] =
            {t \in @ : t.identifier # s.identifier} \cup {s}]
       /\ job' = [job EXCEPT !.todo = @ \ {s}]
  /\ UNCHANGED <<records, log, receipt, faults, restarts, collected>>

\* The archive cannot be opened, a write fails, or a key is refused.
ArchiveRefuses ==
  \/ EngineFails
  \/ /\ \E s \in job.todo : Archived(job.archive, s.identifier)
     /\ UNCHANGED faults

\* Mutant: the shared archive takes over where the default one stopped.
CaptureFailsHalfWay ==
  /\ job.phase = "capturing"
  /\ ArchiveRefuses
  /\ IF job.target = "Default" /\ job.archive = "default"
       THEN /\ job' = [job EXCEPT !.archive = "backup"]
            /\ UNCHANGED receipt
       ELSE /\ job' = Idle
            /\ receipt' = [NoReceipt EXCEPT !.skipped =
                 {s.identifier : s \in job.summaries}]
  /\ UNCHANGED <<records, log, archives, restarts, collected>>

\* The default archive falls back to the shared one, from the first summary;
\* any other failure skips every candidate and retracts none.
CaptureFails ==
  /\ job.phase = "capturing"
  /\ ArchiveRefuses
  /\ IF job.target = "Default" /\ job.archive = "default"
       THEN /\ job' = [job EXCEPT !.archive = "backup",
                                  !.todo = job.summaries]
            /\ UNCHANGED receipt
       ELSE /\ job' = Idle
            /\ receipt' = [NoReceipt EXCEPT !.skipped =
                 {s.identifier : s \in job.summaries}]
  /\ UNCHANGED <<records, log, archives, restarts, collected>>

BeginRetraction ==
  /\ job.phase = "capturing"
  /\ job.todo = {}
  /\ job' = [job EXCEPT !.phase = "retracting", !.todo = job.summaries]
  /\ UNCHANGED <<records, log, archives, receipt, faults, restarts, collected>>

RetractCandidate ==
  /\ job.phase = "retracting"
  /\ \E s \in job.todo :
       /\ Retract(s.identifier)
       /\ job' = [job EXCEPT !.todo = @ \ {s}]
       /\ collected' = IF job.target = "Print" THEN collected
                                               ELSE collected \cup {s}
  /\ UNCHANGED <<archives, receipt, faults, restarts>>

\* Mutant: the first failed retraction ends the loop, not the operation.
RetractionStops ==
  /\ job.phase = "retracting"
  /\ job.todo # {}
  /\ EngineFails
  /\ job' = Idle
  /\ receipt' = [retracted |-> {s.identifier : s \in job.summaries},
                 records   |-> job.summaries,
                 skipped   |-> {}]
  /\ UNCHANGED <<records, log, archives, restarts, collected>>

\* The whole operation answers with an error: what was retracted so far
\* stays retracted and the summaries are dropped.
RetractionFails ==
  /\ job.phase = "retracting"
  /\ job.todo # {}
  /\ EngineFails
  /\ job' = Idle
  /\ UNCHANGED <<records, log, archives, receipt, restarts, collected>>

FinishCollection ==
  /\ job.phase = "retracting"
  /\ job.todo = {}
  /\ job' = Idle
  /\ receipt' = [retracted |-> {s.identifier : s \in job.summaries},
                 records   |-> job.summaries,
                 skipped   |-> {}]
  /\ UNCHANGED <<records, log, archives, faults, restarts, collected>>

\* The process stops and opens the same databases again.
Restart ==
  /\ restarts < MaxRestarts
  /\ restarts' = restarts + 1
  /\ job' = Idle
  /\ receipt' = NoReceipt
  /\ UNCHANGED <<records, log, archives, faults, collected>>

Next ==
  \/ \E entry \in Entries : CaptureEntry(entry)
  \/ \E id \in Identifiers : RemoveEntry(id)
  \/ \E id \in Identifiers, certainty \in Magnitudes :
       ChangeCertainty(id, certainty)
  \/ \E id \in Identifiers, entry \in Entries : ChangeRecord(id, entry)
  \/ \E target \in Targets, exactZero \in BOOLEAN,
        picked \in SUBSET Identifiers :
       BeginCollection(target, exactZero, picked)
  \/ CaptureSummary
  \/ CaptureFails
  \/ BeginRetraction
  \/ RetractCandidate
  \/ RetractionFails
  \/ FinishCollection
  \/ Restart

Spec == Init /\ [][Next]_vars

-----------------------------------------------------------------------------
(* Properties *)

ArchiveSets == [ArchiveNames -> SUBSET Summaries]

Jobs == {Idle} \cup
  [phase : {"capturing", "retracting"}, target : {"Default", "Path", "Print"},
   archive : ArchiveNames, summaries : SUBSET Summaries,
   todo : SUBSET Summaries]

\* Every variable stays in the shape its Rust type gives it; what is live in
\* the table has passed the topic discipline of Record and ChangeRecord.
TypeOK ==
  /\ Live \subseteq Identifiers
  /\ \A id \in Live : records[id] \in Entries /\ HasValidTopics(records[id])
  /\ log \in Seq(CommitOperations)
  /\ archives \in ArchiveSets
  /\ job \in Jobs
  /\ receipt \in [retracted : SUBSET Identifiers, records : SUBSET Summaries,
                  skipped : SUBSET Identifiers]
  /\ faults \in 0..MaxFaults
  /\ restarts \in 0..MaxRestarts
  /\ collected \subseteq Summaries

\* Capture before retract (ARCHITECTURE.md:57): a record a collection takes
\* out of the table has, as it stands at that moment, been captured by the
\* archive the collection ended up with, even when the capture fell back to
\* the shared archive half-way or repeats one cut short by a crash.
CaptureBeforeRetract ==
  [][job.phase = "retracting" /\ job.target # "Print"
       => \A id \in Live \ Live' : Summary(id) \in archives[job.archive]]_vars

\* Nothing that was collected into an archive disappears from the archives,
\* whatever is collected later, fails, or restarts, for as long as its
\* identifier is not minted again (an archive is keyed by identifier).
CollectedIsCaptured ==
  \A s \in collected : \E a \in ArchiveNames : s \in archives[a]

\* A collection retracts nothing but records that at that moment are exact
\* Zero in certainty and privacy.
CollectsOnlyZeroPublic ==
  [][job.phase = "retracting"
       => \A id \in Live \ Live' : IsExactZeroPublic(records[id])]_vars

\* The receipt tells the store as it stands: what it reports retracted is
\* gone and is returned in full, what it reports skipped is still live, and
\* a collection does one or the other.
ReceiptTellsTheStore ==
  /\ receipt.retracted \cap Live = {}
  /\ receipt.retracted = {s.identifier : s \in receipt.records}
  /\ receipt.skipped \subseteq Live
  /\ receipt.skipped = {} \/ receipt.retracted = {}

\* ARCHITECTURE.md:95: "Record identifiers are non-reusable opaque random
\* locators", "Removed identifiers are not reused": the commit log never
\* asserts a key a second time.
IdentifiersNotReused ==
  \A i, j \in DOMAIN log :
    log[i].verb = "Assert" /\ log[j] = log[i] => i = j

\* ARCHITECTURE.md:60: the collection "retracts only the candidates whose
\* capture step succeeded", and for Print "the RemovalCandidatesCollected
\* reply is the typed capture material" (line 66): when the operation is
\* over, what it retracted is in an archive or in its reply.
RetractedIsCaptured ==
  [][job.phase = "retracting" /\ job' = Idle /\ restarts' = restarts
       => \A s \in job.summaries \ job.todo :
            \/ s \in receipt'.records
            \/ \E a \in ArchiveNames : s \in archives[a]]_vars
-----------------------------------------------------------------------------
(* The strengthening of CollectedIsCaptured and ReceiptTellsTheStore that    *)
(* every step preserves.                                                     *)

\* Still in the table exactly as it was summarised.
Current(s) == s.identifier \in Live /\ s = Summary(s.identifier)

\* How far the collection in progress has come: what it has captured is in
\* its archive, what it has retracted is gone, the rest is untouched.
JobOnTrack ==
  job # Idle =>
    /\ receipt = NoReceipt
    /\ job.todo \subseteq job.summaries
    /\ \A s, t \in job.summaries : s.identifier = t.identifier => s = t
    /\ \A s \in job.summaries : IsExactZeroPublic(s.entry)
    /\ job.phase = "capturing" =>
         /\ \A s \in job.summaries : Current(s)
         /\ job.summaries \ job.todo \subseteq archives[job.archive]
    /\ job.phase = "retracting" =>
         /\ \A s \in job.todo : Current(s)
         /\ \A s \in job.summaries \ job.todo : s.identifier \notin Live
         /\ job.target # "Print" =>
              job.summaries \subseteq archives[job.archive]

CollectedIsGone == \A s \in collected : s.identifier \notin Live

IInv ==
  /\ TypeOK
  /\ JobOnTrack
  /\ CollectedIsCaptured
  /\ CollectedIsGone
  /\ ReceiptTellsTheStore
==============================================================================
