------------------------------ MODULE Migration ------------------------------
(***************************************************************************)
(* The migrations of migration.rs: one program run reads every record of a *)
(* source store, writes them one by one into an empty target store, and,   *)
(* when identifiers change, ends by writing a sidecar file with the table  *)
(* of old and new identifiers.                                             *)
(*                                                                         *)
(* Each write to the target is durable on its own.  A run can fail or be   *)
(* killed between any two of them, and the operator may run the program    *)
(* again on the same two paths.                                            *)
(***************************************************************************)
EXTENDS RecordIdentifierMint, Sequences, FiniteSets, SequencesExt, Listing

CONSTANTS
  Kinds,              \* the migrations looked at
  Identifiers,        \* identifier values
  Entries,            \* what is stored under an identifier
  Seconds,            \* recorded times, to the second
  Sources,            \* source stores
  Targets,            \* target stores an operator points a migration to
  MaxFaults           \* bound: engine and file calls that fail in a behaviour

VARIABLES
  kind,      \* which migration this is
  source,    \* the source records, in the order they were first asserted
  target,    \* the target's records table, identifier -> [entry, second]
  log,       \* identifiers asserted in the target, in commit order
  todo,      \* records the run has yet to write
  table,     \* identifier table of the run, a sequence of rows
  sidecar,   \* the file beside the target
  phase,     \* "idle" between two runs, "copying" in a run
  outcome,   \* how the last run ended
  faults     \* failed calls so far

vars == <<kind, source, target, log, todo, table, sidecar, phase, outcome,
          faults>>

-----------------------------------------------------------------------------
(* Data *)

\* v0.1-v0.2, v0.2-next and v0.3-v0.4 copy identifiers; v0.4-v0.5 mints every
\* identifier anew; v0.5-v0.5.2 mints one for every long identifier.
AllKinds == {"copy", "remint", "shorten"}

SourceRecords == [identifier : Identifiers, entry : Entries, second : Seconds]

\* Those whose code has at most seven characters.
ShortIdentifiers == {id \in Identifiers : id < Power(MaxLength)}

Rows == [previous : Identifiers, current : Identifiers]

\* The sidecar file: absent, cut short, or whole.
NoFile == [state |-> "absent", rows |-> <<>>]
Torn == [state |-> "torn", rows |-> <<>>]
Whole(rows) == [state |-> "whole", rows |-> rows]

DistinctIdentifiers(records) ==
  \A i, j \in DOMAIN records :
    records[i].identifier = records[j].identifier => i = j

ASSUME MigrationAssumption ==
  /\ Kinds \subseteq AllKinds
  /\ Identifiers \subseteq Nat
  /\ ShortCodes \subseteq Identifiers
  /\ Sources \subseteq Seq(SourceRecords)
  /\ \A records \in Sources : DistinctIdentifiers(records)
  /\ \A store \in Targets :
       /\ DOMAIN store \subseteq Identifiers
       /\ \A id \in DOMAIN store :
            store[id] \in [entry : Entries, second : Seconds]
  /\ MaxFaults \in Nat

Init ==
  /\ kind \in Kinds
  /\ source \in Sources
  /\ target \in Targets
  /\ log = <<>>
  /\ todo = <<>>
  /\ table = <<>>
  /\ sidecar = NoFile
  /\ phase = "idle"
  /\ outcome = "none"
  /\ faults = 0

-----------------------------------------------------------------------------
(* Reading the source *)

\* all_records: by identifier, whatever the order of assertion.
ByIdentifier(records) ==
  InOrder(records,
          {pair \in records \X records : pair[1].identifier < pair[2].identifier})

\* Mutant: every v0.5 identifier is kept.
KeepsEveryIdentifier(id) == kind # "remint"

KeepsIdentifier(id) ==
  kind = "copy" \/ (kind = "shorten" /\ id \in ShortIdentifiers)

\* Mutant: the minted identifiers come first.
InGroupsLongFirst(records) ==
  ByIdentifier({r \in Range(records) : ~KeepsIdentifier(r.identifier)})
    \o ByIdentifier({r \in Range(records) : KeepsIdentifier(r.identifier)})

\* V050RecordGroups: the kept identifiers first, so that none is minted for
\* another record before it is imported.
InGroups(records) ==
  ByIdentifier({r \in Range(records) : KeepsIdentifier(r.identifier)})
    \o ByIdentifier({r \in Range(records) : ~KeepsIdentifier(r.identifier)})

-----------------------------------------------------------------------------
(* A run of the program *)

Ends(how) == phase' = "idle" /\ outcome' = how

\* Mutant: a target that holds records is written to.
StartAnywhere ==
  /\ phase = "idle"
  /\ phase' = "copying"
  /\ outcome' = "none"
  /\ todo' = InGroups(source)
  /\ table' = <<>>
  /\ UNCHANGED <<kind, source, target, log, sidecar, faults>>

\* The target must be empty.
Start ==
  /\ phase = "idle"
  /\ IF DOMAIN target = {}
       THEN /\ phase' = "copying"
            /\ outcome' = "none"
            /\ todo' = InGroups(source)
       ELSE /\ Ends("refused")
            /\ UNCHANGED todo
  /\ table' = <<>>
  /\ UNCHANGED <<kind, source, target, log, sidecar, faults>>

\* One assertion in the target.  A key that is there already is replaced; the
\* engine may as well refuse it, which is RunFails.
Import(id, record) ==
  /\ target' = [r \in DOMAIN target \cup {id} |->
       IF r = id THEN [entry |-> record.entry, second |-> record.second]
                 ELSE target[r]]
  /\ log' = Append(log, id)

\* Mutant: the mint does not look at the target.
MintedBlindly(id) == MayMint({}, id)

\* assert_entry mints from the records that are in the target now.
Minted(id) == MayMint(DOMAIN target, id)

\* Mutant: the row repeats the previous identifier.
MigrateRecordRowRepeats ==
  /\ phase = "copying"
  /\ todo # <<>>
  /\ LET record == Head(todo)
     IN  \E id \in Identifiers :
           /\ IF KeepsIdentifier(record.identifier)
                THEN id = record.identifier
                ELSE Minted(id)
           /\ Import(id, record)
           /\ table' = Append(table, [previous |-> record.identifier,
                                      current  |-> record.identifier])
  /\ todo' = Tail(todo)
  /\ UNCHANGED <<kind, source, sidecar, phase, outcome, faults>>

MigrateRecord ==
  /\ phase = "copying"
  /\ todo # <<>>
  /\ LET record == Head(todo)
     IN  \E id \in Identifiers :
           /\ IF KeepsIdentifier(record.identifier)
                THEN id = record.identifier
                ELSE Minted(id)
           /\ Import(id, record)
           /\ table' = Append(table, [previous |-> record.identifier,
                                      current  |-> id])
  /\ todo' = Tail(todo)
  /\ UNCHANGED <<kind, source, sidecar, phase, outcome, faults>>

\* The last thing a run does; a copying migration has no table to write.
WriteTable ==
  /\ phase = "copying"
  /\ todo = <<>>
  /\ sidecar' = IF kind = "copy" THEN sidecar ELSE Whole(table)
  /\ Ends("completed")
  /\ UNCHANGED <<kind, source, target, log, todo, table, faults>>

CallFails == faults < MaxFaults /\ faults' = faults + 1

NothingToMint ==
  /\ todo # <<>>
  /\ ~KeepsIdentifier(Head(todo).identifier)
  /\ \A id \in Identifiers : ~Minted(id)

\* Opening a store, reading it, asserting: any of it can fail, or the program
\* be killed; and the mint can run out of codes.
RunFails ==
  /\ phase = "copying"
  /\ \/ CallFails
     \/ NothingToMint /\ UNCHANGED faults
  /\ Ends("failed")
  /\ UNCHANGED <<kind, source, target, log, todo, table, sidecar>>

\* fs::write truncates the file and then fills it: it can fail, or the
\* program be killed, with nothing, a part or all of it written.
WriteFails ==
  /\ phase = "copying"
  /\ todo = <<>>
  /\ kind # "copy"
  /\ CallFails
  /\ sidecar' \in {sidecar, Torn, Whole(table)}
  /\ Ends("failed")
  /\ UNCHANGED <<kind, source, target, log, todo, table>>

Next ==
  \/ Start
  \/ MigrateRecord
  \/ WriteTable
  \/ RunFails
  \/ WriteFails

Spec == Init /\ [][Next]_vars

-----------------------------------------------------------------------------
(* Properties *)

\* Every variable stays in its type, and no migration that mints leaves a row
\* whose current identifier is a long one (ARCHITECTURE.md:100, "production
\* cutover must not keep rendering them").
TypeOK ==
  /\ kind \in Kinds
  /\ source \in Sources
  /\ DOMAIN target \subseteq Identifiers
  /\ \A id \in DOMAIN target :
       target[id] \in [entry : Entries, second : Seconds]
  /\ log \in Seq(Identifiers)
  /\ todo \in Seq(SourceRecords)
  /\ table \in Seq(Rows)
  /\ kind # "copy" =>
       \A i \in DOMAIN table : table[i].current \in ShortIdentifiers
  /\ sidecar \in [state : {"absent", "torn", "whole"}, rows : Seq(Rows)]
  /\ phase \in {"idle", "copying"}
  /\ outcome \in {"none", "refused", "failed", "completed"}
  /\ faults \in 0..MaxFaults

\* The rows tell, for every source record, where the target keeps it, and no
\* two records share a place.
Faithful(rows) ==
  /\ Len(rows) = Len(source)
  /\ Cardinality({rows[i].current : i \in DOMAIN rows}) = Len(rows)
  /\ \A i \in DOMAIN source :
       \E j \in DOMAIN rows :
         /\ rows[j].previous = source[i].identifier
         /\ rows[j].current \in DOMAIN target
         /\ target[rows[j].current] = [entry  |-> source[i].entry,
                                       second |-> source[i].second]

\* A run that reports completion has moved every record, unchanged and without
\* one overwriting another, and its sidecar says so, whatever runs came
\* before (the order of V050RecordGroups and the mint of the target agree).
CompletedIsFaithful ==
  outcome = "completed" =>
    /\ Faithful(table)
    /\ kind # "copy" => sidecar = Whole(table)

\* A sidecar, once whole, stays true of the target through every later run.
SidecarStaysFaithful ==
  sidecar.state = "whole" => Faithful(sidecar.rows)

\* A record in the target is never changed or dropped by a migration: not one
\* that was there before, not one a broken run left behind, not one the same
\* run has just written.
TargetOnlyGrows ==
  [][\A id \in DOMAIN target : id \in DOMAIN target' /\ target'[id] = target[id]]_vars

\* ARCHITECTURE.md:95-98: the mint gives "the shortest available" code,
\* "widening only when the shorter range is occupied".
MintsShortest ==
  [][\A id \in DOMAIN target' \ DOMAIN target :
       ~KeepsIdentifier(Head(todo).identifier) =>
         \A free \in ShortCodes \ DOMAIN target : Digits(id) <= Digits(free)]_vars

\* A run in which no call fails ends without its records only when the target
\* holds every code there is: no gap between the ranges of two lengths, and
\* no scan given up, loses one.
FailsOnlyWhenFull ==
  [][phase = "copying" /\ outcome' = "failed" /\ faults' = faults =>
       ShortCodes \subseteq DOMAIN target]_vars

\* A run writes to a target only what its own table accounts for.
RunAccountsForTarget ==
  phase = "copying" =>
    DOMAIN target = {table[i].current : i \in DOMAIN table}

\* ARCHITECTURE.md:103: "Recency never comes from the identifier", ties of one
\* second go by first-assert commit order: two records of the same second are
\* first asserted in the target in the order they were in the source.
Position(id) == CHOOSE i \in DOMAIN log : log[i] = id
CurrentOf(record) ==
  table[CHOOSE i \in DOMAIN table : table[i].previous = record.identifier].current

RecencyKept ==
  outcome = "completed" =>
    \A i, j \in DOMAIN source :
      i < j /\ source[i].second = source[j].second =>
        Position(CurrentOf(source[i])) < Position(CurrentOf(source[j]))
==============================================================================
