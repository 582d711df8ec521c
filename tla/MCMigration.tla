---------------------------- MODULE MCMigration ----------------------------
(***************************************************************************)
(* Small instances of Migration: every source of at most three records     *)
(* with distinct identifiers, four of which are short codes; sources of    *)
(* five records, one more than there are codes, for which the mint runs    *)
(* out; and a target that is empty or already holds a record.              *)
(***************************************************************************)
EXTENDS Migration

FiveRecords ==
  {[i \in 1..5 |-> [identifier |-> <<2, 5, 4, 1, 0>>[i], entry |-> e,
                    second |-> s]] : e \in Entries, s \in Seconds}

MCSources ==
  {records \in UNION {[1..n -> SourceRecords] : n \in 0..3} :
     DistinctIdentifiers(records)}
    \cup FiveRecords

MCTargets ==
  {<<>>} \cup {[id \in {1} |-> [entry |-> e, second |-> s]] :
                 e \in Entries, s \in Seconds}
=============================================================================
