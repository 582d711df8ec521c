--------------------------- MODULE MCRecordStore ---------------------------
(***************************************************************************)
(* Small instances of RecordStore: two texts an entry can carry, and one   *)
(* the topic discipline refuses.                                           *)
(***************************************************************************)
EXTENDS RecordStore, TLC

MCTopicLists == {<<"a">>, <<"b">>, <<"a", "a">>}

IdentifierSymmetry == Permutations(Identifiers)
=============================================================================
