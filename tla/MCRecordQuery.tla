---------------------------- MODULE MCRecordQuery ----------------------------
(***************************************************************************)
(* Small instances of RecordQuery: three identifiers, a clock that is      *)
(* before the epoch or on either side of a midnight after a leap day,      *)
(* windows of one to four records, two topics and a list the topic         *)
(* discipline refuses.                                                     *)
(***************************************************************************)
EXTENDS RecordQuery

MCLimits == [Shallow |-> 1, Recent |-> 2, Deep |-> 3, VeryDeep |-> 4]

\* One second before the epoch, 2000-02-29 23:59:59 and the second after it.
MCSeconds == {-1, 951868799, 951868800}

\* A list that is accepted and one the topic discipline refuses.
MCTopicLists == {<<"a", "b">>, <<"b", "b">>}

\* The calendar and the reference agree on every day of an era.
ASSUME CalendarOfAnEra ==
  /\ UnixDate(0) = [year |-> 1970, month |-> 1, day |-> 1]
  /\ \A days \in 0..146096 : UnixDate(days + 1) = NextDay(UnixDate(days))

MCWindowQueries ==
  {q \in RecordQueries :
     /\ q.topics.mode = "Any"
     /\ q.certainty \in {{"Zero"}, Magnitudes}
     /\ q.privacy = Public
     /\ q.window # "None"}
=============================================================================
