------------------------------- MODULE Listing -------------------------------
(***************************************************************************)
(* The two ways the daemon makes a list of a collection: sorted            *)
(* (slice::sort_by_key) and filtered in place (Vec::retain).               *)
(*                                                                         *)
(* The member at place k of a sorted list is the one that k - 1 others     *)
(* precede: a definition by rank, with neither an algorithm nor a          *)
(* recursion, so that what the lists hold can be proved.                   *)
(***************************************************************************)
EXTENDS Integers, Sequences, FiniteSets

\* How many members of the set precede x; before is a set of pairs.
Rank(S, before, x) == Cardinality({y \in S : <<y, x>> \in before})

\* The members of a finite set, each before those it precedes.
InOrder(S, before) ==
  [k \in 1..Cardinality(S) |-> CHOOSE x \in S : Rank(S, before, x) = k - 1]

Ascending(S) == {pair \in S \X S : pair[1] < pair[2]}

\* The places of a list that hold a member of the set.
Places(list, kept) == {i \in DOMAIN list : list[i] \in kept}

\* The list without the values that are not in the set, in its order.
Retained(list, kept) ==
  LET order == InOrder(Places(list, kept), Ascending(Places(list, kept)))
  IN  [k \in DOMAIN order |-> list[order[k]]]

\* A strict order in which any two members of the set are comparable.
IsStrictOrder(S, before) ==
  /\ \A x \in S : <<x, x>> \notin before
  /\ \A x, y, z \in S :
       <<x, y>> \in before /\ <<y, z>> \in before => <<x, z>> \in before
  /\ \A x, y \in S : x = y \/ <<x, y>> \in before \/ <<y, x>> \in before
==============================================================================
