----------------------------- MODULE MCMetaPlane -----------------------------
(***************************************************************************)
(* A small instance of MetaPlane: each meta operation, in requests of one  *)
(* and of two, and every upgrade operation that leads into the freeze, out *)
(* of it or to the end.                                                    *)
(***************************************************************************)
EXTENDS MetaPlane

MCMetaRequests ==
  {<<"Reload">>, <<"Retire">>, <<"Start", "Register">>, <<"Drain">>}

MCOrdinaryRequests == {<<"Write">>}

Markers0 == [commit : 0..MaxCommit, stamp : Stamps]

MCUpgradeRequests ==
  {<<[op |-> "ReadyToHandover", source |-> n]>> : n \in 0..MaxCommit}
    \cup {<<[op |-> "HandoverCompleted", accepted |-> m]>> : m \in Markers0}
    \cup {<<[op |-> "RecoverFromFailure"]>>}
    \cup {<<[op |-> "Mirror", payload |-> "Stored"]>>}
=============================================================================
