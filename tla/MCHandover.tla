----------------------------- MODULE MCHandover -----------------------------
(***************************************************************************)
(* Small instances of Handover: every kind of ordinary request, meta       *)
(* requests of one and two operations, every single upgrade operation with *)
(* every commit and stamp in reach, and the upgrade requests of two        *)
(* operations in which the first changes what the second sees.             *)
(***************************************************************************)
EXTENDS Handover

SmallMarkers == [commit : 0..MaxCommit, stamp : Stamps]

MCOrdinaryRequests ==
  {<<"Observe">>, <<"Subscribe">>, <<"Write">>, <<"Observe", "Write">>}

MCMetaRequests == {<<"Reload">>, <<"Drain", "Register">>}

Ready(source) == [op |-> "ReadyToHandover", source |-> source]
Completed(marker) == [op |-> "HandoverCompleted", accepted |-> marker]
Recover == [op |-> "RecoverFromFailure"]

SingleOperations ==
  [op : {"AskHandoverMarker", "Divergence", "RecoverFromFailure"}]
    \cup {Ready(source) : source \in 0..MaxCommit}
    \cup {Completed(marker) : marker \in SmallMarkers}
    \cup [op : {"Mirror"}, payload : MirrorPayloads]

MCUpgradeRequests ==
  {<<operation>> : operation \in SingleOperations}
    \cup {<<Ready(m.commit), Completed(m)>> : m \in SmallMarkers}
    \cup {<<Completed(m), Recover>> : m \in SmallMarkers}
    \cup {<<Recover, Ready(source)>> : source \in 0..MaxCommit}
    \cup {<<[op |-> "Mirror", payload |-> "Refused"], Recover>>}
=============================================================================
