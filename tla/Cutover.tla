------------------------------- MODULE Cutover -------------------------------
(***************************************************************************)
(* What a Spirit daemon promises to the daemon that replaces it, with no   *)
(* threads, sockets or messages: the store's commit sequence only grows;   *)
(* readiness is granted at the commit the successor has copied; and the    *)
(* daemon retires only while its store still stands at exactly that        *)
(* commit.  A restart forgets the phase and keeps the store.               *)
(***************************************************************************)
EXTENDS Integers

VARIABLES
  phase,    \* "Active", "HandoverMode" or "PrivateUpgradeOnly"
  commit,   \* the store's commit sequence
  copied    \* the commit the successor copied, NotCopied outside a handover

vars == <<phase, commit, copied>>

NotCopied == -1

Init ==
  /\ phase = "Active"
  /\ commit \in Nat
  /\ copied = NotCopied

\* Writes may land in every phase.  One that lands in HandoverMode makes the
\* handover impossible to complete; it cannot be lost by completing it.
Write ==
  /\ commit' \in Nat
  /\ commit' > commit
  /\ UNCHANGED <<phase, copied>>

GrantReadiness ==
  /\ phase = "Active"
  /\ phase' = "HandoverMode"
  /\ copied' = commit
  /\ UNCHANGED commit

Abandon ==
  /\ phase = "HandoverMode"
  /\ phase' = "Active"
  /\ copied' = NotCopied
  /\ UNCHANGED commit

Retire ==
  /\ phase = "HandoverMode"
  /\ commit = copied
  /\ phase' = "PrivateUpgradeOnly"
  /\ UNCHANGED <<commit, copied>>

Restart ==
  /\ phase' = "Active"
  /\ copied' = NotCopied
  /\ UNCHANGED commit

Next == Write \/ GrantReadiness \/ Abandon \/ Retire \/ Restart

Spec == Init /\ [][Next]_vars
==============================================================================
