------------------------------ MODULE MetaPlane ------------------------------
(***************************************************************************)
(* What the meta requests of Handover act on: the lifecycle generation and *)
(* the identities that MetaPlane keeps, the bootstrap policy in force that *)
(* PolicyPlane keeps, and the policy file it is read from.  Neither plane  *)
(* stores anything: a plane that is started again begins anew.             *)
(*                                                                         *)
(* A step of Handover that asks the root a meta operation is here the step *)
(* that performs it, with any argument; every other step leaves the planes *)
(* alone.                                                                  *)
(***************************************************************************)
EXTENDS Handover, SequencesExt, Listing

CONSTANTS
  Names,          \* identities that are registered and retired
  Generations,    \* lifecycle generations
  Policies,       \* policy file contents that parse
  MaxEdits,       \* bound: changes of the policy file
  MaxPlaneStops   \* bound: failures of one of the two planes

VARIABLES
  generation,   \* MetaPlane.lifecycle
  identities,   \* MetaPlane.identities, a Vec
  policy,       \* PolicyPlane.policy
  source,       \* what the policy file holds
  orders,       \* history: the last order about each name the plane has seen
  edits,        \* changes of the file so far
  planeStops    \* failures of a plane so far

planes == <<generation, identities, policy, orders>>

metaVars == <<planes, source, edits, planeStops>>

None == "none"
Unreadable == "unreadable"   \* no file, or one that does not parse

ASSUME MetaAssumption ==
  /\ {None, Unreadable} \cap Policies = {}
  /\ None \notin Generations
  /\ MaxEdits \in Nat
  /\ MaxPlaneStops \in Nat

\* BootstrapPolicy::from_source, as PolicyPlane::new takes it.
Seed(file) == IF file = Unreadable THEN None ELSE file

PlaneInit ==
  /\ Init
  /\ source \in Policies \cup {Unreadable}
  /\ generation = None
  /\ identities = <<>>
  /\ policy = Seed(source)
  /\ orders = [n \in Names |-> None]
  /\ edits = 0
  /\ planeStops = 0

-----------------------------------------------------------------------------
(* MetaPlane.route *)

StartGeneration ==
  /\ generation' \in Generations
  /\ UNCHANGED <<identities, policy, orders>>

Drain ==
  /\ generation' = None
  /\ UNCHANGED <<identities, policy, orders>>

Remembers(name, order) ==
  /\ orders' = [orders EXCEPT ![name] = order]
  /\ UNCHANGED <<generation, policy>>

\* Mutant: a name is listed once for each order.
RegisterAgain(name) ==
  /\ identities' = Append(identities, name)
  /\ Remembers(name, "Register")

RegisterIdentity(name) ==
  /\ identities' = IF name \in Range(identities)
                     THEN identities ELSE Append(identities, name)
  /\ Remembers(name, "Register")

RetireIdentity(name) ==
  /\ identities' = Retained(identities, Names \ {name})
  /\ Remembers(name, "Retire")

\* Mutant: what was read becomes the policy, be it nothing.
ReadsPolicyOrNothing == policy' = Seed(source)

\* Mutant: the text is taken without parsing it.
ReadsPolicyUnparsed == policy' = source

\* PolicyPlane.reload: a file that cannot be read changes nothing.
ReadsPolicy == policy' = IF source = Unreadable THEN policy ELSE source

Reload ==
  /\ ReadsPolicy
  /\ UNCHANGED <<generation, identities, orders>>

Performs(operation) ==
  \/ operation = "Start" /\ StartGeneration
  \/ operation = "Drain" /\ Drain
  \/ operation = "Reload" /\ Reload
  \/ operation = "Register" /\ \E n \in Names : RegisterIdentity(n)
  \/ operation = "Retire" /\ \E n \in Names : RetireIdentity(n)

\* SpiritRoot.submit_meta_request for the next operation of the exchange.
PerformMetaRequest ==
  /\ SubmitMetaRequest
  /\ Performs(Head(meta.payloads))
  /\ UNCHANGED <<source, edits, planeStops>>

-----------------------------------------------------------------------------
(* Failures *)

MetaPlaneForgets ==
  /\ generation' = None
  /\ identities' = <<>>
  /\ orders' = [n \in Names |-> None]

Stops ==
  /\ planeStops < MaxPlaneStops
  /\ planeStops' = planeStops + 1

\* The meta plane stops with an operation in hand: the exchange is dropped
\* with no reply, and the plane is started again.
MetaPlaneStops ==
  /\ \/ SubmitMetaFails
     \/ UNCHANGED vars
  /\ Stops
  /\ MetaPlaneForgets
  /\ UNCHANGED <<policy, source, edits>>

\* The policy plane stops, with a Reload in hand or not: the meta plane
\* answers such a Reload that its dependency is not ready.
PolicyPlaneStops ==
  /\ \/ SubmitMetaRequest /\ Head(meta.payloads) = "Reload"
     \/ UNCHANGED vars
  /\ Stops
  /\ policy' = Seed(source)
  /\ UNCHANGED <<generation, identities, orders, source, edits>>

\* Somebody writes the policy file.
EditSource ==
  /\ edits < MaxEdits
  /\ edits' = edits + 1
  /\ source' \in (Policies \cup {Unreadable}) \ {source}
  /\ UNCHANGED <<vars, planes, planeStops>>

RestartPlanes ==
  /\ Restart
  /\ MetaPlaneForgets
  /\ policy' = Seed(source)
  /\ UNCHANGED <<source, edits, planeStops>>

\* The steps of the daemon that ask nothing of the two planes.
OtherStep ==
  /\ \/ \E s \in OrdinaryServers : OrdinaryStep(s)
     \/ ReceiveMeta
     \/ ReplyMeta
     \/ UpgradeStep
  /\ UNCHANGED metaVars

PlaneNext ==
  \/ OtherStep
  \/ PerformMetaRequest
  \/ MetaPlaneStops
  \/ PolicyPlaneStops
  \/ EditSource
  \/ RestartPlanes

PlaneSpec == PlaneInit /\ [][PlaneNext]_<<vars, metaVars>>

\* The fairness of Handover: a thread that holds a request goes on with it.
PlaneFairSpec == PlaneSpec /\ Fairness

-----------------------------------------------------------------------------
(* Properties *)

\* The planes stay in their types.
PlaneTypeOK ==
  /\ generation \in Generations \cup {None}
  /\ identities \in Seq(Names)
  /\ policy \in Policies \cup {None}
  /\ source \in Policies \cup {Unreadable}
  /\ orders \in [Names -> {None, "Register", "Retire"}]
  /\ edits \in 0..MaxEdits
  /\ planeStops \in 0..MaxPlaneStops

\* Whatever order Register and Retire arrive in and however often each is
\* repeated, a name is listed once if the last order about it was Register
\* and not at all otherwise (meta.rs register_identity, retire_identity).
IdentitiesAreLastOrders ==
  /\ IsInjective(identities)
  /\ Range(identities) = {n \in Names : orders[n] = "Register"}

\* A daemon that has a policy keeps one as long as its policy plane runs,
\* whatever becomes of the file, and takes a new one only where a meta client
\* orders it (ARCHITECTURE.md:40-43, policy.rs reload).
PolicyIsKept ==
  [][policy' # policy =>
       \/ planeStops' # planeStops
       \/ crashes' # crashes
       \/ policy' # None /\ meta.phase = "admitted"
            /\ Head(meta.payloads) = "Reload"]_<<vars, metaVars>>
==============================================================================
