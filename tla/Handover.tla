------------------------------ MODULE Handover ------------------------------
(***************************************************************************)
(* The version handover of one persona-spirit daemon: the socket threads   *)
(* of daemon.rs, the serial SpiritRoot actor they ask, the atomic that     *)
(* gates the public sockets, and the store seen as its commit sequence.    *)
(*                                                                         *)
(* A server thread serves one exchange at a time.  What it does between    *)
(* two accesses to shared state is one step: reading a request and loading *)
(* the public socket state is one, the root's whole handler is one (the    *)
(* actor finishes a message, its own calls to its children included,       *)
(* before it takes the next), storing the public socket state is one,      *)
(* removing the socket paths is one and writing the reply is one.          *)
(***************************************************************************)
EXTENDS Integers, Sequences

CONSTANTS
  OrdinaryServers,   \* the threads serving ordinary streams that have clients
  OrdinaryRequests,  \* payload kinds of the requests ordinary clients send
  MetaRequests,      \* payload lists of the requests meta clients send
  UpgradeRequests,   \* operation lists of the requests Persona sends
  WriteSizes,        \* how many commits one write operation may make
  Stamps,            \* the part of a marker that is not its commit sequence
  MaxMetaPayloads,   \* bound: the longest meta request
  MaxCommit,         \* bound: commits in a behaviour
  MaxCrashes         \* bound: restarts in a behaviour

VARIABLES
  commit,      \* Engine::current_commit_sequence, durable
  handover,    \* SpiritRoot.handover, in memory
  public,      \* PublicSockets.state, in memory
  paths,       \* bound socket paths among the two that close() removes
  ordinary,    \* the exchange each ordinary server thread is in
  meta,        \* the exchange the meta server thread is in
  upgrade,     \* the exchange the upgrade server thread is in
  crashes,     \* restarts so far
  copied,      \* history: source commit of the readiness in force
  stragglers   \* history: operations direct servers ran since the freeze

vars == <<commit, handover, public, paths, ordinary, meta, upgrade,
          crashes, copied, stragglers>>

-----------------------------------------------------------------------------
(* Messages *)

\* The operations of the working contract by what the daemon tells apart:
\* Observe is read-only, Subscribe stands for Watch, Unwatch, Tap and Untap,
\* Write for the operations that commit to the store.
PayloadKinds == {"Observe", "Subscribe", "Write"}

MetaOperations == {"Start", "Drain", "Reload", "Register", "Retire"}

\* HandoverMarker: the commit sequence (write_counter repeats it,
\* last_record_identifier is always None), and a stamp for the component
\* name the request carried and the clock reading in whole seconds.
Markers == [commit : Nat, stamp : Stamps]

\* What a Mirror payload turns out to be: of another target, kind or
\* encoding; an entry the store refuses; an entry it stores.
MirrorPayloads == {"Foreign", "Refused", "Stored"}

UpgradeOperations ==
  [op : {"AskHandoverMarker", "Divergence", "RecoverFromFailure"}]
    \cup [op : {"ReadyToHandover"}, source : Nat]
    \cup [op : {"HandoverCompleted"}, accepted : Markers]
    \cup [op : {"Mirror"}, payload : MirrorPayloads]

UpgradeReplies ==
  {"None", "HandoverMarker", "HandoverAccepted", "HandoverFinalized",
   "AlreadyInHandover", "CommitSequenceAdvanced", "NotReady",
   "SchemaMismatch", "MirrorAcknowledged", "DivergenceAcknowledged",
   "Recovered", "NotRecovered"}

ASSUME HandoverAssumption ==
  /\ OrdinaryServers \subseteq {"ordinary", "handoff"}
  /\ OrdinaryRequests \subseteq (Seq(PayloadKinds) \ {<<>>})
  /\ MetaRequests \subseteq (Seq(MetaOperations) \ {<<>>})
  /\ MaxMetaPayloads \in Nat
  /\ \A request \in MetaRequests : Len(request) <= MaxMetaPayloads
  /\ UpgradeRequests \subseteq (Seq(UpgradeOperations) \ {<<>>})
  /\ WriteSizes \subseteq Nat
  /\ MaxCommit \in Nat
  /\ MaxCrashes \in Nat

NotCopied == -1

\* enum HandoverState
Active == [mode |-> "Active"]
HandoverMode(marker) == [mode |-> "HandoverMode", accepted |-> marker]
PrivateUpgradeOnly == [mode |-> "PrivateUpgradeOnly"]

Idle == [phase |-> "idle", payloads |-> <<>>]
IdleUpgrade == [phase |-> "idle", payloads |-> <<>>, reply |-> "None"]
NoStragglers == [ordinary |-> 0, meta |-> 0]

Init ==
  /\ commit \in 0..MaxCommit
  /\ handover = Active
  /\ public = "Active"
  /\ paths = {"ordinary", "meta"}
  /\ ordinary = [s \in OrdinaryServers |-> Idle]
  /\ meta = Idle
  /\ upgrade = IdleUpgrade
  /\ crashes = 0
  /\ copied = NotCopied
  /\ stragglers = NoStragglers

-----------------------------------------------------------------------------
(* PublicSockets *)

Frozen == public # "Active"

\* Mutant: requests are gated only once the sockets are closed.
AcceptsRequestUntilClosed(request) == public # "Closed"

\* Every payload must be read-only once the sockets are in handover mode.
AcceptsRequest(request) ==
  \/ public = "Active"
  \/ /\ public = "HandoverMode"
     /\ \A i \in DOMAIN request : request[i] = "Observe"

AcceptsMetaRequest == public = "Active"

-----------------------------------------------------------------------------
(* serve_ordinary_stream on the ordinary and the handoff-control thread *)

\* A stream handed over by Persona is admitted whatever the socket state.
AdmitsStream(s, request) == s = "handoff" \/ AcceptsRequest(request)

ReceiveOrdinary(s) ==
  /\ ordinary[s].phase = "idle"
  /\ \E request \in OrdinaryRequests :
       ordinary' = [ordinary EXCEPT ![s] =
         IF AdmitsStream(s, request)
           THEN [phase |-> "admitted", payloads |-> request]
           ELSE [phase |-> "answered", payloads |-> <<>>]]
  /\ UNCHANGED <<commit, handover, public, paths, meta, upgrade, crashes,
                 copied, stragglers>>

\* A request with more than one operation is aborted as an unsupported
\* batch; a write commits any of the sizes (none when it is rejected).
CommitsOf(request) ==
  IF Len(request) = 1 /\ request[1] = "Write" THEN WriteSizes ELSE {0}

\* SpiritRoot.submit_frame_request and all it asks of dispatch and store.
\* It does not look at the handover state.
SubmitFrameRequest(s) ==
  /\ ordinary[s].phase = "admitted"
  /\ \E n \in CommitsOf(ordinary[s].payloads) :
       /\ commit + n <= MaxCommit
       /\ commit' = commit + n
       /\ stragglers' = IF Frozen /\ s = "ordinary" /\ n > 0
                          THEN [stragglers EXCEPT !.ordinary = @ + 1]
                          ELSE stragglers
  /\ ordinary' = [ordinary EXCEPT ![s] = [phase |-> "answered",
                                          payloads |-> <<>>]]
  /\ UNCHANGED <<handover, public, paths, meta, upgrade, crashes, copied>>

\* The reply frame is written, or the client is gone and it is dropped.
ReplyOrdinary(s) ==
  /\ ordinary[s].phase = "answered"
  /\ ordinary' = [ordinary EXCEPT ![s] = Idle]
  /\ UNCHANGED <<commit, handover, public, paths, meta, upgrade, crashes,
                 copied, stragglers>>

-----------------------------------------------------------------------------
(* MetaSocketServer: the payloads of a request are asked one at a time *)

ReceiveMeta ==
  /\ meta.phase = "idle"
  /\ \E request \in MetaRequests :
       meta' = IF AcceptsMetaRequest
                 THEN [phase |-> "admitted", payloads |-> request]
                 ELSE [phase |-> "answered", payloads |-> <<>>]
  /\ UNCHANGED <<commit, handover, public, paths, ordinary, upgrade, crashes,
                 copied, stragglers>>

SubmitMetaRequest ==
  /\ meta.phase = "admitted"
  /\ LET rest == Tail(meta.payloads)
     IN  meta' = [phase |-> IF rest = <<>> THEN "answered" ELSE "admitted",
                  payloads |-> rest]
  /\ stragglers' = IF Frozen THEN [stragglers EXCEPT !.meta = @ + 1]
                             ELSE stragglers
  /\ UNCHANGED <<commit, handover, public, paths, ordinary, upgrade, crashes,
                 copied>>

\* The meta plane stops with the operation in hand: the exchange ends with no
\* reply, and its other operations are never asked.
SubmitMetaFails ==
  /\ meta.phase = "admitted"
  /\ meta' = Idle
  /\ UNCHANGED <<commit, handover, public, paths, ordinary, upgrade, crashes,
                 copied, stragglers>>

ReplyMeta ==
  /\ meta.phase = "answered"
  /\ meta' = Idle
  /\ UNCHANGED <<commit, handover, public, paths, ordinary, upgrade, crashes,
                 copied, stragglers>>

-----------------------------------------------------------------------------
(* UpgradeSocketServer: for each operation of a request the root is asked   *)
(* first, and the public socket state follows its reply in a later step.   *)

ReceiveUpgrade ==
  /\ upgrade.phase = "idle"
  /\ \E request \in UpgradeRequests :
       upgrade' = [phase |-> "asking", payloads |-> request, reply |-> "None"]
  /\ UNCHANGED <<commit, handover, public, paths, ordinary, meta, crashes,
                 copied, stragglers>>

Operation == Head(upgrade.payloads)

\* The root has handled the operation and answered the thread.
RootReplies(reply) ==
  upgrade' = [phase |-> "applying", payloads |-> Tail(upgrade.payloads),
              reply |-> reply]

\* The root's ask of the store fails, and its handler with it: the connection
\* is dropped with no reply, and the operations after this one in the request
\* are never asked.
StoreAskFails == upgrade' = IdleUpgrade

AskHandoverMarker ==
  /\ Operation.op = "AskHandoverMarker"
  /\ RootReplies("HandoverMarker") \/ StoreAskFails
  /\ UNCHANGED <<commit, handover, copied>>

\* The root reads its own marker and keeps that one, not the reported one.
ReadyToHandover ==
  /\ Operation.op = "ReadyToHandover"
  /\ \/ /\ handover # Active
        /\ RootReplies("AlreadyInHandover")
        /\ UNCHANGED <<handover, copied>>
     \/ /\ handover = Active
        /\ StoreAskFails
        /\ UNCHANGED <<handover, copied>>
     \/ /\ handover = Active
        /\ commit # Operation.source
        /\ RootReplies("CommitSequenceAdvanced")
        /\ UNCHANGED <<handover, copied>>
     \/ /\ handover = Active
        /\ commit = Operation.source
        /\ RootReplies("HandoverAccepted")
        /\ \E stamp \in Stamps :
             handover' = HandoverMode([commit |-> commit, stamp |-> stamp])
        /\ copied' = Operation.source
  /\ UNCHANGED commit

\* Mutant: completion trusts the marker and does not read the store again.
CompletedWithoutReadingStore ==
  /\ Operation.op = "HandoverCompleted"
  /\ IF handover # HandoverMode(Operation.accepted)
       THEN /\ RootReplies("NotReady")
            /\ UNCHANGED handover
       ELSE /\ RootReplies("HandoverFinalized")
            /\ handover' = PrivateUpgradeOnly
  /\ UNCHANGED <<commit, copied>>

HandoverCompleted ==
  /\ Operation.op = "HandoverCompleted"
  /\ \/ /\ handover # HandoverMode(Operation.accepted)
        /\ RootReplies("NotReady")
        /\ UNCHANGED handover
     \/ /\ handover = HandoverMode(Operation.accepted)
        /\ StoreAskFails
        /\ UNCHANGED handover
     \/ /\ handover = HandoverMode(Operation.accepted)
        /\ commit # Operation.accepted.commit
        /\ RootReplies("CommitSequenceAdvanced")
        /\ UNCHANGED handover
     \/ /\ handover = HandoverMode(Operation.accepted)
        /\ commit = Operation.accepted.commit
        /\ RootReplies("HandoverFinalized")
        /\ handover' = PrivateUpgradeOnly
  /\ UNCHANGED <<commit, copied>>

\* The capture is asked first and the marker after it.  A capture fails when
\* the store refuses the entry or cannot write it; an entry it has committed
\* stays when the marker cannot be read, and Persona hears nothing.
Mirror ==
  /\ Operation.op = "Mirror"
  /\ \/ /\ handover # PrivateUpgradeOnly
        /\ RootReplies("NotReady")
        /\ UNCHANGED commit
     \/ /\ handover = PrivateUpgradeOnly
        /\ Operation.payload = "Foreign"
        /\ RootReplies("SchemaMismatch")
        /\ UNCHANGED commit
     \/ /\ handover = PrivateUpgradeOnly
        /\ Operation.payload # "Foreign"
        /\ StoreAskFails
        /\ UNCHANGED commit
     \/ /\ handover = PrivateUpgradeOnly
        /\ Operation.payload = "Stored"
        /\ commit < MaxCommit
        /\ commit' = commit + 1
        /\ RootReplies("MirrorAcknowledged") \/ StoreAskFails
  /\ UNCHANGED <<handover, copied>>

Divergence ==
  /\ Operation.op = "Divergence"
  /\ RootReplies("DivergenceAcknowledged")
  /\ UNCHANGED <<commit, handover, copied>>

\* Mutant: a finalized daemon recovers, too.
RecoverFromFinalization ==
  /\ Operation.op = "RecoverFromFailure"
  /\ RootReplies("Recovered")
  /\ handover' = Active
  /\ copied' = NotCopied
  /\ UNCHANGED commit

RecoverFromFailure ==
  /\ Operation.op = "RecoverFromFailure"
  /\ IF handover = PrivateUpgradeOnly
       THEN /\ RootReplies("NotRecovered")
            /\ UNCHANGED <<handover, copied>>
       ELSE /\ RootReplies("Recovered")
            /\ handover' = Active
            /\ copied' = NotCopied
  /\ UNCHANGED commit

\* SpiritRoot.submit_upgrade_request, asked by the upgrade thread.
SubmitUpgradeRequest ==
  /\ upgrade.phase = "asking"
  /\ \/ AskHandoverMarker
     \/ ReadyToHandover
     \/ HandoverCompleted
     \/ Mirror
     \/ Divergence
     \/ RecoverFromFailure
  /\ UNCHANGED <<public, paths, ordinary, meta, crashes, stragglers>>

\* Mutant: the thread asks once more after the last operation.
AskOnceMore == upgrade' = [upgrade EXCEPT !.phase = "asking"]

\* The thread goes on to the next operation of the request, or replies.
NextOperation ==
  upgrade' = [upgrade EXCEPT
    !.phase = IF upgrade.payloads = <<>> THEN "answered" ELSE "asking"]

\* Mutant: recovery leaves the public sockets in handover mode.
PublicStateAfterNoRecovery(reply) ==
  IF reply = "HandoverAccepted" THEN "HandoverMode"
  ELSE IF reply = "HandoverFinalized" THEN "Closed"
  ELSE public

\* What UpgradeExchangeHandler.reply_to_operation stores in the atomic.
PublicStateAfter(reply) ==
  IF reply = "HandoverAccepted" THEN "HandoverMode"
  ELSE IF reply = "HandoverFinalized" THEN "Closed"
  ELSE IF reply = "Recovered" THEN "Active"
  ELSE public

\* Mutant: finalizing closes the gate and leaves the socket files.
FollowReplyKeepsPaths ==
  /\ upgrade.phase = "applying"
  /\ public' = PublicStateAfter(upgrade.reply)
  /\ stragglers' = IF public' = "Active" THEN NoStragglers ELSE stragglers
  /\ NextOperation
  /\ UNCHANGED <<commit, handover, paths, ordinary, meta, crashes, copied>>

FollowReply ==
  /\ upgrade.phase = "applying"
  /\ public' = PublicStateAfter(upgrade.reply)
  /\ stragglers' = IF public' = "Active" THEN NoStragglers ELSE stragglers
  /\ IF upgrade.reply = "HandoverFinalized"
       THEN upgrade' = [upgrade EXCEPT !.phase = "unlinking"]
       ELSE NextOperation
  /\ UNCHANGED <<commit, handover, paths, ordinary, meta, crashes, copied>>

\* The rest of PublicSockets.close: both socket files are removed.
RemovePaths ==
  /\ upgrade.phase = "unlinking"
  /\ paths' = {}
  /\ NextOperation
  /\ UNCHANGED <<commit, handover, public, ordinary, meta, crashes, copied,
                 stragglers>>

ReplyUpgrade ==
  /\ upgrade.phase = "answered"
  /\ upgrade' = IdleUpgrade
  /\ UNCHANGED <<commit, handover, public, paths, ordinary, meta, crashes,
                 copied, stragglers>>

-----------------------------------------------------------------------------

\* The process stops anywhere and is started again on the same store: only
\* the commits are durable, and binding replaces the socket files.
Restart ==
  /\ crashes < MaxCrashes
  /\ crashes' = crashes + 1
  /\ handover' = Active
  /\ public' = "Active"
  /\ paths' = {"ordinary", "meta"}
  /\ ordinary' = [s \in OrdinaryServers |-> Idle]
  /\ meta' = Idle
  /\ upgrade' = IdleUpgrade
  /\ copied' = NotCopied
  /\ stragglers' = NoStragglers
  /\ UNCHANGED commit

OrdinaryStep(s) ==
  ReceiveOrdinary(s) \/ SubmitFrameRequest(s) \/ ReplyOrdinary(s)

MetaStep ==
  ReceiveMeta \/ SubmitMetaRequest \/ SubmitMetaFails \/ ReplyMeta

UpgradeStep ==
  ReceiveUpgrade \/ SubmitUpgradeRequest \/ FollowReply \/ RemovePaths
    \/ ReplyUpgrade

Next ==
  \/ \E s \in OrdinaryServers : OrdinaryStep(s)
  \/ MetaStep
  \/ UpgradeStep
  \/ Restart

Spec == Init /\ [][Next]_vars

\* A thread that holds a request goes on with it: the actor runtime keeps
\* scheduling the root and nothing in these steps waits for a client.
Fairness ==
  /\ \A s \in OrdinaryServers : WF_vars(SubmitFrameRequest(s))
  /\ WF_vars(SubmitMetaRequest)
  /\ WF_vars(SubmitUpgradeRequest)
  /\ WF_vars(FollowReply)
  /\ WF_vars(RemovePaths)

FairSpec == Spec /\ Fairness

-----------------------------------------------------------------------------
(* Properties *)

OrdinaryPhases == {"idle", "admitted", "answered"}
UpgradePhases == {"idle", "asking", "applying", "unlinking", "answered"}

\* Every variable stays in the shape its Rust type gives it; an exchange that
\* waits for the root always has an operation left to ask.
TypeOK ==
  /\ commit \in 0..MaxCommit
  /\ handover \in {Active, PrivateUpgradeOnly}
                    \cup [mode : {"HandoverMode"}, accepted : Markers]
  /\ public \in {"Active", "HandoverMode", "Closed"}
  /\ paths \subseteq {"ordinary", "meta"}
  /\ ordinary \in [OrdinaryServers -> [phase : OrdinaryPhases,
                                       payloads : Seq(PayloadKinds)]]
  /\ meta \in [phase : OrdinaryPhases, payloads : Seq(MetaOperations)]
  /\ meta.phase = "admitted" => meta.payloads # <<>>
  /\ upgrade \in [phase : UpgradePhases, payloads : Seq(UpgradeOperations),
                  reply : UpgradeReplies]
  /\ upgrade.phase = "asking" => upgrade.payloads # <<>>
  /\ crashes \in 0..MaxCrashes
  /\ copied \in Nat \cup {NotCopied}
  /\ stragglers \in [ordinary : Nat, meta : Nat]

\* The public socket state and the socket files the root's state calls for.
SocketsAgree ==
  /\ public = IF handover = PrivateUpgradeOnly THEN "Closed" ELSE handover.mode
  /\ paths = IF handover = PrivateUpgradeOnly THEN {} ELSE {"ordinary", "meta"}

\* The gate in front of the public sockets lives in an atomic and the
\* handover state in an actor.  Whenever the upgrade thread is between two
\* operations, or answers Persona, the two agree (daemon.rs reply_to_operation
\* against root.rs submit_upgrade_request): no order of readiness,
\* completion, recovery, failed mirror and restart separates them.
SocketsFollowRoot ==
  upgrade.phase \in {"idle", "asking", "answered"} => SocketsAgree

\* A direct client can outrun the freeze only with the exchange its server
\* thread had admitted before it: one ordinary write, and at most the
\* operations of one meta request (the accept loops are serial).
FewStragglers ==
  Frozen => /\ stragglers.ordinary <= 1
            /\ stragglers.meta <= MaxMetaPayloads

\* The public sockets of a finalized daemon stay closed as long as its
\* process lives, whatever Persona asks of the upgrade socket afterwards.
ClosedIsFinal ==
  [][public = "Closed" => public' = "Closed" \/ crashes' # crashes]_vars

\* The atomic and the socket files always catch up with the root.
SocketsCatchUp == ~SocketsAgree ~> SocketsAgree

\* The daemon keeps the promise of Cutover: it grants readiness at the
\* commit that was copied and retires only at that commit, whichever writes
\* the socket threads slip in between (root.rs ReadyToHandover and
\* HandoverCompleted).
Abstract == INSTANCE Cutover WITH phase <- handover.mode

RefinesCutover == Abstract!Spec

\* ARCHITECTURE.md:183: "direct ordinary-socket traffic still obeys the
\* daemon's current public-socket state": a write of a direct client takes
\* effect only while the public state is Active.
DirectWritesObeyPublicState ==
  [][\A s \in OrdinaryServers \ {"handoff"} :
       ordinary[s].phase = "admitted" /\ ordinary'[s].phase = "answered"
         /\ commit' # commit => public = "Active"]_vars

\* ARCHITECTURE.md:226: "Current implementation freezes public writes so the
\* accepted marker remains stable through completion": once the public
\* sockets are in handover mode the store stands at the accepted commit.
AcceptedMarkerStable ==
  public = "HandoverMode" /\ handover.mode = "HandoverMode"
    => commit = handover.accepted.commit
-----------------------------------------------------------------------------
(* The strengthening of SocketsFollowRoot and FewStragglers that every step *)
(* preserves.                                                               *)

\* The reply the upgrade thread still has to apply tells how far the public
\* sockets are behind the root.
PendingReply ==
  /\ upgrade.phase \in {"idle", "asking", "answered"} => SocketsAgree
  /\ upgrade.phase = "applying" =>
       /\ upgrade.reply = "HandoverAccepted" =>
            /\ handover.mode = "HandoverMode"
            /\ paths = {"ordinary", "meta"}
       /\ upgrade.reply = "HandoverFinalized" =>
            handover = PrivateUpgradeOnly
       /\ upgrade.reply = "Recovered" =>
            /\ handover = Active
            /\ paths = {"ordinary", "meta"}
       /\ upgrade.reply \notin {"HandoverAccepted", "HandoverFinalized",
                               "Recovered"} => SocketsAgree
  /\ upgrade.phase = "unlinking" =>
       /\ handover = PrivateUpgradeOnly
       /\ public = "Closed"

\* The readiness in force was granted at the commit Persona reported.
CopiedMatches ==
  /\ handover = Active <=> copied = NotCopied
  /\ handover.mode = "HandoverMode" => handover.accepted.commit = copied

\* The exchange that was admitted before a freeze and has not run yet.
DirectWritePending ==
  /\ "ordinary" \in OrdinaryServers
  /\ ordinary["ordinary"].phase = "admitted"
  /\ \E i \in DOMAIN ordinary["ordinary"].payloads :
       ordinary["ordinary"].payloads[i] # "Observe"

\* The meta operations of the current exchange not asked yet.
MetaLeft == IF meta.phase = "admitted" THEN Len(meta.payloads) ELSE 0

StragglersCounted ==
  /\ ~Frozen => stragglers = NoStragglers
  /\ stragglers.ordinary <= 1
  /\ Frozen /\ DirectWritePending => stragglers.ordinary = 0
  /\ stragglers.meta + MetaLeft <= MaxMetaPayloads

\* Closed sockets belong to a daemon that is finalized for good.
ClosedMeansRetired == public = "Closed" => handover = PrivateUpgradeOnly

IInv ==
  /\ TypeOK
  /\ PendingReply
  /\ CopiedMatches
  /\ StragglersCounted
  /\ ClosedMeansRetired
==============================================================================
