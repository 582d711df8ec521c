--------------------------- MODULE Handover_proofs ---------------------------
(***************************************************************************)
(* Proofs about Handover for every set of servers, requests, write sizes   *)
(* and stamps and every bound: its type correctness, its inductive         *)
(* invariant, the safety properties that follow, and that it implements    *)
(* Cutover.  Then about MetaPlane, which restricts Handover in nothing and *)
(* adds what its meta requests do: whatever is proved of Handover holds of *)
(* a daemon with planes, the identities the meta plane lists are the ones  *)
(* last registered, and the policy a daemon has is lost only with the      *)
(* plane that holds it.                                                    *)
(***************************************************************************)
EXTENDS MetaPlane, SequenceTheorems, Listing_proofs

LEMMA TailOfPayloads ==
  ASSUME NEW S, NEW s \in Seq(S), s # <<>>
  PROVE  /\ Head(s) \in S
         /\ Tail(s) \in Seq(S)
         /\ Len(s) \in Nat
         /\ Len(Tail(s)) = Len(s) - 1
  BY HeadTailProperties, LenProperties

\* An upgrade operation the root handles carries what its handler reads.
LEMMA OperationShape ==
  ASSUME NEW op \in UpgradeOperations
  PROVE  /\ op.op = "ReadyToHandover" => op.source \in Nat
         /\ op.op = "HandoverCompleted" => op.accepted \in Markers
  BY DEF UpgradeOperations

\* Type correctness: every variable keeps the shape the code gives it.
LEMMA TypeInit == Init => TypeOK
  BY HandoverAssumption
  DEF Init, TypeOK, Idle, IdleUpgrade, NoStragglers, OrdinaryPhases,
      UpgradePhases, UpgradeReplies, Active

LEMMA TypeNext == TypeOK /\ [Next]_vars => TypeOK'
<1> SUFFICES ASSUME TypeOK, [Next]_vars PROVE TypeOK'
  OBVIOUS
<1> USE HandoverAssumption DEF TypeOK
<1>1. ASSUME NEW s \in OrdinaryServers, ReceiveOrdinary(s) PROVE TypeOK'
  BY <1>1 DEF ReceiveOrdinary, OrdinaryPhases
<1>2. ASSUME NEW s \in OrdinaryServers, SubmitFrameRequest(s) PROVE TypeOK'
  <2>1. PICK n \in CommitsOf(ordinary[s].payloads) :
          /\ commit + n <= MaxCommit
          /\ commit' = commit + n
          /\ stragglers' = IF Frozen /\ s = "ordinary" /\ n > 0
                             THEN [stragglers EXCEPT !.ordinary = @ + 1]
                             ELSE stragglers
    BY <1>2 DEF SubmitFrameRequest
  <2>2. n \in Nat
    BY DEF CommitsOf
  <2>3. commit' \in 0..MaxCommit
    BY <2>1, <2>2
  <2>4. stragglers' \in [ordinary : Nat, meta : Nat]
    BY <2>1
  <2>5. QED
    BY <1>2, <2>3, <2>4 DEF SubmitFrameRequest, OrdinaryPhases
<1>3. ASSUME NEW s \in OrdinaryServers, ReplyOrdinary(s) PROVE TypeOK'
  BY <1>3 DEF ReplyOrdinary, Idle, OrdinaryPhases
<1>4. CASE ReceiveMeta
  BY <1>4 DEF ReceiveMeta, OrdinaryPhases
<1>5. CASE SubmitMetaRequest
  <2>1. Tail(meta.payloads) \in Seq(MetaOperations)
    BY <1>5, TailOfPayloads DEF SubmitMetaRequest
  <2>2. meta' = [phase |-> IF Tail(meta.payloads) = <<>>
                             THEN "answered" ELSE "admitted",
                 payloads |-> Tail(meta.payloads)]
    BY <1>5 DEF SubmitMetaRequest
  <2>3. /\ meta' \in [phase : OrdinaryPhases, payloads : Seq(MetaOperations)]
        /\ meta'.phase = "admitted" => meta'.payloads # <<>>
    BY <2>1, <2>2 DEF OrdinaryPhases
  <2>4. stragglers' \in [ordinary : Nat, meta : Nat]
    <3>1. stragglers' = IF Frozen THEN [stragglers EXCEPT !.meta = @ + 1]
                                  ELSE stragglers
      BY <1>5 DEF SubmitMetaRequest
    <3>2. QED
      BY <3>1
  <2>5. UNCHANGED <<commit, handover, public, paths, ordinary, upgrade,
                    crashes, copied>>
    BY <1>5 DEF SubmitMetaRequest
  <2>6. QED
    BY <2>3, <2>4, <2>5
<1>6. CASE SubmitMetaFails \/ ReplyMeta
  <2>1. /\ meta' = Idle
        /\ UNCHANGED <<commit, handover, public, paths, ordinary, upgrade,
                       crashes, copied, stragglers>>
    BY <1>6 DEF SubmitMetaFails, ReplyMeta
  <2>2. QED
    BY <2>1 DEF Idle, OrdinaryPhases
<1>7. CASE ReceiveUpgrade
  BY <1>7 DEF ReceiveUpgrade, UpgradePhases, UpgradeReplies
<1>8. CASE SubmitUpgradeRequest
  <2>1. /\ Operation \in UpgradeOperations
        /\ Tail(upgrade.payloads) \in Seq(UpgradeOperations)
    BY <1>8, TailOfPayloads DEF SubmitUpgradeRequest, Operation
  <2>2. /\ Operation.op = "ReadyToHandover" => Operation.source \in Nat
        /\ Operation.op = "HandoverCompleted" => Operation.accepted \in Markers
    BY <2>1, OperationShape
  <2>3. ASSUME NEW reply \in UpgradeReplies, RootReplies(reply)
        PROVE  /\ upgrade' \in [phase : UpgradePhases,
                                payloads : Seq(UpgradeOperations),
                                reply : UpgradeReplies]
               /\ upgrade'.phase # "asking"
    BY <2>1, <2>3 DEF RootReplies, UpgradePhases
  <2>4. /\ IdleUpgrade \in [phase : UpgradePhases,
                            payloads : Seq(UpgradeOperations),
                            reply : UpgradeReplies]
        /\ IdleUpgrade.phase # "asking"
    BY DEF IdleUpgrade, UpgradePhases, UpgradeReplies
  <2>5. /\ upgrade' \in [phase : UpgradePhases,
                         payloads : Seq(UpgradeOperations),
                         reply : UpgradeReplies]
        /\ upgrade'.phase # "asking"
    BY <1>8, <2>3, <2>4
    DEF SubmitUpgradeRequest, UpgradeReplies, StoreAskFails,
        AskHandoverMarker, ReadyToHandover, HandoverCompleted, Mirror,
        Divergence, RecoverFromFailure
  <2>6. /\ commit' \in 0..MaxCommit
        /\ copied' \in Nat \cup {NotCopied}
        /\ handover' \in {Active, PrivateUpgradeOnly}
                           \cup [mode : {"HandoverMode"}, accepted : Markers]
    BY <1>8, <2>2
    DEF SubmitUpgradeRequest, AskHandoverMarker, ReadyToHandover,
        HandoverCompleted, Mirror, Divergence, RecoverFromFailure, Markers,
        HandoverMode
  <2>7. QED
    BY <1>8, <2>5, <2>6 DEF SubmitUpgradeRequest
<1>9. CASE FollowReply
  BY <1>9 DEF FollowReply, PublicStateAfter, NextOperation, UpgradePhases,
              NoStragglers
<1>10. CASE RemovePaths
  BY <1>10 DEF RemovePaths, NextOperation, UpgradePhases
<1>11. CASE ReplyUpgrade
  BY <1>11 DEF ReplyUpgrade, IdleUpgrade, UpgradePhases, UpgradeReplies
<1>12. CASE Restart
  BY <1>12 DEF Restart, Idle, IdleUpgrade, NoStragglers, OrdinaryPhases,
               UpgradePhases, UpgradeReplies, Active
<1>13. CASE UNCHANGED vars
  BY <1>13 DEF vars
<1>14. QED
  BY <1>1, <1>2, <1>3, <1>4, <1>5, <1>6, <1>7, <1>8, <1>9, <1>10, <1>11,
     <1>12, <1>13
  DEF Next, OrdinaryStep, MetaStep, UpgradeStep

THEOREM TypeCorrect == Spec => []TypeOK
  BY TypeInit, TypeNext, PTL DEF Spec

-----------------------------------------------------------------------------
(* The inductive invariant, one lemma per conjunct. *)

\* Where the public sockets stand relative to the root: every upgrade step
\* and every restart keeps the pending reply in charge of the difference.
LEMMA PendingReplyNext ==
  ASSUME TypeOK, PendingReply, [Next]_vars
  PROVE  PendingReply'
<1>1. CASE UNCHANGED <<upgrade, handover, public, paths>>
  BY <1>1 DEF PendingReply, SocketsAgree
<1>2. CASE ReceiveUpgrade
  BY <1>2 DEF ReceiveUpgrade, PendingReply, SocketsAgree
<1>3. CASE SubmitUpgradeRequest
  <2>1. SocketsAgree /\ UNCHANGED <<public, paths>>
    BY <1>3 DEF SubmitUpgradeRequest, PendingReply
  <2> USE DEF PendingReply, SocketsAgree, RootReplies, StoreAskFails,
              IdleUpgrade, Active, PrivateUpgradeOnly, HandoverMode
  <2>2. CASE AskHandoverMarker
    BY <2>1, <2>2 DEF AskHandoverMarker
  <2>3. CASE ReadyToHandover
    BY <2>1, <2>3 DEF ReadyToHandover
  <2>4. CASE HandoverCompleted
    BY <2>1, <2>4 DEF HandoverCompleted
  <2>5. CASE Mirror
    BY <2>1, <2>5 DEF Mirror
  <2>6. CASE Divergence
    BY <2>1, <2>6 DEF Divergence
  <2>7. CASE RecoverFromFailure
    BY <2>1, <2>7 DEF RecoverFromFailure
  <2>8. QED
    BY <1>3, <2>2, <2>3, <2>4, <2>5, <2>6, <2>7 DEF SubmitUpgradeRequest
<1>4. CASE FollowReply
  BY <1>4
  DEF FollowReply, PublicStateAfter, NextOperation, PendingReply,
      SocketsAgree, Active, PrivateUpgradeOnly, TypeOK
<1>5. CASE RemovePaths
  BY <1>5
  DEF RemovePaths, NextOperation, PendingReply, SocketsAgree, Active,
      PrivateUpgradeOnly, TypeOK
<1>6. CASE ReplyUpgrade
  BY <1>6 DEF ReplyUpgrade, IdleUpgrade, PendingReply, SocketsAgree
<1>7. CASE Restart
  BY <1>7 DEF Restart, IdleUpgrade, PendingReply, SocketsAgree, Active,
              PrivateUpgradeOnly
<1>8. QED
  BY <1>1, <1>2, <1>3, <1>4, <1>5, <1>6, <1>7
  DEF Next, OrdinaryStep, MetaStep, UpgradeStep, ReceiveOrdinary,
      SubmitFrameRequest, ReplyOrdinary, ReceiveMeta, SubmitMetaRequest,
      SubmitMetaFails, ReplyMeta, vars

\* A readiness in force was granted at the commit that was reported.
LEMMA CopiedMatchesNext ==
  ASSUME TypeOK, CopiedMatches, [Next]_vars
  PROVE  CopiedMatches'
<1> USE DEF CopiedMatches, Active, PrivateUpgradeOnly, HandoverMode, NotCopied
<1>1. CASE UNCHANGED <<handover, copied>>
  BY <1>1
<1>2. CASE SubmitUpgradeRequest
  <2>1. upgrade.payloads \in Seq(UpgradeOperations) /\ upgrade.payloads # <<>>
    BY <1>2 DEF SubmitUpgradeRequest, TypeOK
  <2>2. Operation.op = "ReadyToHandover" => Operation.source \in Nat
    BY <2>1, TailOfPayloads, OperationShape DEF Operation
  <2>3. CASE ReadyToHandover
    BY <2>2, <2>3 DEF ReadyToHandover
  <2>4. CASE HandoverCompleted
    BY <2>4 DEF HandoverCompleted
  <2>5. CASE RecoverFromFailure
    BY <2>5 DEF RecoverFromFailure
  <2>6. CASE AskHandoverMarker \/ Mirror \/ Divergence
    BY <2>6, <1>1 DEF AskHandoverMarker, Mirror, Divergence
  <2>7. QED
    BY <1>2, <2>3, <2>4, <2>5, <2>6 DEF SubmitUpgradeRequest
<1>3. CASE Restart
  BY <1>3 DEF Restart
<1>4. QED
  BY <1>1, <1>2, <1>3
  DEF Next, OrdinaryStep, MetaStep, UpgradeStep, ReceiveOrdinary,
      SubmitFrameRequest, ReplyOrdinary, ReceiveMeta, SubmitMetaRequest,
      SubmitMetaFails, ReplyMeta, ReceiveUpgrade, FollowReply, RemovePaths,
      ReplyUpgrade, vars

\* What a frozen ordinary socket still admits cannot write: all its payloads
\* are reads.
LEMMA AdmittedWhileFrozen ==
  ASSUME TypeOK, Frozen, "ordinary" \in OrdinaryServers,
         ReceiveOrdinary("ordinary")
  PROVE  ~DirectWritePending'
  BY DEF TypeOK, Frozen, ReceiveOrdinary, AdmitsStream, AcceptsRequest,
         DirectWritePending

\* A request the store commits for is a pending direct write.
LEMMA CommittingIsPending ==
  ASSUME TypeOK, "ordinary" \in OrdinaryServers,
         ordinary["ordinary"].phase = "admitted",
         NEW n \in CommitsOf(ordinary["ordinary"].payloads), n > 0
  PROVE  DirectWritePending
<1> DEFINE request == ordinary["ordinary"].payloads
<1>1. Len(request) = 1 /\ request[1] = "Write"
  BY DEF CommitsOf
<1>2. request \in Seq(PayloadKinds)
  BY DEF TypeOK
<1>3. 1 \in DOMAIN request
  BY <1>1, <1>2, LenProperties
<1>4. QED
  BY <1>1, <1>3 DEF DirectWritePending

\* Direct servers overtake a freeze with one exchange at most.
LEMMA StragglersCountedNext ==
  ASSUME TypeOK, StragglersCounted, [Next]_vars
  PROVE  StragglersCounted'
<1> USE HandoverAssumption
<1>t. /\ stragglers.ordinary \in Nat /\ stragglers.meta \in Nat
      /\ Len(meta.payloads) \in Nat /\ MetaLeft \in Nat
  BY LenProperties DEF TypeOK, MetaLeft
<1>1. CASE UNCHANGED <<public, ordinary, meta, stragglers>>
  BY <1>1 DEF StragglersCounted, Frozen, DirectWritePending, MetaLeft
<1>2. ASSUME NEW s \in OrdinaryServers, ReceiveOrdinary(s)
      PROVE  StragglersCounted'
  <2>1. Frozen /\ DirectWritePending' => DirectWritePending
    <3>1. CASE s = "ordinary"
      BY <1>2, <3>1, AdmittedWhileFrozen
    <3>2. CASE s # "ordinary"
      BY <1>2, <3>2 DEF ReceiveOrdinary, DirectWritePending, TypeOK
    <3>3. QED
      BY <3>1, <3>2
  <2>2. UNCHANGED <<public, meta, stragglers>>
    BY <1>2 DEF ReceiveOrdinary
  <2>3. QED
    BY <2>1, <2>2 DEF StragglersCounted, Frozen, MetaLeft
<1>3. ASSUME NEW s \in OrdinaryServers, SubmitFrameRequest(s)
      PROVE  StragglersCounted'
  <2>1. PICK n \in CommitsOf(ordinary[s].payloads) :
          stragglers' = IF Frozen /\ s = "ordinary" /\ n > 0
                          THEN [stragglers EXCEPT !.ordinary = @ + 1]
                          ELSE stragglers
    BY <1>3 DEF SubmitFrameRequest
  <2>2. UNCHANGED <<public, meta>>
    BY <1>3 DEF SubmitFrameRequest
  <2>3. CASE Frozen /\ s = "ordinary" /\ n > 0
    <3>1. DirectWritePending
      BY <1>3, <2>3, CommittingIsPending DEF SubmitFrameRequest
    <3>2. stragglers.ordinary = 0
      BY <2>3, <3>1 DEF StragglersCounted
    <3>3. stragglers'.ordinary = 1 /\ stragglers'.meta = stragglers.meta
      BY <2>1, <2>3, <3>2 DEF TypeOK
    <3>4. ~DirectWritePending'
      BY <1>3, <2>3 DEF SubmitFrameRequest, DirectWritePending, TypeOK
    <3>5. QED
      BY <2>2, <2>3, <3>3, <3>4 DEF StragglersCounted, Frozen, MetaLeft
  <2>4. CASE ~(Frozen /\ s = "ordinary" /\ n > 0)
    <3>1. stragglers' = stragglers
      BY <2>1, <2>4
    <3>2. DirectWritePending' => DirectWritePending
      BY <1>3 DEF SubmitFrameRequest, DirectWritePending, TypeOK
    <3>3. QED
      BY <2>2, <3>1, <3>2 DEF StragglersCounted, Frozen, MetaLeft
  <2>5. QED
    BY <2>3, <2>4
<1>4. ASSUME NEW s \in OrdinaryServers, ReplyOrdinary(s)
      PROVE  StragglersCounted'
  <2>1. DirectWritePending' => DirectWritePending
    BY <1>4 DEF ReplyOrdinary, Idle, DirectWritePending, TypeOK
  <2>2. QED
    BY <1>4, <2>1 DEF ReplyOrdinary, StragglersCounted, Frozen, MetaLeft
<1>5. CASE ReceiveMeta
  <2>1. UNCHANGED <<public, stragglers, ordinary>>
    BY <1>5 DEF ReceiveMeta
  <2>2. CASE Frozen
    <3>1. MetaLeft' = 0
      BY <1>5, <2>2 DEF ReceiveMeta, AcceptsMetaRequest, Frozen, MetaLeft
    <3>2. QED
      BY <2>1, <3>1, <1>t DEF StragglersCounted, Frozen, DirectWritePending
  <2>3. CASE ~Frozen
    <3>1. MetaLeft' <= MaxMetaPayloads
      BY <1>5 DEF ReceiveMeta, MetaLeft
    <3>2. stragglers = NoStragglers
      BY <2>3 DEF StragglersCounted
    <3>3. MetaLeft' \in Nat
      BY <1>5, LenProperties DEF ReceiveMeta, MetaLeft
    <3>4. stragglers' = NoStragglers
      BY <2>1, <3>2
    <3>5. NoStragglers.ordinary = 0 /\ NoStragglers.meta = 0
      BY DEF NoStragglers
    <3>6. \A m \in Nat : 0 + m = m
      OBVIOUS
    <3>7. QED
      BY <2>1, <2>3, <3>1, <3>3, <3>4, <3>5, <3>6
      DEF StragglersCounted, Frozen
  <2>4. QED
    BY <2>2, <2>3
<1>6. CASE SubmitMetaRequest
  <2>1. /\ meta.payloads \in Seq(MetaOperations)
        /\ meta.payloads # <<>>
        /\ meta.phase = "admitted"
    BY <1>6 DEF SubmitMetaRequest, TypeOK
  <2>2. /\ Len(Tail(meta.payloads)) = Len(meta.payloads) - 1
        /\ Len(meta.payloads) \in Nat
    BY <2>1, TailOfPayloads
  <2>3. Tail(meta.payloads) \in Seq(MetaOperations)
    BY <2>1, TailOfPayloads
  <2>4. meta'.payloads = Tail(meta.payloads)
    BY <1>6 DEF SubmitMetaRequest
  <2>5. MetaLeft' <= Len(Tail(meta.payloads)) /\ MetaLeft' \in Nat
    BY <2>1, <2>2, <2>3, <2>4, LenProperties DEF MetaLeft
  <2>6. stragglers' = IF Frozen THEN [stragglers EXCEPT !.meta = @ + 1]
                                ELSE stragglers
    BY <1>6 DEF SubmitMetaRequest
  <2>7. UNCHANGED <<public, ordinary>>
    BY <1>6 DEF SubmitMetaRequest
  <2>8. CASE Frozen
    <3>1. /\ stragglers'.meta = stragglers.meta + 1
          /\ stragglers'.ordinary = stragglers.ordinary
      BY <2>6, <2>8 DEF TypeOK
    <3>2. stragglers.meta + Len(meta.payloads) <= MaxMetaPayloads
      BY <2>1 DEF StragglersCounted, MetaLeft
    <3>3. stragglers'.meta + MetaLeft' <= MaxMetaPayloads
      BY <3>1, <3>2, <2>2, <2>5, <1>t
    <3>4. QED
      BY <2>7, <2>8, <3>1, <3>3
      DEF StragglersCounted, Frozen, DirectWritePending
  <2>9. CASE ~Frozen
    <3>1. stragglers.meta + Len(meta.payloads) <= MaxMetaPayloads
      BY <2>1 DEF StragglersCounted, MetaLeft
    <3>2. stragglers.meta + MetaLeft' <= MaxMetaPayloads
      BY <3>1, <2>2, <2>5, <1>t
    <3>3. QED
      BY <2>6, <2>7, <2>9, <3>2 DEF StragglersCounted, Frozen
  <2>10. QED
    BY <2>8, <2>9
<1>7. CASE SubmitMetaFails \/ ReplyMeta
  <2>1. UNCHANGED <<public, stragglers, ordinary>> /\ MetaLeft' = 0
    BY <1>7 DEF SubmitMetaFails, ReplyMeta, Idle, MetaLeft
  <2>2. QED
    BY <2>1, <1>t DEF StragglersCounted, Frozen, DirectWritePending
<1>8. CASE FollowReply
  <2>1. UNCHANGED <<ordinary, meta>>
    BY <1>8 DEF FollowReply
  <2>2. CASE public' = "Active"
    BY <1>8, <2>1, <2>2, <1>t
    DEF FollowReply, StragglersCounted, Frozen, NoStragglers, MetaLeft
  <2>3. CASE public' # "Active" /\ Frozen
    BY <1>8, <2>1, <2>3
    DEF FollowReply, StragglersCounted, Frozen, DirectWritePending, MetaLeft
  <2>4. CASE public' # "Active" /\ ~Frozen
    BY <1>8, <2>1, <2>4
    DEF FollowReply, NoStragglers, StragglersCounted, Frozen, MetaLeft
  <2>5. QED
    BY <2>2, <2>3, <2>4
<1>9. CASE Restart
  BY <1>9 DEF Restart, StragglersCounted, Frozen, NoStragglers, MetaLeft, Idle
<1>10. QED
  BY <1>1, <1>2, <1>3, <1>4, <1>5, <1>6, <1>7, <1>8, <1>9
  DEF Next, OrdinaryStep, MetaStep, UpgradeStep, ReceiveUpgrade,
      SubmitUpgradeRequest, RemovePaths, ReplyUpgrade, vars

\* No upgrade operation leads a finalized daemon back.
LEMMA ClosedMeansRetiredNext ==
  ASSUME TypeOK, PendingReply, ClosedMeansRetired, [Next]_vars
  PROVE  ClosedMeansRetired'
<1> USE DEF ClosedMeansRetired
<1>1. CASE UNCHANGED <<handover, public>>
  BY <1>1
<1>2. CASE SubmitUpgradeRequest
  BY <1>2
  DEF SubmitUpgradeRequest, AskHandoverMarker, ReadyToHandover,
      HandoverCompleted, Mirror, Divergence, RecoverFromFailure, Active,
      PrivateUpgradeOnly, HandoverMode
<1>3. CASE FollowReply
  BY <1>3 DEF FollowReply, PublicStateAfter, PendingReply
<1>4. CASE Restart
  BY <1>4 DEF Restart
<1>5. QED
  BY <1>1, <1>2, <1>3, <1>4
  DEF Next, OrdinaryStep, MetaStep, UpgradeStep, ReceiveOrdinary,
      SubmitFrameRequest, ReplyOrdinary, ReceiveMeta, SubmitMetaRequest,
      SubmitMetaFails, ReplyMeta, ReceiveUpgrade, RemovePaths, ReplyUpgrade, vars

LEMMA IInvInit == Init => IInv
<1> SUFFICES ASSUME Init PROVE IInv
  OBVIOUS
<1>1. TypeOK
  BY TypeInit
<1>2. PendingReply /\ CopiedMatches
  BY DEF Init, PendingReply, SocketsAgree, CopiedMatches, IdleUpgrade, Active,
         PrivateUpgradeOnly, NotCopied
<1>3. StragglersCounted
  BY HandoverAssumption
  DEF Init, StragglersCounted, NoStragglers, MetaLeft, Idle, Frozen
<1>4. ClosedMeansRetired
  BY DEF Init, ClosedMeansRetired
<1>5. QED
  BY <1>1, <1>2, <1>3, <1>4 DEF IInv

LEMMA IInvNext == IInv /\ [Next]_vars => IInv'
  BY TypeNext, PendingReplyNext, CopiedMatchesNext, StragglersCountedNext,
     ClosedMeansRetiredNext
  DEF IInv

\* The inductive invariant holds throughout.
THEOREM Inductive == Spec => []IInv
  BY IInvInit, IInvNext, PTL DEF Spec

\* Between two operations the atomic and the socket files agree with the root.
THEOREM SocketsAlwaysFollowRoot == Spec => []SocketsFollowRoot
<1>1. IInv => SocketsFollowRoot
  BY DEF IInv, PendingReply, SocketsFollowRoot
<1>2. QED
  BY <1>1, Inductive, PTL

\* A freeze is overtaken by the exchange in flight and nothing more.
THEOREM AlwaysFewStragglers == Spec => []FewStragglers
<1>1. IInv => FewStragglers
  <2> SUFFICES ASSUME IInv PROVE FewStragglers
    OBVIOUS
  <2>1. /\ stragglers.meta \in Nat
        /\ MetaLeft \in Nat
        /\ stragglers.meta + MetaLeft <= MaxMetaPayloads
        /\ stragglers.ordinary <= 1
    BY LenProperties DEF IInv, TypeOK, StragglersCounted, MetaLeft
  <2>2. QED
    BY <2>1, HandoverAssumption DEF FewStragglers
<1>2. QED
  BY <1>1, Inductive, PTL

\* Only a restart reopens the public sockets of a finalized daemon.
THEOREM ClosedStaysClosed == Spec => ClosedIsFinal
<1>1. IInv /\ [Next]_vars
        => [public = "Closed" => public' = "Closed" \/ crashes' # crashes]_vars
  <2> SUFFICES ASSUME IInv, [Next]_vars, public = "Closed",
                      public' # "Closed"
               PROVE  crashes' # crashes
    OBVIOUS
  <2>1. CASE FollowReply
    <3>1. upgrade.phase = "applying"
      BY <2>1 DEF FollowReply
    <3>2. upgrade.reply \in {"HandoverAccepted", "Recovered"}
      BY <2>1 DEF FollowReply, PublicStateAfter
    <3>3. handover # PrivateUpgradeOnly
      BY <3>1, <3>2 DEF IInv, PendingReply, Active, PrivateUpgradeOnly
    <3>4. QED
      BY <3>3 DEF IInv, ClosedMeansRetired
  <2>2. CASE Restart
    BY <2>2 DEF Restart, IInv, TypeOK
  <2>3. QED
    BY <2>1, <2>2
    DEF Next, OrdinaryStep, MetaStep, UpgradeStep, ReceiveOrdinary,
        SubmitFrameRequest, ReplyOrdinary, ReceiveMeta, SubmitMetaRequest,
        SubmitMetaFails, ReplyMeta, ReceiveUpgrade, SubmitUpgradeRequest, RemovePaths,
        ReplyUpgrade, vars
<1>2. QED
  BY <1>1, Inductive, PTL DEF Spec, ClosedIsFinal

-----------------------------------------------------------------------------
(* Handover implements Cutover. *)

\* A write of any server is a write of Cutover or changes nothing it sees.
LEMMA WriteRefines ==
  ASSUME TypeOK, NEW n \in Nat, commit' = commit + n, commit' \in 0..MaxCommit,
         UNCHANGED <<handover, copied>>
  PROVE  [Abstract!Next]_(Abstract!vars)
<1>1. CASE n = 0
  BY <1>1 DEF Abstract!vars, TypeOK
<1>2. CASE n > 0
  BY <1>2, HandoverAssumption DEF Abstract!Next, Abstract!Write, TypeOK
<1>3. QED
  BY <1>1, <1>2

\* A handler of the root is the Cutover step of the same name, or a stutter.
LEMMA RootRefines ==
  ASSUME IInv, SubmitUpgradeRequest
  PROVE  [Abstract!Next]_(Abstract!vars)
<1> USE DEF Active, PrivateUpgradeOnly, HandoverMode
<1>1. CASE UNCHANGED <<handover, commit, copied>>
  BY <1>1 DEF Abstract!vars
<1>2. CASE ReadyToHandover
  <2>1. CASE UNCHANGED handover
    BY <1>1, <1>2, <2>1 DEF ReadyToHandover
  <2>2. CASE ~UNCHANGED handover
    <3>1. /\ handover.mode = "Active" /\ handover'.mode = "HandoverMode"
          /\ copied' = commit /\ commit' = commit
      BY <1>2, <2>2 DEF ReadyToHandover
    <3>2. QED
      BY <3>1 DEF Abstract!Next, Abstract!GrantReadiness
  <2>3. QED
    BY <2>1, <2>2
<1>3. CASE HandoverCompleted
  <2>1. CASE UNCHANGED handover
    BY <1>1, <1>3, <2>1 DEF HandoverCompleted
  <2>2. CASE ~UNCHANGED handover
    <3>1. /\ handover = HandoverMode(Operation.accepted)
          /\ commit = Operation.accepted.commit
          /\ handover' = PrivateUpgradeOnly
          /\ UNCHANGED <<commit, copied>>
      BY <1>3, <2>2 DEF HandoverCompleted
    <3>2. commit = copied
      BY <3>1 DEF IInv, CopiedMatches
    <3>3. QED
      BY <3>1, <3>2 DEF Abstract!Next, Abstract!Retire
  <2>3. QED
    BY <2>1, <2>2
<1>4. CASE Mirror
  <2>1. CASE UNCHANGED commit
    BY <1>1, <1>4, <2>1 DEF Mirror
  <2>2. CASE ~UNCHANGED commit
    <3>1. commit' = commit + 1 /\ commit < MaxCommit
          /\ UNCHANGED <<handover, copied>>
      BY <1>4, <2>2 DEF Mirror
    <3>2. commit' \in 0..MaxCommit
      BY <3>1, HandoverAssumption DEF IInv, TypeOK
    <3>3. QED
      BY <3>1, <3>2, WriteRefines DEF IInv
  <2>3. QED
    BY <2>1, <2>2
<1>5. CASE RecoverFromFailure
  <2>1. CASE handover = PrivateUpgradeOnly
    BY <1>1, <1>5, <2>1 DEF RecoverFromFailure
  <2>2. CASE handover = Active
    <3>1. UNCHANGED <<handover, commit, copied>>
      BY <1>5, <2>2 DEF RecoverFromFailure, IInv, CopiedMatches
    <3>2. QED
      BY <1>1, <3>1
  <2>3. CASE handover.mode = "HandoverMode"
    <3>1. handover'.mode = "Active" /\ copied' = NotCopied /\ commit' = commit
      BY <1>5, <2>3 DEF RecoverFromFailure
    <3>2. QED
      BY <2>3, <3>1
      DEF Abstract!Next, Abstract!Abandon, Abstract!NotCopied, NotCopied
  <2>4. QED
    BY <2>1, <2>2, <2>3 DEF IInv, TypeOK
<1>6. CASE AskHandoverMarker \/ Divergence
  BY <1>1, <1>6 DEF AskHandoverMarker, Divergence
<1>7. QED
  BY <1>2, <1>3, <1>4, <1>5, <1>6 DEF SubmitUpgradeRequest

LEMMA StepRefines ==
  ASSUME IInv, [Next]_vars
  PROVE  [Abstract!Next]_(Abstract!vars)
<1>1. CASE UNCHANGED <<handover, commit, copied>>
  BY <1>1 DEF Abstract!vars
<1>2. ASSUME NEW s \in OrdinaryServers, SubmitFrameRequest(s)
      PROVE  [Abstract!Next]_(Abstract!vars)
  <2>1. PICK n \in CommitsOf(ordinary[s].payloads) :
          commit + n <= MaxCommit /\ commit' = commit + n
    BY <1>2 DEF SubmitFrameRequest
  <2>2. n \in Nat
    BY HandoverAssumption DEF CommitsOf
  <2>3. commit' \in 0..MaxCommit
    BY <2>1, <2>2, HandoverAssumption DEF IInv, TypeOK
  <2>4. UNCHANGED <<handover, copied>>
    BY <1>2 DEF SubmitFrameRequest
  <2>5. QED
    BY <2>1, <2>2, <2>3, <2>4, WriteRefines DEF IInv
<1>3. CASE SubmitUpgradeRequest
  BY <1>3, RootRefines
<1>4. CASE Restart
  BY <1>4
  DEF Restart, Abstract!Next, Abstract!Restart, Abstract!NotCopied, NotCopied,
      Active
<1>5. QED
  BY <1>1, <1>2, <1>3, <1>4
  DEF Next, OrdinaryStep, MetaStep, UpgradeStep, ReceiveOrdinary,
      ReplyOrdinary, ReceiveMeta, SubmitMetaRequest, SubmitMetaFails,
      ReplyMeta, ReceiveUpgrade, FollowReply, RemovePaths, ReplyUpgrade, vars

\* Readiness is granted at the commit that was copied and the daemon retires
\* at that commit only, in every behaviour of the threads.
THEOREM Refinement == Spec => RefinesCutover
<1>1. Init => Abstract!Init
  BY HandoverAssumption
  DEF Init, Abstract!Init, Abstract!NotCopied, NotCopied, Active
<1>2. IInv /\ [Next]_vars => [Abstract!Next]_(Abstract!vars)
  BY StepRefines
<1>3. QED
  BY <1>1, <1>2, Inductive, PTL DEF Spec, RefinesCutover, Abstract!Spec

-----------------------------------------------------------------------------
(* MetaPlane *)

LEMMA PlaneStepIsHandoverStep == PlaneNext => [Next]_vars
<1>1. OtherStep => [Next]_vars
  BY DEF OtherStep, Next, MetaStep
<1>2. PerformMetaRequest => [Next]_vars
  BY DEF PerformMetaRequest, Next, MetaStep
<1>3. MetaPlaneStops => [Next]_vars
  BY DEF MetaPlaneStops, Next, MetaStep
<1>4. PolicyPlaneStops => [Next]_vars
  BY DEF PolicyPlaneStops, Next, MetaStep
<1>5. EditSource => [Next]_vars
  BY DEF EditSource
<1>6. RestartPlanes => [Next]_vars
  BY DEF RestartPlanes, Next
<1>7. QED
  BY <1>1, <1>2, <1>3, <1>4, <1>5, <1>6 DEF PlaneNext

\* The meta plane and the policy plane take nothing away from what the daemon
\* of Handover may do and add nothing: its sockets follow the root, its
\* freeze is outrun by one exchange only and it refines Cutover, whatever the
\* planes do and whenever they fail (root.rs submit_meta_request).
THEOREM PlanesRefineHandover == PlaneSpec => Spec
<1>1. PlaneInit => Init
  BY DEF PlaneInit
<1>2. [PlaneNext]_<<vars, metaVars>> => [Next]_vars
  BY PlaneStepIsHandoverStep
<1>3. QED
  BY <1>1, <1>2, PTL DEF PlaneSpec, Spec

-----------------------------------------------------------------------------
(* The planes *)

PlaneInv == PlaneTypeOK /\ IdentitiesAreLastOrders

\* A list of names that gains one it does not have.
LEMMA NameAppended ==
  ASSUME NEW list \in Seq(Names), NEW name \in Names, name \notin Range(list),
         IsInjective(list)
  PROVE  /\ Append(list, name) \in Seq(Names)
         /\ IsInjective(Append(list, name))
         /\ Range(Append(list, name)) = Range(list) \cup {name}
<1>1. /\ Append(list, name) \in Seq(Names)
      /\ Len(list) \in Nat
      /\ DOMAIN list = 1..Len(list)
      /\ DOMAIN Append(list, name) = 1..(Len(list) + 1)
      /\ \A i \in 1..Len(list) : Append(list, name)[i] = list[i]
      /\ Append(list, name)[Len(list) + 1] = name
  OBVIOUS
<1>2. QED
  BY <1>1 DEF IsInjective, Range

\* A name is listed once after a Register, whether it was listed or not.
LEMMA RegisterKeeps ==
  ASSUME PlaneInv, NEW name \in Names, RegisterIdentity(name)
  PROVE  /\ identities' \in Seq(Names)
         /\ orders' \in [Names -> {None, "Register", "Retire"}]
         /\ IdentitiesAreLastOrders'
         /\ UNCHANGED <<generation, policy>>
<1>1. /\ identities \in Seq(Names) /\ IsInjective(identities)
      /\ Range(identities) = {n \in Names : orders[n] = "Register"}
      /\ orders \in [Names -> {None, "Register", "Retire"}]
  BY DEF PlaneInv, PlaneTypeOK, IdentitiesAreLastOrders
<1>2. orders' = [orders EXCEPT ![name] = "Register"] /\ UNCHANGED <<generation, policy>>
  BY DEF RegisterIdentity, Remembers
<1>3. {n \in Names : orders'[n] = "Register"} = Range(identities) \cup {name}
  BY <1>1, <1>2
<1>4. /\ identities' \in Seq(Names) /\ IsInjective(identities')
      /\ Range(identities') = Range(identities) \cup {name}
  <2>1. CASE name \in Range(identities)
    BY <1>1, <2>1 DEF RegisterIdentity
  <2>2. CASE name \notin Range(identities)
    BY <1>1, <2>2, NameAppended DEF RegisterIdentity
  <2>3. QED
    BY <2>1, <2>2
<1>5. QED
  BY <1>1, <1>2, <1>3, <1>4 DEF IdentitiesAreLastOrders

\* It is not listed after a Retire, and every other name still is.
LEMMA RetireKeeps ==
  ASSUME PlaneInv, NEW name \in Names, RetireIdentity(name)
  PROVE  /\ identities' \in Seq(Names)
         /\ orders' \in [Names -> {None, "Register", "Retire"}]
         /\ IdentitiesAreLastOrders'
         /\ UNCHANGED <<generation, policy>>
<1> DEFINE kept == Names \ {name}
           rest == Retained(identities, kept)
<1>1. /\ identities \in Seq(Names) /\ IsInjective(identities)
      /\ Range(identities) = {n \in Names : orders[n] = "Register"}
      /\ orders \in [Names -> {None, "Register", "Retire"}]
  BY DEF PlaneInv, PlaneTypeOK, IdentitiesAreLastOrders
<1>2. /\ orders' = [orders EXCEPT ![name] = "Retire"]
      /\ identities' = rest
      /\ UNCHANGED <<generation, policy>>
  BY DEF RetireIdentity, Remembers
<1>3. {n \in Names : orders'[n] = "Register"} = Range(identities) \cap kept
  BY <1>1, <1>2
<1>4. IsInjective(rest) /\ Range(rest) = Range(identities) \cap kept
  <2> HIDE DEF kept
  <2>1. /\ Retained(identities, kept) \in Seq(Names)
        /\ {Retained(identities, kept)[k] : k \in DOMAIN Retained(identities, kept)} =
             {identities[i] : i \in DOMAIN identities} \cap kept
        /\ (\A i, j \in DOMAIN identities : identities[i] = identities[j] => i = j)
             => \A i, j \in DOMAIN Retained(identities, kept) :
                  Retained(identities, kept)[i] = Retained(identities, kept)[j] => i = j
    BY <1>1, RetainedHolds
  <2>2. IsInjective(Retained(identities, kept))
    BY <1>1, <2>1 DEF IsInjective
  <2>3. Range(Retained(identities, kept)) = Range(identities) \cap kept
    BY <2>1 DEF Range
  <2>4. QED
    BY <2>2, <2>3
<1>5. rest \in Seq(Names)
  <2> HIDE DEF kept
  <2>1. Retained(identities, kept) \in Seq(Names)
    BY <1>1, RetainedHolds
  <2>2. QED
    BY <2>1
<1> HIDE DEF rest, kept
<1>6. QED
  BY <1>1, <1>2, <1>3, <1>4, <1>5 DEF IdentitiesAreLastOrders

LEMMA PlaneInvInit == PlaneInit => PlaneInv
<1> SUFFICES ASSUME PlaneInit PROVE PlaneInv
  OBVIOUS
<1>1. PlaneTypeOK
  BY MetaAssumption DEF PlaneInit, PlaneTypeOK, Seed
<1>2. IdentitiesAreLastOrders
  <2>1. Range(<<>>) = {} /\ IsInjective(<<>>)
    BY DEF Range, IsInjective
  <2>2. {n \in Names : orders[n] = "Register"} = {}
    BY DEF PlaneInit, None
  <2>3. QED
    BY <2>1, <2>2 DEF PlaneInit, IdentitiesAreLastOrders
<1>3. QED
  BY <1>1, <1>2 DEF PlaneInv

LEMMA PlaneInvNext == PlaneInv /\ [PlaneNext]_<<vars, metaVars>> => PlaneInv'
<1> SUFFICES ASSUME PlaneInv, [PlaneNext]_<<vars, metaVars>> PROVE PlaneInv'
  OBVIOUS
<1>1. PlaneTypeOK /\ IdentitiesAreLastOrders
  BY DEF PlaneInv
<1>2. ASSUME UNCHANGED metaVars
      PROVE  PlaneInv'
  BY <1>1, <1>2 DEF metaVars, planes, PlaneInv, PlaneTypeOK,
     IdentitiesAreLastOrders
<1>3. CASE PerformMetaRequest
  <2>1. UNCHANGED <<source, edits, planeStops>>
    BY <1>3 DEF PerformMetaRequest
  <2>2. CASE StartGeneration \/ Drain \/ Reload
    <3>1. /\ generation' \in Generations \cup {None}
          /\ policy' \in Policies \cup {None}
          /\ UNCHANGED <<identities, orders>>
      BY <1>1, <2>2 DEF StartGeneration, Drain, Reload, ReadsPolicy, PlaneTypeOK
    <3>2. QED
      BY <1>1, <2>1, <3>1 DEF PlaneInv, PlaneTypeOK, IdentitiesAreLastOrders
  <2>3. ASSUME NEW n \in Names, RegisterIdentity(n) \/ RetireIdentity(n)
        PROVE  PlaneInv'
    BY <1>1, <2>1, <2>3, RegisterKeeps, RetireKeeps DEF PlaneInv, PlaneTypeOK
  <2>4. QED
    BY <1>3, <2>2, <2>3 DEF PerformMetaRequest, Performs
<1>4. ASSUME MetaPlaneForgets
      PROVE  /\ generation' \in Generations \cup {None}
             /\ identities' \in Seq(Names)
             /\ orders' \in [Names -> {None, "Register", "Retire"}]
             /\ IdentitiesAreLastOrders'
  <2>1. Range(<<>>) = {} /\ IsInjective(<<>>)
    BY DEF Range, IsInjective
  <2>2. {n \in Names : orders'[n] = "Register"} = {}
    BY <1>4 DEF MetaPlaneForgets, None
  <2>3. QED
    BY <1>4, <2>1, <2>2 DEF MetaPlaneForgets, IdentitiesAreLastOrders
<1>5. Stops => planeStops' \in 0..MaxPlaneStops
  BY <1>1, MetaAssumption DEF Stops, PlaneTypeOK
<1>6. Seed(source) \in Policies \cup {None}
  BY <1>1 DEF PlaneTypeOK, Seed
<1>7. CASE MetaPlaneStops
  BY <1>1, <1>4, <1>5, <1>7 DEF MetaPlaneStops, PlaneInv, PlaneTypeOK
<1>8. CASE PolicyPlaneStops
  BY <1>1, <1>5, <1>6, <1>8
  DEF PolicyPlaneStops, PlaneInv, PlaneTypeOK, IdentitiesAreLastOrders
<1>9. CASE EditSource
  <2>1. edits' \in 0..MaxEdits
    BY <1>1, <1>9, MetaAssumption DEF EditSource, PlaneTypeOK
  <2>2. QED
    BY <1>1, <1>9, <2>1
    DEF EditSource, planes, PlaneInv, PlaneTypeOK, IdentitiesAreLastOrders
<1>10. CASE RestartPlanes
  BY <1>1, <1>4, <1>6, <1>10 DEF RestartPlanes, PlaneInv, PlaneTypeOK
<1>11. OtherStep => UNCHANGED metaVars
  BY DEF OtherStep
<1>12. QED
  BY <1>2, <1>3, <1>7, <1>8, <1>9, <1>10, <1>11 DEF PlaneNext, metaVars

LEMMA PlaneInductive == PlaneSpec => []PlaneInv
  BY PlaneInvInit, PlaneInvNext, PTL DEF PlaneSpec

\* The planes stay in their types.
THEOREM PlaneTypeCorrect == PlaneSpec => []PlaneTypeOK
<1>1. PlaneInv => PlaneTypeOK
  BY DEF PlaneInv
<1>2. QED
  BY <1>1, PlaneInductive, PTL

\* Whatever order Register and Retire arrive in, however often each is
\* repeated and whenever the plane starts again, a name is listed once if the
\* last order about it was Register and not at all otherwise (meta.rs,
\* register_identity and retire_identity).
THEOREM IdentitiesFollowOrders == PlaneSpec => []IdentitiesAreLastOrders
<1>1. PlaneInv => IdentitiesAreLastOrders
  BY DEF PlaneInv
<1>2. QED
  BY <1>1, PlaneInductive, PTL

\* A policy in force is replaced by a Reload that a meta client ordered and
\* that read one, or goes with its plane; an unreadable file never unseats it
\* (policy.rs reload).
THEOREM PolicyStaysInForce == PlaneSpec => PolicyIsKept
<1> DEFINE Kept ==
      policy' # policy =>
        \/ planeStops' # planeStops
        \/ crashes' # crashes
        \/ policy' # None /\ meta.phase = "admitted"
             /\ Head(meta.payloads) = "Reload"
<1>1. PlaneInv /\ TypeOK /\ [PlaneNext]_<<vars, metaVars>>
        => [Kept]_<<vars, metaVars>>
  <2> SUFFICES ASSUME PlaneInv, TypeOK, PlaneNext, policy' # policy
               PROVE  \/ planeStops' # planeStops
                      \/ crashes' # crashes
                      \/ policy' # None /\ meta.phase = "admitted"
                           /\ Head(meta.payloads) = "Reload"
    OBVIOUS
  <2>1. CASE PerformMetaRequest
    <3>1. meta.phase = "admitted"
      BY <2>1 DEF PerformMetaRequest, SubmitMetaRequest
    <3>2. Head(meta.payloads) = "Reload" /\ Reload
      BY <2>1
      DEF PerformMetaRequest, Performs, StartGeneration, Drain,
          RegisterIdentity, RetireIdentity, Remembers
    <3>3. policy' # None
      BY <3>2, MetaAssumption DEF Reload, ReadsPolicy, PlaneInv, PlaneTypeOK
    <3>4. QED
      BY <3>1, <3>2, <3>3
  <2>2. CASE MetaPlaneStops \/ PolicyPlaneStops
    BY <2>2, MetaAssumption
    DEF MetaPlaneStops, PolicyPlaneStops, Stops, PlaneInv, PlaneTypeOK
  <2>3. CASE RestartPlanes
    BY <2>3, HandoverAssumption DEF RestartPlanes, Restart, TypeOK
  <2>4. CASE OtherStep \/ EditSource
    BY <2>4 DEF OtherStep, EditSource, metaVars, planes
  <2>5. QED
    BY <2>1, <2>2, <2>3, <2>4 DEF PlaneNext
<1>2. QED
  BY <1>1, PlaneInductive, PlanesRefineHandover, TypeCorrect, PTL
  DEF PlaneSpec, PolicyIsKept, Kept
==============================================================================
