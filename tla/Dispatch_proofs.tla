--------------------------- MODULE Dispatch_proofs ---------------------------
(***************************************************************************)
(* Proofs about Dispatch: IInv is inductive, whatever the clients, the     *)
(* operations and the bounds, so that commit statuses are true and a token *)
(* names its client's subscription.                                        *)
(***************************************************************************)
EXTENDS Dispatch, SequenceTheorems, TLAPS

\* What TypeOK asks of a request in dispatch.
Exchanges ==
  [client : Clients, operation : Operations, token : Nat, todo : Seq(Planes),
   commits : 0..(MaxCandidates + 1), error : Errors \cup {"none"}]

\* What remains to be asked still ends with the same plane.
LEMMA TailEnds ==
  ASSUME NEW todo \in Seq(Planes), todo # <<>>, NEW plane,
         EndsWith(todo, plane)
  PROVE  /\ EndsWith(Tail(todo), plane)
         /\ Tail(todo) = <<>> <=> Head(todo) = plane
  <1> DEFINE rest == Tail(todo)
  <1>1. /\ rest \in Seq(Planes)
        /\ Len(rest) = Len(todo) - 1
        /\ \A i \in 1..Len(rest) : rest[i] = todo[i + 1]
    BY HeadTailProperties
  <1>2. Len(todo) \in Nat /\ Len(todo) >= 1
    BY EmptySeq
  <1>3. rest = <<>> <=> Len(todo) = 1
    <2>1. Len(rest) = 0 <=> Len(todo) = 1
      BY <1>1, <1>2
    <2>2. rest = <<>> <=> Len(rest) = 0
      BY <1>1, EmptySeq
    <2>3. QED
      BY <2>1, <2>2
  <1>4. Head(todo) = todo[1]
    BY <1>2
  <1>5. ASSUME NEW i \in 1..Len(rest)
        PROVE  rest[i] = plane <=> i = Len(rest)
    <2>1. i + 1 \in 1..Len(todo) /\ rest[i] = todo[i + 1]
      BY <1>1, <1>2
    <2>2. todo[i + 1] = plane <=> i + 1 = Len(todo)
      BY <2>1 DEF EndsWith
    <2>3. i + 1 = Len(todo) <=> i = Len(rest)
      BY <1>1, <1>2
    <2>4. QED
      BY <2>1, <2>2, <2>3
  <1>6. todo[1] = plane <=> Len(todo) = 1
    <2>1. 1 \in 1..Len(todo)
      BY <1>2
    <2>2. todo[1] = plane <=> 1 = Len(todo)
      BY <2>1 DEF EndsWith
    <2>3. QED
      BY <1>2, <2>2
  <1>7. QED
    BY <1>3, <1>4, <1>5, <1>6 DEF EndsWith

\* The planes of a write end with the store, those of a watch with the
\* subscription plane (execute_command).
LEMMA PlanesShape ==
  ASSUME NEW operation \in AllOperations
  PROVE  /\ PlanesFor(operation) \in Seq(Planes) /\ PlanesFor(operation) # <<>>
         /\ operation \in Writes => EndsWith(PlanesFor(operation), "store")
         /\ operation \in Watches =>
              EndsWith(PlanesFor(operation), "subscription")
  <1> DEFINE before == PlanesBefore(operation)
             last   == LastPlane(operation)
  <1>1. before \in Seq(Planes) /\ last \in Planes
    <2>1. last \in Planes
      BY DEF LastPlane, Planes
    <2>2. \A p, q \in Planes :
            <<>> \in Seq(Planes) /\ <<p>> \in Seq(Planes)
              /\ <<p, q>> \in Seq(Planes)
      OBVIOUS
    <2>3. before \in {<<>>, <<"clock">>, <<"state">>, <<"store">>,
                     <<"classifier", "clock">>}
      BY DEF PlanesBefore
    <2>4. {"classifier", "clock", "state", "store"} \subseteq Planes
      BY DEF Planes
    <2>5. QED
      BY <2>1, <2>2, <2>3, <2>4
  <1>2. /\ PlanesFor(operation) \in Seq(Planes)
        /\ Len(PlanesFor(operation)) = Len(before) + 1
        /\ \A i \in 1..Len(before) : PlanesFor(operation)[i] = before[i]
        /\ PlanesFor(operation)[Len(before) + 1] = last
        /\ Len(before) \in Nat
    BY <1>1 DEF PlanesFor
  <1>3. operation \in Writes =>
          last = "store" /\ \A i \in 1..Len(before) : before[i] # "store"
    BY DEF PlanesBefore, LastPlane, Writes, Captures, Watches, Unwatches,
           StateReads, Taps
  <1>4. operation \in Watches =>
          /\ last = "subscription"
          /\ \A i \in 1..Len(before) : before[i] # "subscription"
    BY DEF PlanesBefore, LastPlane, Watches
  <1>5. operation \in Writes => EndsWith(PlanesFor(operation), "store")
    BY <1>2, <1>3 DEF EndsWith
  <1>6. operation \in Watches => EndsWith(PlanesFor(operation), "subscription")
    BY <1>2, <1>4 DEF EndsWith
  <1>7. PlanesFor(operation) # <<>>
    BY <1>2
  <1>8. QED
    BY <1>2, <1>5, <1>6, <1>7

\* A request in dispatch is typed, and a plane it has to ask is a plane.
LEMMA InHand ==
  ASSUME TypeOK, exchange # Idle
  PROVE  exchange \in Exchanges
  BY DEF TypeOK, Exchanges

LEMMA AsksInHand ==
  ASSUME TypeOK, exchange.todo # <<>>
  PROVE  exchange # Idle /\ exchange \in Exchanges
  BY DEF TypeOK, Exchanges, Idle

LEMMA InitInv == Init => IInv
  <1> SUFFICES ASSUME Init PROVE IInv
    OBVIOUS
  <1> USE DispatchAssumption DEF Init
  <1>1. TypeOK
    BY DEF TypeOK, NoAnswer, Statuses, Kinds, Tokens
  <1>2. StatusIsTrue
    BY DEF StatusIsTrue, NoAnswer
  <1>3. TokensDenoteOwn /\ ExchangeOnTrack /\ TokensOnTrack
    BY DEF TokensDenoteOwn, ExchangeOnTrack, TokensOnTrack, InDispatch, Idle
  <1>4. QED
    BY <1>1, <1>2, <1>3 DEF IInv

\* A step that leaves answers and subscriptions alone keeps the invariant if
\* the request in hand stays on its track.
LEMMA StepInHand ==
  ASSUME IInv, UNCHANGED <<answers, table, next, held, current>>,
         exchange' \in Exchanges, ExchangeOnTrack',
         requests' \in 0..MaxRequests, faults' \in 0..MaxFaults,
         restarts' \in 0..MaxRestarts,
         ~(/\ exchange'.todo = <<>>
           /\ exchange'.operation \in Watches
           /\ exchange'.error = "none")
  PROVE  IInv'
  <1>1. TypeOK'
    BY DEF IInv, TypeOK, Exchanges
  <1>2. StatusIsTrue'
    BY DEF IInv, StatusIsTrue
  <1>3. TokensDenoteOwn'
    BY DEF IInv, TokensDenoteOwn
  <1>4. TokensOnTrack'
    BY DEF IInv, TokensOnTrack, InDispatch
  <1>5. QED
    BY <1>1, <1>2, <1>3, <1>4 DEF IInv

LEMMA RequestKeeps ==
  ASSUME IInv, NEW c \in Clients, NEW operation \in Operations,
         Request(c, operation)
  PROVE  IInv'
  <1>1. PICK token \in IF operation \in Unwatches
                         THEN TokensOf(c, KindOf(operation)) ELSE {0} :
          exchange' = [client |-> c, operation |-> operation, token |-> token,
                       todo |-> PlanesFor(operation), commits |-> 0,
                       error |-> "none"]
    BY DEF Request
  <1>2. token \in Nat
    BY <1>1 DEF IInv, TypeOK, Tokens, TokensOf
  <1>3. operation \in AllOperations
    BY DispatchAssumption
  <1>4. exchange' \in Exchanges
    BY <1>1, <1>2, <1>3, PlanesShape, DispatchAssumption DEF Exchanges
  <1>5. ExchangeOnTrack'
    BY <1>1, <1>3, PlanesShape DEF ExchangeOnTrack
  <1>6. requests' \in 0..MaxRequests
    BY DispatchAssumption DEF IInv, TypeOK, Request, Dispatches
  <1>7. exchange'.todo # <<>>
    BY <1>1, <1>3, PlanesShape
  <1>8. QED
    BY <1>4, <1>5, <1>6, <1>7, StepInHand DEF IInv, TypeOK, Request

LEMMA BatchKeeps ==
  ASSUME IInv, NEW c \in Clients, RequestBatch(c)
  PROVE  IInv'
  <1> DEFINE answer == [NoAnswer EXCEPT !.status = "NotCommitted"]
  <1>1. answers' = [answers EXCEPT ![c] = answer]
    BY DEF RequestBatch, CommitStatus
  <1>2. answer \in [status : Statuses, operation : Operations \cup {"none"},
                    commits : 0..(MaxCandidates + 1), token : Nat]
    BY DispatchAssumption DEF NoAnswer, Statuses
  <1>3. requests' \in 0..MaxRequests
    BY DispatchAssumption DEF IInv, TypeOK, RequestBatch, Dispatches
  <1>4. TypeOK'
    <2>1. answers' \in [Clients -> [status : Statuses,
                                   operation : Operations \cup {"none"},
                                   commits : 0..(MaxCandidates + 1),
                                   token : Nat]]
      BY <1>1, <1>2 DEF IInv, TypeOK
    <2>2. QED
      BY <1>3, <2>1 DEF IInv, TypeOK, RequestBatch
  <1>5. answer.status = "NotCommitted" /\ answer.commits = 0
    BY DEF NoAnswer
  <1>6. StatusIsTrue'
    BY <1>1, <1>5 DEF IInv, TypeOK, StatusIsTrue
  <1>7. TokensDenoteOwn' /\ ExchangeOnTrack' /\ TokensOnTrack'
    BY DEF IInv, RequestBatch, TokensDenoteOwn, ExchangeOnTrack,
           TokensOnTrack, InDispatch
  <1>8. QED
    BY <1>4, <1>6, <1>7 DEF IInv

\* What is known of a request that asks a plane.
LEMMA AskingFacts ==
  ASSUME IInv, NEW plane, Asks(plane)
  PROVE  /\ exchange # Idle /\ exchange \in Exchanges
         /\ exchange.todo \in Seq(Planes) /\ exchange.todo # <<>>
         /\ Head(exchange.todo) = plane
         /\ Tail(exchange.todo) \in Seq(Planes)
         /\ exchange.error = "none"
  <1>1. exchange # Idle /\ exchange \in Exchanges
    BY AsksInHand DEF IInv, Asks
  <1>2. Tail(exchange.todo) \in Seq(Planes)
    BY <1>1, HeadTailProperties DEF Asks, Exchanges
  <1>3. QED
    BY <1>1, <1>2 DEF IInv, Asks, Exchanges, ExchangeOnTrack

\* A plane that is not the last leaves a write or a watch something to ask.
LEMMA NotLast ==
  ASSUME IInv, NEW plane, Asks(plane)
  PROVE  /\ exchange.operation \in Writes =>
              /\ EndsWith(Tail(exchange.todo), "store")
              /\ Tail(exchange.todo) = <<>> <=> plane = "store"
         /\ exchange.operation \in Watches =>
              /\ EndsWith(Tail(exchange.todo), "subscription")
              /\ Tail(exchange.todo) = <<>> <=> plane = "subscription"
  BY AskingFacts, TailEnds DEF IInv, ExchangeOnTrack

LEMMA ProceedKeeps ==
  ASSUME IInv, NEW plane \in Planes \ {"subscription"}, Asks(plane), Proceed,
         exchange.operation \in Writes => plane # "store",
         UNCHANGED <<answers, table, next, held, current, requests, faults,
                     restarts>>
  PROVE  IInv'
  <1>1. /\ exchange' \in Exchanges
        /\ exchange'.todo = Tail(exchange.todo)
        /\ exchange'.operation = exchange.operation
        /\ exchange'.error = exchange.error
        /\ exchange'.commits = exchange.commits
    BY AskingFacts DEF Proceed, Exchanges
  <1>2. ExchangeOnTrack'
    BY <1>1, AskingFacts, NotLast DEF IInv, ExchangeOnTrack
  <1>3. ~(exchange'.todo = <<>> /\ exchange'.operation \in Watches)
    BY <1>1, NotLast
  <1>4. QED
    BY <1>1, <1>2, <1>3, StepInHand DEF IInv, TypeOK

LEMMA PlaneAnswersKeeps == IInv /\ PlaneAnswers => IInv'
  BY ProceedKeeps DEF PlaneAnswers, Stateless, Planes

LEMMA StoreAnswersKeeps == IInv /\ StoreAnswers => IInv'
  BY ProceedKeeps DEF StoreAnswers, Planes

LEMMA StoreCommitsKeeps == IInv /\ StoreCommits => IInv'
  <1> SUFFICES ASSUME IInv, StoreCommits PROVE IInv'
    OBVIOUS
  <1>1. Asks("store") /\ exchange.operation \in Writes
    BY DEF StoreCommits
  <1>2. /\ exchange' \in Exchanges
        /\ exchange'.todo = <<>>
        /\ exchange'.operation = exchange.operation
        /\ exchange'.error = "none"
        /\ exchange'.commits = 1
    <2>1. /\ exchange \in Exchanges /\ exchange.error = "none"
          /\ Tail(exchange.todo) \in Seq(Planes)
      BY <1>1, AskingFacts
    <2>2. Tail(exchange.todo) = <<>>
      BY <1>1, NotLast
    <2>3. exchange' = [exchange EXCEPT !.todo = Tail(exchange.todo),
                                       !.commits = 1]
      BY DEF StoreCommits
    <2>4. 1 \in 0..(MaxCandidates + 1)
      BY DispatchAssumption
    <2>5. QED
      BY <2>1, <2>2, <2>3, <2>4 DEF Exchanges
  <1>3. exchange'.operation \notin Watches
    BY <1>1, <1>2 DEF Writes, Captures, Watches
  <1>4. ExchangeOnTrack'
    BY <1>1, <1>2, <1>3 DEF ExchangeOnTrack, EndsWith
  <1>5. QED
    BY <1>2, <1>3, <1>4, StepInHand DEF IInv, TypeOK, StoreCommits

LEMMA StoreRetractsCandidateKeeps == IInv /\ StoreRetractsCandidate => IInv'
  <1> SUFFICES ASSUME IInv, StoreRetractsCandidate PROVE IInv'
    OBVIOUS
  <1>1. Asks("store") /\ exchange.operation = "Collect"
    BY DEF StoreRetractsCandidate
  <1>2. /\ exchange' \in Exchanges
        /\ exchange'.todo = exchange.todo
        /\ exchange'.operation = "Collect"
        /\ exchange'.error = "none"
    BY <1>1, AskingFacts, DispatchAssumption
       DEF StoreRetractsCandidate, Exchanges
  <1>3. "Collect" \notin Writes \cup Watches
    BY DEF Writes, Captures, Watches
  <1>4. ExchangeOnTrack'
    BY <1>2, <1>3 DEF ExchangeOnTrack
  <1>5. QED
    BY <1>2, <1>3, <1>4, StepInHand DEF IInv, TypeOK, StoreRetractsCandidate

\* A command that ends in an error: only what it says of commits matters.
LEMMA FailureKeeps ==
  ASSUME IInv, exchange.todo # <<>>,
         NEW error \in {"RequestRejected", "SpiritStore", "ActorRuntime"},
         NEW commits \in 0..(MaxCandidates + 1),
         exchange' = [exchange EXCEPT !.todo = <<>>, !.error = error,
                                      !.commits = commits],
         error = "RequestRejected" => commits = 0,
         exchange.operation \notin Writes \cup {"Collect"} => commits = 0,
         UNCHANGED <<answers, table, next, held, current, requests, restarts>>,
         faults' \in 0..MaxFaults
  PROVE  IInv'
  <1>1. exchange \in Exchanges
    BY AsksInHand DEF IInv
  <1>2. /\ exchange' \in Exchanges
        /\ exchange'.todo = <<>>
        /\ exchange'.operation = exchange.operation
        /\ exchange'.error = error
        /\ exchange'.commits = commits
    <2>1. error \in Errors \cup {"none"}
      BY DEF Errors
    <2>2. <<>> \in Seq(Planes)
      OBVIOUS
    <2>3. QED
      BY <1>1, <2>1, <2>2 DEF Exchanges
  <1>3. ExchangeOnTrack'
    BY <1>2 DEF ExchangeOnTrack, EndsWith, CommitStatus
  <1>4. QED
    BY <1>2, <1>3, StepInHand DEF IInv, TypeOK

LEMMA FaultTyped ==
  ASSUME IInv, Fault
  PROVE  faults' \in 0..MaxFaults
  BY DispatchAssumption DEF IInv, TypeOK, Fault

LEMMA StoreRejectsKeeps == IInv /\ StoreRejects => IInv'
  <1> SUFFICES ASSUME IInv, StoreRejects PROVE IInv'
    OBVIOUS
  <1>1. exchange \in Exchanges /\ exchange.todo # <<>>
    BY AskingFacts DEF StoreRejects
  <1>2. exchange' = [exchange EXCEPT !.todo = <<>>, !.error = "RequestRejected",
                                     !.commits = 0]
    BY <1>1 DEF StoreRejects, Fails, Exchanges
  <1>3. faults' \in 0..MaxFaults
    BY DEF StoreRejects, IInv, TypeOK
  <1>4. 0 \in 0..(MaxCandidates + 1)
    BY DispatchAssumption
  <1>5. QED
    BY <1>1, <1>2, <1>3, <1>4, FailureKeeps DEF StoreRejects

LEMMA StoreFailsKeeps == IInv /\ StoreFails => IInv'
  <1> SUFFICES ASSUME IInv, StoreFails PROVE IInv'
    OBVIOUS
  <1>1. exchange # Idle /\ exchange \in Exchanges /\ exchange.todo # <<>>
    BY AskingFacts DEF StoreFails
  <1>2. exchange' = [exchange EXCEPT !.todo = <<>>, !.error = "SpiritStore",
                                     !.commits = exchange.commits]
    BY <1>1 DEF StoreFails, Fails, Exchanges
  <1>3. exchange.operation \notin Writes \cup {"Collect"} =>
          exchange.commits = 0
    BY <1>1 DEF IInv, ExchangeOnTrack
  <1>4. exchange.commits \in 0..(MaxCandidates + 1)
    BY <1>1 DEF Exchanges
  <1>5. QED
    BY <1>1, <1>2, <1>3, <1>4, FailureKeeps, FaultTyped DEF StoreFails

LEMMA PlaneStopsKeeps == IInv /\ PlaneStops => IInv'
  <1> SUFFICES ASSUME IInv, PlaneStops PROVE IInv'
    OBVIOUS
  <1>1. exchange # Idle /\ exchange \in Exchanges /\ exchange.todo # <<>>
    BY AsksInHand DEF PlaneStops, IInv
  <1>2. PICK commits \in IF Asks("store") /\ exchange.operation \in Writes
                           THEN {0, 1} ELSE {exchange.commits} :
          exchange' = [exchange EXCEPT !.todo = <<>>, !.error = "ActorRuntime",
                                       !.commits = commits]
    BY DEF PlaneStops
  <1>3. exchange.operation \notin Writes \cup {"Collect"} => commits = 0
    BY <1>1, <1>2 DEF IInv, ExchangeOnTrack
  <1>4. commits \in 0..(MaxCandidates + 1)
    BY <1>1, <1>2, DispatchAssumption DEF Exchanges
  <1>5. QED
    BY <1>1, <1>2, <1>3, <1>4, FailureKeeps, FaultTyped DEF PlaneStops

\* A new token is above every token that was answered, so nobody's own
\* subscription is touched.
LEMMA OpenSubscriptionKeeps == IInv /\ OpenSubscription => IInv'
  <1> SUFFICES ASSUME IInv, OpenSubscription PROVE IInv'
    OBVIOUS
  <1> DEFINE kind  == KindOf(exchange.operation)
             token == next[kind]
             opened == [t \in DOMAIN table[kind] \cup {token} |->
                          IF t = token THEN exchange.client
                                       ELSE table[kind][t]]
  <1>1. /\ Asks("subscription") /\ exchange.operation \in Watches
        /\ table' = [table EXCEPT ![kind] = opened]
        /\ next' = [next EXCEPT ![kind] = token + 1]
        /\ exchange' = [exchange EXCEPT !.todo = Tail(exchange.todo),
                                        !.token = token]
        /\ UNCHANGED <<answers, held, current, requests, faults, restarts>>
    BY DEF OpenSubscription
  <1>2. kind \in Kinds /\ token \in Nat \ {0} /\ next \in [Kinds -> Nat \ {0}]
    BY DEF KindOf, Kinds, IInv, TypeOK
  <1>3. /\ exchange' \in Exchanges
        /\ exchange'.todo = <<>>
        /\ exchange'.operation = exchange.operation
        /\ exchange'.client = exchange.client /\ exchange.client \in Clients
        /\ exchange'.error = "none"
        /\ exchange'.commits = exchange.commits
        /\ exchange'.token = token
    BY <1>1, <1>2, AskingFacts, NotLast DEF Exchanges
  <1>4. exchange.operation \notin Writes \cup {"Collect"}
    BY <1>1 DEF Watches, Writes, Captures
  <1>5. exchange.commits = 0
    BY <1>1, <1>4, AskingFacts DEF IInv, ExchangeOnTrack
  <1>6. ExchangeOnTrack'
    BY <1>3, <1>4, <1>5 DEF ExchangeOnTrack, EndsWith
  <1>7. /\ DOMAIN table' = Kinds
        /\ \A k \in Kinds : table'[k] = IF k = kind THEN opened ELSE table[k]
        /\ \A k \in Kinds : next'[k] = IF k = kind THEN token + 1 ELSE next[k]
        /\ next' \in [Kinds -> Nat \ {0}]
    BY <1>1, <1>2 DEF IInv, TypeOK
  <1>8. ASSUME NEW k \in Kinds, NEW t \in DOMAIN table'[k]
        PROVE  t \in 1..(next'[k] - 1) /\ table'[k][t] \in Clients
    <2>1. CASE k = kind
      <3>1. table'[k] = opened /\ next'[k] = token + 1
        BY <1>7, <2>1
      <3>2. CASE t = token
        BY <1>2, <1>3, <3>1, <3>2
      <3>3. CASE t # token
        <4>1. t \in DOMAIN table[kind] /\ table'[k][t] = table[kind][t]
          BY <3>1, <3>3
        <4>2. t \in 1..(token - 1) /\ table[kind][t] \in Clients
          BY <1>2, <4>1 DEF IInv, TypeOK
        <4>3. QED
          BY <1>2, <3>1, <4>1, <4>2
      <3>4. QED
        BY <3>2, <3>3
    <2>2. CASE k # kind
      BY <1>7, <2>2 DEF IInv, TypeOK
    <2>3. QED
      BY <2>1, <2>2
  <1>9. TypeOK'
    BY <1>1, <1>3, <1>7, <1>8 DEF IInv, TypeOK, Exchanges
  <1>10. StatusIsTrue'
    BY <1>1 DEF IInv, StatusIsTrue
  <1>11. ASSUME NEW c \in Clients, NEW known \in current[c]
         PROVE  /\ known[1] \in Kinds /\ known[2] \in Nat
                /\ known[2] < next[known[1]]
                /\ known[2] < next'[known[1]]
    <2>1. known \in Tokens /\ known[2] < next[known[1]]
      BY DEF IInv, TypeOK, TokensOnTrack
    <2>2. QED
      BY <1>2, <1>7, <2>1 DEF Tokens
  <1>12. TokensDenoteOwn'
    <2> SUFFICES ASSUME NEW c \in Clients, NEW known \in current[c],
                        known[2] \in DOMAIN table'[known[1]]
                 PROVE  table'[known[1]][known[2]] = c
      BY <1>1 DEF TokensDenoteOwn
    <2>1. /\ known[2] \in DOMAIN table[known[1]] =>
               table[known[1]][known[2]] = c
          /\ known[1] \in Kinds
      BY <1>11 DEF IInv, TokensDenoteOwn
    <2>2. CASE known[1] = kind
      <3>1. known[2] # token
        BY <1>2, <1>11, <2>2
      <3>2. QED
        BY <1>7, <2>1, <2>2, <3>1
    <2>3. CASE known[1] # kind
      BY <1>7, <2>1, <2>3
    <2>4. QED
      BY <2>2, <2>3
  <1>13. TokensOnTrack'
    <2>1. token \in DOMAIN table'[kind] /\ table'[kind][token] = exchange.client
      BY <1>2, <1>7
    <2>2. KindOf(exchange'.operation) = kind
      BY <1>3
    <2>3. QED
      BY <1>1, <1>3, <1>11, <2>1, <2>2 DEF TokensOnTrack
  <1>14. QED
    BY <1>6, <1>9, <1>10, <1>12, <1>13 DEF IInv

LEMMA RetractSubscriptionKeeps == IInv /\ RetractSubscription => IInv'
  <1> SUFFICES ASSUME IInv, RetractSubscription PROVE IInv'
    OBVIOUS
  <1> DEFINE kind == KindOf(exchange.operation)
             left == Restrict(table[kind], DOMAIN table[kind] \ {exchange.token})
  <1>1. /\ Asks("subscription") /\ exchange.operation \in Unwatches
        /\ table' = [table EXCEPT ![kind] = left]
        /\ exchange' = [exchange EXCEPT !.todo = Tail(exchange.todo)]
        /\ UNCHANGED <<answers, next, held, current, requests, faults,
                       restarts>>
    BY DEF RetractSubscription, Proceed
  <1>2. /\ exchange' \in Exchanges
        /\ exchange'.operation = exchange.operation
        /\ exchange'.error = "none"
        /\ exchange'.commits = exchange.commits
    BY <1>1, AskingFacts DEF Exchanges
  <1>3. exchange.operation \notin Writes \cup {"Collect"} \cup Watches
    BY <1>1 DEF Unwatches, Watches, Writes, Captures
  <1>4. exchange.commits = 0
    BY <1>1, <1>3, AskingFacts DEF IInv, ExchangeOnTrack
  <1>5. ExchangeOnTrack'
    BY <1>2, <1>3, <1>4 DEF ExchangeOnTrack
  <1>6. /\ DOMAIN table' = Kinds
        /\ \A k \in Kinds :
             /\ DOMAIN table'[k] \subseteq DOMAIN table[k]
             /\ \A t \in DOMAIN table'[k] : table'[k][t] = table[k][t]
    <2>1. /\ DOMAIN left \subseteq DOMAIN table[kind]
          /\ \A t \in DOMAIN left : left[t] = table[kind][t]
      BY DEF Restrict
    <2>2. /\ DOMAIN table' = Kinds
          /\ \A k \in Kinds : table'[k] = IF k = kind THEN left ELSE table[k]
      BY <1>1 DEF IInv, TypeOK
    <2>3. QED
      BY <2>1, <2>2
  <1>7. TypeOK'
    BY <1>1, <1>2, <1>6 DEF IInv, TypeOK, Exchanges
  <1>8. StatusIsTrue'
    BY <1>1 DEF IInv, StatusIsTrue
  <1>9. TokensDenoteOwn'
    <2> SUFFICES ASSUME NEW c \in Clients, NEW known \in current[c],
                        known[2] \in DOMAIN table'[known[1]]
                 PROVE  table'[known[1]][known[2]] = c
      BY <1>1 DEF TokensDenoteOwn
    <2>1. known[1] \in Kinds
      BY DEF IInv, TypeOK, Tokens
    <2>2. QED
      BY <1>6, <2>1 DEF IInv, TokensDenoteOwn
  <1>10. TokensOnTrack'
    BY <1>1, <1>2, <1>3 DEF IInv, TokensOnTrack
  <1>11. QED
    BY <1>5, <1>7, <1>8, <1>9, <1>10 DEF IInv

\* A plane that starts again has no subscription and nobody relies on one.
LEMMA ForgettingKeeps ==
  ASSUME IInv, ForgetSubscriptions
  PROVE  /\ next' \in [Kinds -> Nat \ {0}]
         /\ DOMAIN table' = Kinds
         /\ \A k \in Kinds : DOMAIN table'[k] = {}
         /\ current' \in [Clients -> SUBSET Tokens]
         /\ \A c \in Clients : current'[c] = {}
  BY DEF ForgetSubscriptions

LEMMA SubscriptionPlaneStopsKeeps == IInv /\ SubscriptionPlaneStops => IInv'
  <1> SUFFICES ASSUME IInv, SubscriptionPlaneStops PROVE IInv'
    OBVIOUS
  <1>1. /\ exchange # Idle /\ exchange \in Exchanges
        /\ exchange.todo # <<>> /\ exchange.error = "none"
        /\ Head(exchange.todo) = "subscription"
    BY AskingFacts DEF SubscriptionPlaneStops
  <1>2. /\ exchange' \in Exchanges
        /\ exchange'.todo = <<>>
        /\ exchange'.operation = exchange.operation
        /\ exchange'.error = "ActorRuntime"
        /\ exchange'.commits = exchange.commits
    <2>1. "ActorRuntime" \in Errors \cup {"none"} /\ <<>> \in Seq(Planes)
      BY DEF Errors
    <2>2. QED
      BY <1>1, <2>1 DEF SubscriptionPlaneStops, Fails, Exchanges
  <1>3. ExchangeOnTrack'
    BY <1>1, <1>2 DEF IInv, ExchangeOnTrack, EndsWith, CommitStatus
  <1>4. faults' \in 0..MaxFaults
    BY FaultTyped DEF SubscriptionPlaneStops
  <1>5. TypeOK'
    BY <1>2, <1>4, ForgettingKeeps
       DEF IInv, TypeOK, Exchanges, SubscriptionPlaneStops
  <1>6. StatusIsTrue'
    BY DEF IInv, StatusIsTrue, SubscriptionPlaneStops
  <1>7. TokensDenoteOwn' /\ TokensOnTrack'
    BY <1>2, ForgettingKeeps
       DEF TokensDenoteOwn, TokensOnTrack, InDispatch, SubscriptionPlaneStops
  <1>8. QED
    BY <1>3, <1>5, <1>6, <1>7 DEF IInv

\* Every answer has the fields of its type, and what its status says of the
\* request's commits is true.
LEMMA FrameReplyKeeps == IInv /\ FrameReply => IInv'
  <1> SUFFICES ASSUME IInv, FrameReply PROVE IInv'
    OBVIOUS
  <1> DEFINE status == IF exchange.error = "none" THEN "Committed"
                       ELSE CommitStatus(exchange.error)
             client == exchange.client
             answer == Answered(status)
             Answers == [status : Statuses,
                         operation : Operations \cup {"none"},
                         commits : 0..(MaxCandidates + 1), token : Nat]
  <1>1. /\ exchange # Idle /\ exchange.todo = <<>>
        /\ answers' = [answers EXCEPT ![client] = answer]
        /\ held' = [held EXCEPT ![client] = KnownTokens(held[client], status)]
        /\ current' = [current EXCEPT
                         ![client] = KnownTokens(current[client], status)]
        /\ exchange' = Idle
        /\ UNCHANGED <<table, next, requests, faults, restarts>>
    BY DEF FrameReply, InDispatch
  <1>2. /\ exchange \in Exchanges /\ client \in Clients
        /\ exchange.token \in Nat
    BY <1>1, InHand DEF IInv, Exchanges
  <1>3. /\ answer \in Answers
        /\ answer.status = status /\ answer.operation = exchange.operation
        /\ answer.commits = exchange.commits
    BY <1>2 DEF Answered, Exchanges, CommitStatus, Statuses
  <1>4. /\ status = "NotCommitted" => exchange.commits = 0
        /\ status = "Committed" => exchange.error = "none"
    BY <1>1 DEF IInv, ExchangeOnTrack, CommitStatus
  <1>5. StatusIsTrue'
    <2> SUFFICES ASSUME NEW c \in Clients
                 PROVE  /\ answers'[c].status = "NotCommitted" =>
                             answers'[c].commits = 0
                        /\ answers'[c].status = "Committed"
                             /\ answers'[c].operation \in Writes =>
                             answers'[c].commits = 1
                        /\ answers'[c].status = "Committed"
                             /\ answers'[c].operation
                                  \notin Writes \cup {"Collect"} =>
                             answers'[c].commits = 0
      BY DEF StatusIsTrue
    <2>1. CASE c = client
      <3>1. answers'[c] = answer
        BY <1>1, <2>1 DEF IInv, TypeOK
      <3>2. /\ exchange.operation \notin Writes \cup {"Collect"} =>
                 exchange.commits = 0
            /\ exchange.operation \in Writes /\ exchange.error = "none" =>
                 exchange.commits = 1
        BY <1>1 DEF IInv, ExchangeOnTrack
      <3>3. QED
        BY <1>3, <1>4, <3>1, <3>2
    <2>2. CASE c # client
      <3>1. answers'[c] = answers[c]
        BY <1>1, <2>2 DEF IInv, TypeOK
      <3>2. QED
        BY <3>1 DEF IInv, StatusIsTrue
    <2>3. QED
      BY <2>1, <2>2
  <1>6. /\ answers' \in [Clients -> Answers]
        /\ \A c \in Clients : c # client => current'[c] = current[c]
        /\ current'[client] = KnownTokens(current[client], status)
    BY <1>1, <1>2, <1>3 DEF IInv, TypeOK
  <1> DEFINE this == <<KindOf(exchange.operation), exchange.token>>
  <1>7. ASSUME NEW tokens, NEW known \in KnownTokens(tokens, status)
        PROVE  \/ known \in tokens
               \/ /\ known = this /\ exchange.operation \in Watches
                  /\ exchange.error = "none"
    BY <1>4, <1>7 DEF KnownTokens
  <1>8. exchange.operation \in Watches /\ exchange.error = "none" =>
          /\ this \in Tokens
          /\ this[2] < next[this[1]]
          /\ this[2] \in DOMAIN table[this[1]]
          /\ table[this[1]][this[2]] = client
    <2> SUFFICES ASSUME exchange.operation \in Watches, exchange.error = "none"
                 PROVE  /\ this \in Tokens
                        /\ this[2] < next[this[1]]
                        /\ this[2] \in DOMAIN table[this[1]]
                        /\ table[this[1]][this[2]] = client
      OBVIOUS
    <2>1. /\ this[2] \in DOMAIN table[this[1]]
          /\ table[this[1]][this[2]] = client
      BY <1>1 DEF IInv, TokensOnTrack, InDispatch
    <2>2. this[1] \in Kinds
      BY DEF KindOf, Kinds
    <2>3. this[2] \in 1..(next[this[1]] - 1) /\ next[this[1]] \in Nat
      BY <2>1, <2>2 DEF IInv, TypeOK
    <2>4. QED
      BY <2>1, <2>2, <2>3 DEF Tokens
  <1>9. /\ held' \in [Clients -> SUBSET Tokens]
        /\ current' \in [Clients -> SUBSET Tokens]
    <2>1. /\ KnownTokens(held[client], status) \subseteq Tokens
          /\ KnownTokens(current[client], status) \subseteq Tokens
      BY <1>2, <1>7, <1>8 DEF IInv, TypeOK
    <2>2. QED
      BY <1>1, <2>1 DEF IInv, TypeOK
  <1>10. TypeOK'
    BY <1>1, <1>6, <1>9 DEF IInv, TypeOK
  <1>11. ASSUME NEW c \in Clients, NEW known \in current'[c]
         PROVE  /\ known[2] < next[known[1]]
                /\ known[2] \in DOMAIN table[known[1]] =>
                     table[known[1]][known[2]] = c
    <2>1. CASE known \in current[c]
      BY <2>1 DEF IInv, TokensOnTrack, TokensDenoteOwn
    <2>2. CASE known \notin current[c]
      <3>1. c = client /\ known \in KnownTokens(current[client], status)
        BY <1>6, <1>11, <2>2
      <3>2. QED
        BY <1>7, <1>8, <2>2, <3>1
    <2>3. QED
      BY <2>1, <2>2
  <1>12. TokensDenoteOwn' /\ TokensOnTrack' /\ ExchangeOnTrack'
    BY <1>1, <1>11
       DEF TokensDenoteOwn, TokensOnTrack, ExchangeOnTrack, InDispatch
  <1>13. QED
    BY <1>5, <1>10, <1>12 DEF IInv

LEMMA LoseReplyKeeps == IInv /\ LoseReply => IInv'
  <1> SUFFICES ASSUME IInv, LoseReply PROVE IInv'
    OBVIOUS
  <1>1. /\ answers' = [answers EXCEPT ![exchange.client] = NoAnswer]
        /\ exchange' = Idle
        /\ UNCHANGED <<table, next, held, current, requests, restarts>>
    BY DEF LoseReply
  <1>2. NoAnswer \in [status : Statuses, operation : Operations \cup {"none"},
                      commits : 0..(MaxCandidates + 1), token : Nat]
    BY DispatchAssumption DEF NoAnswer, Statuses
  <1>3. faults' \in 0..MaxFaults
    BY FaultTyped DEF LoseReply
  <1>4. TypeOK'
    BY <1>1, <1>2, <1>3 DEF IInv, TypeOK
  <1>5. NoAnswer.status = "none"
    BY DEF NoAnswer
  <1>6. StatusIsTrue'
    BY <1>1, <1>5 DEF IInv, TypeOK, StatusIsTrue
  <1>7. TokensDenoteOwn' /\ ExchangeOnTrack' /\ TokensOnTrack'
    BY <1>1 DEF IInv, TokensDenoteOwn, ExchangeOnTrack, TokensOnTrack,
                InDispatch
  <1>8. QED
    BY <1>4, <1>6, <1>7 DEF IInv

LEMMA RestartKeeps == IInv /\ Restart => IInv'
  <1> SUFFICES ASSUME IInv, Restart PROVE IInv'
    OBVIOUS
  <1>1. /\ answers' = answers
             \/ answers' = [answers EXCEPT ![exchange.client] = NoAnswer]
        /\ exchange' = Idle
        /\ UNCHANGED <<held, requests, faults>>
    BY DEF Restart
  <1>2. NoAnswer \in [status : Statuses, operation : Operations \cup {"none"},
                      commits : 0..(MaxCandidates + 1), token : Nat]
    BY DispatchAssumption DEF NoAnswer, Statuses
  <1>3. restarts' \in 0..MaxRestarts
    BY DispatchAssumption DEF IInv, TypeOK, Restart
  <1>4. TypeOK'
    BY <1>1, <1>2, <1>3, ForgettingKeeps DEF IInv, TypeOK, Restart
  <1>5. NoAnswer.status = "none"
    BY DEF NoAnswer
  <1>6. StatusIsTrue'
    BY <1>1, <1>5 DEF IInv, TypeOK, StatusIsTrue
  <1>7. TokensDenoteOwn' /\ ExchangeOnTrack' /\ TokensOnTrack'
    BY <1>1, ForgettingKeeps
       DEF TokensDenoteOwn, ExchangeOnTrack, TokensOnTrack, InDispatch, Restart
  <1>8. QED
    BY <1>4, <1>6, <1>7 DEF IInv

LEMMA NextKeeps == IInv /\ [Next]_vars => IInv'
  <1>1. IInv /\ UNCHANGED vars => IInv'
    BY DEF vars, IInv, TypeOK, StatusIsTrue, TokensDenoteOwn, ExchangeOnTrack,
           TokensOnTrack, InDispatch
  <1>2. IInv /\ Serve => IInv'
    BY PlaneAnswersKeeps, StoreCommitsKeeps, StoreRetractsCandidateKeeps,
       StoreAnswersKeeps, OpenSubscriptionKeeps, RetractSubscriptionKeeps,
       StoreRejectsKeeps, StoreFailsKeeps, PlaneStopsKeeps,
       SubscriptionPlaneStopsKeeps, FrameReplyKeeps, LoseReplyKeeps
       DEF Serve
  <1>3. QED
    BY <1>1, <1>2, RequestKeeps, BatchKeeps, RestartKeeps DEF Next

\* IInv holds of every behaviour of dispatch and its planes.
THEOREM Inductive == Spec => []IInv
  BY InitInv, NextKeeps, PTL DEF Spec

\* Every variable keeps the shape its Rust type gives it (the exchange of
\* route_frame, the answers framed, the tables of SubscriptionPlane).
THEOREM TypeCorrect == Spec => []TypeOK
  <1>1. IInv => TypeOK
    BY DEF IInv
  <1>2. QED
    BY <1>1, Inductive, PTL

\* The commit status a client is told is true of the store, whichever plane
\* failed on the way (commit_status of BatchErrorClassification and the
\* error kept beside the reply in route_frame).
THEOREM StatusesAreTrue == Spec => []StatusIsTrue
  <1>1. IInv => StatusIsTrue
    BY DEF IInv
  <1>2. QED
    BY <1>1, Inductive, PTL

\* A token answered since the subscription plane started never names
\* another client's subscription (open_state, open_records and the counters
\* of SubscriptionIdentifiers).
THEOREM TokensAreOwn == Spec => []TokensDenoteOwn
  <1>1. IInv => TokensDenoteOwn
    BY DEF IInv
  <1>2. QED
    BY <1>1, Inductive, PTL
==============================================================================
