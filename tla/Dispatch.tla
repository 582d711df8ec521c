------------------------------- MODULE Dispatch -------------------------------
(***************************************************************************)
(* DispatchPhase and the planes behind it: one ordinary request at a time  *)
(* is lowered to a command, the command asks its planes one after another, *)
(* and an error is kept beside the runner's reply until the reply is       *)
(* framed.  The store is here only as the commits a request makes; the     *)
(* subscription plane keeps its tables.                                    *)
(*                                                                         *)
(* DispatchPhase, SpiritRoot and RecordStore each handle one message to    *)
(* its end before the next, so requests do not interleave; what can happen *)
(* between two asks is that a plane fails or the process stops.            *)
(***************************************************************************)
EXTENDS Integers, FiniteSets, Sequences, Functions

CONSTANTS
  Clients,        \* clients of the ordinary socket
  Operations,     \* operations they ask for
  MaxRequests,    \* bound: requests dispatched
  MaxCandidates,  \* bound: records one collection retracts
  MaxFaults,      \* bound: failures in a behaviour
  MaxRestarts     \* bound: restarts in a behaviour

VARIABLES
  exchange,   \* the request in dispatch, or Idle
  answers,    \* the last answer each client has, with the commits its request
              \* made (history)
  table,      \* SubscriptionPlane: kind -> token -> client (the client is
              \* history; the plane keeps the snapshot or subscription)
  next,       \* SubscriptionIdentifiers, kind -> next token
  held,       \* tokens each client has been answered and not closed
  current,    \* those among them answered since the plane started
  requests,   \* requests dispatched so far
  faults,     \* failures so far
  restarts    \* restarts so far

vars == <<exchange, answers, table, next, held, current,
          requests, faults, restarts>>

-----------------------------------------------------------------------------
(* Data *)

\* Operations that make one commit when they succeed; a collection makes one
\* for every candidate.
Captures == {"State", "Record"}
Writes == Captures \cup {"Remove", "ChangeCertainty", "ChangeRecord"}
Reads == {"ObserveRecords", "ObserveRecordIdentifiers", "ObserveTopics"}
StateReads == {"ObserveState", "ObserveQuestions"}
Watches == {"WatchState", "WatchRecords"}
Unwatches == {"UnwatchState", "UnwatchRecords"}
Taps == {"Tap", "Untap"}

AllOperations ==
  Writes \cup {"Collect"} \cup Reads \cup StateReads \cup Watches
    \cup Unwatches \cup Taps

Planes == {"classifier", "clock", "store", "state", "subscription", "shaper"}

Kinds == {"state", "records"}

KindOf(operation) ==
  IF operation \in {"WatchState", "UnwatchState"} THEN "state" ELSE "records"

ASSUME DispatchAssumption ==
  /\ Operations \subseteq AllOperations
  /\ MaxRequests \in Nat
  /\ MaxCandidates \in Nat
  /\ MaxFaults \in Nat
  /\ MaxRestarts \in Nat

\* The planes execute_command asks, in order: one does the work, and what it
\* needs is asked for before.
PlanesBefore(operation) ==
  IF operation = "State" THEN <<"classifier", "clock">>
  ELSE IF operation = "Record" THEN <<"clock">>
  ELSE IF operation = "WatchState" THEN <<"state">>
  ELSE IF operation = "WatchRecords" THEN <<"store">>
  ELSE <<>>

LastPlane(operation) ==
  IF operation \in Watches \cup Unwatches THEN "subscription"
  ELSE IF operation \in StateReads THEN "state"
  ELSE IF operation \in Taps THEN "shaper"
  ELSE "store"

PlanesFor(operation) == Append(PlanesBefore(operation), LastPlane(operation))

Errors == {"RequestRejected", "SpiritStore", "ActorRuntime",
           "UnsupportedAtomicBatch"}

\* Mutant: an engine error is taken to leave the store alone.
CommitStatusOptimistic(error) ==
  IF error = "ActorRuntime" THEN "Unknown" ELSE "NotCommitted"

\* BatchErrorClassification::commit_status
CommitStatus(error) ==
  IF error \in {"SpiritStore", "ActorRuntime"} THEN "Unknown"
                                               ELSE "NotCommitted"

\* Token 0 stands for none.
NoAnswer == [status |-> "none", operation |-> "none", commits |-> 0, token |-> 0]

Statuses == {"none", "Committed", "NotCommitted", "Unknown"}

Idle == [client |-> "none", operation |-> "none", token |-> 0, todo |-> <<>>,
         commits |-> 0, error |-> "none"]

Init ==
  /\ exchange = Idle
  /\ answers = [c \in Clients |-> NoAnswer]
  /\ table = [k \in Kinds |-> <<>>]
  /\ next = [k \in Kinds |-> 1]
  /\ held = [c \in Clients |-> {}]
  /\ current = [c \in Clients |-> {}]
  /\ requests = 0
  /\ faults = 0
  /\ restarts = 0

-----------------------------------------------------------------------------
(* Requests *)

Dispatches == exchange = Idle /\ requests < MaxRequests /\ requests' = requests + 1

TokensOf(c, kind) == {known[2] : known \in {h \in held[c] : h[1] = kind}}

\* A request of one operation is lowered to its command.  A client closes
\* the subscriptions it was told of, in this process or an earlier one.
Request(c, operation) ==
  /\ Dispatches
  /\ \E token \in IF operation \in Unwatches THEN TokensOf(c, KindOf(operation))
                                               ELSE {0} :
       exchange' = [client |-> c, operation |-> operation, token |-> token,
                    todo |-> PlanesFor(operation), commits |-> 0,
                    error |-> "none"]
  /\ UNCHANGED <<answers, table, next, held, current, faults, restarts>>

Answered(status) ==
  [status |-> status, operation |-> exchange.operation,
   commits |-> exchange.commits, token |-> exchange.token]

\* A request of several operations is aborted before any of them.
RequestBatch(c) ==
  /\ Dispatches
  /\ answers' = [answers EXCEPT ![c] =
       [NoAnswer EXCEPT !.status = CommitStatus("UnsupportedAtomicBatch")]]
  /\ UNCHANGED <<exchange, table, next, held, current, faults, restarts>>

-----------------------------------------------------------------------------
(* Planes *)

Asks(plane) == exchange.todo # <<>> /\ Head(exchange.todo) = plane

Proceed == exchange' = [exchange EXCEPT !.todo = Tail(@)]

Stateless == {"classifier", "clock", "state", "shaper"}

\* A statement classified, an entry stamped, the state read, a reply shaped.
PlaneAnswers ==
  /\ \E plane \in Stateless : Asks(plane)
  /\ Proceed
  /\ UNCHANGED <<answers, table, next, held, current, requests, faults, restarts>>

\* A capture, removal or change is one commit.
StoreCommits ==
  /\ Asks("store")
  /\ exchange.operation \in Writes
  /\ exchange' = [exchange EXCEPT !.todo = Tail(@), !.commits = 1]
  /\ UNCHANGED <<answers, table, next, held, current, requests, faults, restarts>>

\* One retraction of a collection.
StoreRetractsCandidate ==
  /\ Asks("store")
  /\ exchange.operation = "Collect"
  /\ exchange.commits < MaxCandidates
  /\ exchange' = [exchange EXCEPT !.commits = @ + 1]
  /\ UNCHANGED <<answers, table, next, held, current, requests, faults, restarts>>

\* A read, the snapshot of a subscription, or a collection that is done.
StoreAnswers ==
  /\ Asks("store")
  /\ exchange.operation \notin Writes
  /\ Proceed
  /\ UNCHANGED <<answers, table, next, held, current, requests, faults, restarts>>

\* Mutant: the next token is counted from the live subscriptions.
OpenSubscriptionBySize ==
  /\ Asks("subscription")
  /\ exchange.operation \in Watches
  /\ LET kind  == KindOf(exchange.operation)
         token == Cardinality(DOMAIN table[kind]) + 1
     IN  /\ table' = [table EXCEPT ![kind] =
                        [t \in DOMAIN @ \cup {token} |->
                           IF t = token THEN exchange.client ELSE @[t]]]
         /\ exchange' = [exchange EXCEPT !.todo = Tail(@), !.token = token]
  /\ UNCHANGED <<answers, next, held, current, requests, faults, restarts>>

\* open_state, open_records
OpenSubscription ==
  /\ Asks("subscription")
  /\ exchange.operation \in Watches
  /\ LET kind  == KindOf(exchange.operation)
         token == next[kind]
     IN  /\ table' = [table EXCEPT ![kind] =
                        [t \in DOMAIN @ \cup {token} |->
                           IF t = token THEN exchange.client ELSE @[t]]]
         /\ next' = [next EXCEPT ![kind] = @ + 1]
         /\ exchange' = [exchange EXCEPT !.todo = Tail(@), !.token = token]
  /\ UNCHANGED <<answers, held, current, requests, faults, restarts>>

\* retract_state, retract_records: acknowledged whether or not the token
\* names a subscription, whoever asks.
RetractSubscription ==
  /\ Asks("subscription")
  /\ exchange.operation \in Unwatches
  /\ table' = [table EXCEPT ![KindOf(exchange.operation)] =
                 Restrict(@, DOMAIN @ \ {exchange.token})]
  /\ Proceed
  /\ UNCHANGED <<answers, next, held, current, requests, faults, restarts>>

-----------------------------------------------------------------------------
(* Failures: the command ends and its error becomes last_error. *)

Fails(error) == exchange' = [exchange EXCEPT !.todo = <<>>, !.error = error]

Fault == faults < MaxFaults /\ faults' = faults + 1

\* Topics, a missing record, or a collection query the store refuses, all
\* before any commit.  A classified statement has one topic, and a removal
\* does not look first.
StoreRejects ==
  /\ Asks("store")
  /\ exchange.operation \in (Writes \ {"State", "Remove"}) \cup {"Collect"}
  /\ exchange.commits = 0
  /\ Fails("RequestRejected")
  /\ UNCHANGED <<answers, table, next, held, current, requests, faults, restarts>>

\* An engine call fails, for a removal also when nothing is stored there; of
\* a collection some retractions may have been committed.
StoreFails ==
  /\ Asks("store")
  /\ Fault
  /\ Fails("SpiritStore")
  /\ UNCHANGED <<answers, table, next, held, current, requests, restarts>>

\* The plane's actor stops before it handles the message, or once it has
\* and before it answers: the send error is all dispatch learns.
PlaneStops ==
  /\ exchange.todo # <<>> /\ ~Asks("subscription")
  /\ Fault
  /\ \E commits \in IF Asks("store") /\ exchange.operation \in Writes
                      THEN {0, 1} ELSE {exchange.commits} :
       exchange' = [exchange EXCEPT !.todo = <<>>, !.error = "ActorRuntime",
                                    !.commits = commits]
  /\ UNCHANGED <<answers, table, next, held, current, requests, restarts>>

\* A plane that starts has no subscriptions and counts from 1.
ForgetSubscriptions ==
  /\ table' = [k \in Kinds |-> <<>>]
  /\ next' = [k \in Kinds |-> 1]
  /\ current' = [c \in Clients |-> {}]

\* The root's supervision starts the plane again from its default arguments.
SubscriptionPlaneStops ==
  /\ Asks("subscription")
  /\ Fault
  /\ Fails("ActorRuntime")
  /\ ForgetSubscriptions
  /\ UNCHANGED <<answers, held, requests, restarts>>

-----------------------------------------------------------------------------
(* Replies *)

InDispatch == exchange # Idle /\ exchange.todo = <<>>

KnownTokens(tokens, status) ==
  LET this == <<KindOf(exchange.operation), exchange.token>>
  IN  IF status # "Committed" THEN tokens
      ELSE IF exchange.operation \in Watches THEN tokens \cup {this}
      ELSE IF exchange.operation \in Unwatches THEN tokens \ {this}
      ELSE tokens

\* Mutant: a failed command leaves the client without a reply.
FrameReplyOnSuccess ==
  /\ InDispatch
  /\ exchange.error = "none"
  /\ answers' = [answers EXCEPT ![exchange.client] = Answered("Committed")]
  /\ held' = [held EXCEPT ![exchange.client] = KnownTokens(@, "Committed")]
  /\ current' = [current EXCEPT ![exchange.client] = KnownTokens(@, "Committed")]
  /\ exchange' = Idle
  /\ UNCHANGED <<table, next, requests, faults, restarts>>

\* take_last_error: the runner's reply is committed, unless an error was kept
\* beside it; then the batch is aborted with what is known of its commits.
FrameReply ==
  /\ InDispatch
  /\ LET status == IF exchange.error = "none" THEN "Committed"
                                              ELSE CommitStatus(exchange.error)
     IN  /\ answers' = [answers EXCEPT ![exchange.client] = Answered(status)]
         /\ held' = [held EXCEPT ![exchange.client] = KnownTokens(@, status)]
         /\ current' = [current EXCEPT ![exchange.client] =
                          KnownTokens(@, status)]
  /\ exchange' = Idle
  /\ UNCHANGED <<table, next, requests, faults, restarts>>

\* The client is gone or its connection fails: nobody learns the outcome.
LoseReply ==
  /\ InDispatch
  /\ Fault
  /\ answers' = [answers EXCEPT ![exchange.client] = NoAnswer]
  /\ exchange' = Idle
  /\ UNCHANGED <<table, next, held, current, requests, restarts>>

\* The process stops and starts again: subscriptions and their counters are
\* in memory, what is committed is not.
Restart ==
  /\ restarts < MaxRestarts
  /\ restarts' = restarts + 1
  /\ answers' = IF exchange = Idle THEN answers
                ELSE [answers EXCEPT ![exchange.client] = NoAnswer]
  /\ exchange' = Idle
  /\ ForgetSubscriptions
  /\ UNCHANGED <<held, requests, faults>>

\* What dispatch and the planes do by themselves for the request in hand.
Serve ==
  \/ PlaneAnswers
  \/ StoreCommits
  \/ StoreRetractsCandidate
  \/ StoreAnswers
  \/ OpenSubscription
  \/ RetractSubscription
  \/ StoreRejects
  \/ StoreFails
  \/ PlaneStops
  \/ SubscriptionPlaneStops
  \/ FrameReply
  \/ LoseReply

Next ==
  \/ \E c \in Clients, operation \in Operations : Request(c, operation)
  \/ \E c \in Clients : RequestBatch(c)
  \/ Serve
  \/ Restart

Spec == Init /\ [][Next]_vars

\* The actors keep running.
FairSpec == Spec /\ WF_vars(Serve)

-----------------------------------------------------------------------------
(* Properties *)

Tokens == Kinds \X (Nat \ {0})

\* Every variable stays in the shape its Rust type gives it; tokens are
\* numbered from 1.
TypeOK ==
  /\ exchange \in {Idle} \cup
       [client : Clients, operation : Operations, token : Nat,
        todo : Seq(Planes), commits : 0..(MaxCandidates + 1),
        error : Errors \cup {"none"}]
  /\ answers \in [Clients -> [status : Statuses,
                              operation : Operations \cup {"none"},
                              commits : 0..(MaxCandidates + 1), token : Nat]]
  /\ next \in [Kinds -> Nat \ {0}]
  /\ DOMAIN table = Kinds
  /\ \A k \in Kinds : \A t \in DOMAIN table[k] :
       t \in 1..(next[k] - 1) /\ table[k][t] \in Clients
  /\ held \in [Clients -> SUBSET Tokens]
  /\ current \in [Clients -> SUBSET Tokens]
  /\ requests \in 0..MaxRequests
  /\ faults \in 0..MaxFaults
  /\ restarts \in 0..MaxRestarts

\* The commit status of an answer is true of the store, whatever failed on
\* the way: NotCommitted means the request made no commit, Committed means
\* a write made its one commit and a read, watch or unwatch none.
StatusIsTrue ==
  \A c \in Clients :
    LET answer == answers[c]
    IN  /\ answer.status = "NotCommitted" => answer.commits = 0
        /\ answer.status = "Committed" /\ answer.operation \in Writes =>
             answer.commits = 1
        /\ answer.status = "Committed"
             /\ answer.operation \notin Writes \cup {"Collect"} =>
             answer.commits = 0

\* A token answered since the plane started is its client's: the
\* subscription it names, as long as there is one, is the one that client
\* opened, however many were opened and closed or left open meanwhile.
TokensDenoteOwn ==
  \A c \in Clients : \A held_token \in current[c] :
    LET kind == held_token[1]
        t    == held_token[2]
    IN  t \in DOMAIN table[kind] => table[kind][t] = c

\* A request taken into dispatch is answered, or its client or its process
\* is gone: no failure of a plane leaves dispatch busy for ever.
ExchangesEnd == exchange # Idle ~> exchange = Idle

-----------------------------------------------------------------------------
(* The strengthening of StatusIsTrue and TokensDenoteOwn that every step     *)
(* preserves.                                                                *)

\* The plane is the last one to be asked, and asked once.
EndsWith(todo, plane) ==
  \A i \in 1..Len(todo) : todo[i] = plane <=> i = Len(todo)

\* What a command has done by the planes it has still to ask and the error
\* it has met.
ExchangeOnTrack ==
  exchange # Idle =>
    /\ exchange.operation \in Writes => EndsWith(exchange.todo, "store")
    /\ exchange.operation \in Watches =>
         EndsWith(exchange.todo, "subscription")
    /\ exchange.todo # <<>> => exchange.error = "none"
    /\ CommitStatus(exchange.error) = "NotCommitted" /\ exchange.error # "none"
         => exchange.commits = 0
    /\ exchange.operation \notin Writes \cup {"Collect"} => exchange.commits = 0
    /\ exchange.operation \in Writes /\ exchange.error = "none" =>
         exchange.commits = IF exchange.todo = <<>> THEN 1 ELSE 0

\* A subscription that was opened is its client's until it is closed, and
\* tokens that were answered are below the counter.
TokensOnTrack ==
  /\ InDispatch /\ exchange.operation \in Watches /\ exchange.error = "none" =>
       LET kind == KindOf(exchange.operation)
       IN  /\ exchange.token \in DOMAIN table[kind]
           /\ table[kind][exchange.token] = exchange.client
  /\ \A c \in Clients : \A held_token \in current[c] :
       held_token[2] < next[held_token[1]]

IInv ==
  /\ TypeOK
  /\ StatusIsTrue
  /\ TokensDenoteOwn
  /\ ExchangeOnTrack
  /\ TokensOnTrack
==============================================================================
