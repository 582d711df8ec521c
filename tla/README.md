# persona-spirit in TLA+

A verification project for the Spirit daemon: TLA+ modules translated from the
Rust source, TLC configurations that check them on small instances, and TLAPS
proofs of what matters most for every value of the constants. Paths below are
relative to the repository root.

```
tlc -workers 2 -config Handover.cfg MCHandover.tla     # model-check
tlapm Handover_proofs.tla                              # prove
```

## 1. The system

`persona-spirit-daemon` keeps *records* (intent entries: topics, kind, text,
certainty, privacy, stamped with date and time) in a sema-engine database and
serves them over Unix sockets. Every socket has a server thread; all of them ask
one actor, `SpiritRoot`, which is serial: it finishes a message, with every
question it asks of its children, before it takes the next. Persona, the
supervisor (another repository), replaces one daemon by another of a newer
version over the private upgrade socket.

| Component | State | Operations | Talks to |
|---|---|---|---|
| Server threads, `src/daemon.rs` | the exchange each is in | accept, read a frame, ask the root, write the reply; one exchange at a time per thread | root by `ask`; the gate |
| Public-socket gate, `PublicSockets` | one atomic: Active, HandoverMode, Closed; two socket files | `accepts_request`, `accepts_meta_request`, enter, leave, `close` | read by the ordinary and meta threads, written by the upgrade thread |
| `SpiritRoot`, `src/actors/root.rs` | `HandoverState` | frame, meta and upgrade requests | dispatch, meta plane, store |
| `DispatchPhase`, `src/actors/dispatch.rs` | the error of the operation it runs | one command per request | classifier, clock, store, state, subscription |
| `RecordStore`, `src/actors/store.rs`, `src/store.rs` | records table, commit log, archive databases (all durable) | capture, remove, change, collect, observe, read the handover marker | sema-engine |
| `MetaPlane`, `PolicyPlane` | generation, identities, bootstrap policy (memory only) | Start, Drain, Reload, Register, Retire | the policy file |
| `PersonaDaemon`, `BoundDaemon` | listeners, four socket files, the root's life | bind, serve for ever or a number of exchanges, shut down | the file system, other processes on the same configuration |
| `RecordIdentifierMint` | none; it sees the live identifiers | next identifier | the store, the migrations |
| `ClockPlane`, handover clock | none; they read the system's clock | a date and a time of day | dispatch, root |
| `SubscriptionPlane` | open subscriptions, next tokens (memory only) | open, retract | - |
| `StatePlane`, classifier, text planes, trace | none that changes | pure functions around the above | - |
| Migrations, `src/migration.rs` | source store, target store, sidecar file | five programs run by an operator with no daemon running | sema-engine, file system |
| Engine management | none | constant answers | - |
| Clients, command line | none | one request, one reply | - |

What is hard, and what would make each component correct:

* **Handover.** The state is in three places (actor, atomic, file system),
  changed in three steps, and read by threads between them. Persona's messages
  can be repeated, late, or in any order, and either process can die. *Correct*:
  a daemon retires only when its successor holds every commit; the gate follows
  the root; a retired daemon never opens again; few operations outrun a freeze.
* **Record store.** Collecting removal candidates is a sequence of commits in
  two databases with a fallback, no transaction around it, and a failure or a
  crash between any two. *Correct*: nothing is retracted that was not captured
  as it stood; nothing captured is lost; only exact-Zero public records go;
  replies are true.
* **Migrations.** One durable write per record, a table written last, and an
  operator who runs the program again. *Correct*: a run that reports success
  moved everything, the table is true, and no run overwrites a target.
* **Queries.** Recency is a stamp of a clock that can be set back, with ties
  broken by the first assertion of a key in the whole commit log; the catalog
  and the queries walk the table separately. *Correct*: a window holds the
  newest matching records; maintenance does not reorder; catalog and queries
  agree.
* **Dispatch and subscriptions.** A request asks up to three actors in turn, any
  of which can fail or stop before or after it has done its work; the error and
  the reply travel separately; tokens are counters in memory. *Correct*: the
  commit status in a reply is true; every request ends; a token never names
  another client's subscription.
* **Meta and policy planes.** Meta exchanges of several operations interleave
  with each other's effects, a handover and failures of either plane, and Reload
  reads a file anybody may write. *Correct*: the identities are what the last
  orders say; a policy in force survives an unreadable file.
* **Serving.** A start is three passes over the socket files, by name, with no
  lock; a failed or killed process leaves them behind; a finalized one removes
  two of them and goes on; each thread blocks in a read of one client.
  *Correct*: nobody is answered before the root has started; leftovers block no
  start; a daemon is where each of its files says until another process is at
  that file; an upgrade exchange ends whatever the other clients do.
* **Mint.** Ranges of code lengths by powers of 36, the shortest padded with
  zeros; random draws, then a scan. *Correct*: the ranges adjoin; the answer is
  unused and of the shortest length that has one; it fails only when all are
  used.
* **Calendar.** Eras of 400 years, an underflow clamped, years cast to 16 bits.
  *Correct*: it is the Gregorian calendar, and later seconds have later
  readings, or recency and time ranges are wrong.

`PROJECT.json` lists every component, modelled or not, and the hazards at their
lines with the properties that would catch each.

## 2. Modules

| Module | Models | EXTENDS / INSTANCE |
|---|---|---|
| `Cutover` | abstract: what a daemon promises its successor | - |
| `Handover` | server threads, gate, root's handover state, commit sequence | INSTANCE `Cutover` |
| `MCHandover` | requests for TLC | `Handover` |
| `Listing` | pure: sorted and filtered lists | - |
| `Listing_proofs` | theorems | `Listing`, TLAPS |
| `MetaPlane` | generation, identities, policy and policy file under `Handover`'s meta requests | `Handover`, `Listing` |
| `MCMetaPlane` | requests for TLC | `MetaPlane` |
| `Handover_proofs` | theorems, also about the planes | `MetaPlane`, `Listing_proofs`, TLAPS |
| `RecordStore` | records, commit log, archives, collection step by step | - |
| `MCRecordStore` | topics and symmetry for TLC | `RecordStore` |
| `RecordStore_proofs` | theorems | `RecordStore`, TLAPS |
| `CivilDate` | pure: date and time of day of a Unix second, and a reference calendar | - |
| `CivilDate_proofs` | theorems | `CivilDate`, TLAPS |
| `RecordQuery` | stamps, filters, ranges, windows, topic counts over the store | `RecordStore`, `CivilDate`, `Listing` |
| `MCRecordQuery` | clock, windows, queries and topics for TLC; the calendar of an era | `RecordQuery` |
| `RecordQuery_proofs` | theorems | `RecordQuery`, `RecordStore_proofs`, `CivilDate_proofs`, `Listing_proofs`, TLAPS |
| `Dispatch` | one request at a time through its planes, errors, tokens | - |
| `MCDispatch` | the operations for TLC | `Dispatch` |
| `Dispatch_proofs` | theorems | `Dispatch`, TLAPS |
| `RecordIdentifierMint` | pure: ranges, draws, scan and order of the code lengths | - |
| `Migration` | the five migrations, minting with it | `RecordIdentifierMint`, `Listing` |
| `MCMigration` | sources and targets for TLC | `Migration` |
| `Migration_proofs` | theorems, also about the mint | `Migration`, `Listing_proofs`, TLAPS |
| `Serving` | processes, socket files, listeners, server threads, clients | `Listing` |
| `MCServing` | sockets, processes and clients for TLC | `Serving` |
| `Serving_proofs` | theorems | `Serving`, `Listing_proofs`, TLAPS |

Definitions marked "Mutant" are plausible bugs. No specification uses them;
`PROJECT.json` pairs each with the property that must fail when it replaces the
definition that follows it.

### Listing

The code sorts records (`sort_by_key`, in queries and migrations) and filters
lists in place (`retain`, in the meta plane and wherever two of the socket files
are picked from all). `InOrder` and `Retained` say what comes out by rank: the
member at place k is the one that k - 1 others precede. An order is a set of
pairs, so that one definition serves every key.

### Handover and Cutover

`handover` is `SpiritRoot.handover`; `public` is the atomic of `PublicSockets`
and `paths` the two files `close` removes; `commit` stands for the store.
`ordinary`, `meta` and `upgrade` are the exchanges of the threads. A step is
what a thread does between two accesses to shared state:

| Code | Action |
|---|---|
| read a frame and load the atomic (`serve_ordinary_stream`) | `ReceiveOrdinary` |
| the root's handler for a frame, dispatch and store included | `SubmitFrameRequest` |
| write the reply, or drop it | `ReplyOrdinary` |
| meta: gate once, ask per operation, reply | `ReceiveMeta`, `SubmitMetaRequest`, `ReplyMeta` |
| upgrade: read a frame | `ReceiveUpgrade` |
| one arm of `submit_upgrade_request` | `AskHandoverMarker`, `ReadyToHandover`, `HandoverCompleted`, `Mirror`, `Divergence`, `RecoverFromFailure` |
| `reply_to_operation` stores the atomic | `FollowReply` |
| `close` removes the files | `RemovePaths` |
| process stops, is started again | `Restart` |

An ask of the store can fail in four of these arms. The handler then returns an
error, the connection is dropped with no reply, and the operations that come
after it in the request are not asked (`StoreAskFails`). A `Mirror` asks twice:
it may have committed when its second ask, for the marker, fails.

`Cutover` has no threads: a commit that grows, a phase, and the commit the
successor copied. `RefinesCutover` is `Cutover!Spec` under `phase <-
handover.mode` with the history variable `copied`. `copied` and `stragglers` are
history variables; no guard reads them.

Abstracted: working operations by what the gate and the root tell apart (read,
write, subscribe); the component name and clock reading of a marker as one
`stamp`, since `HandoverCompleted` compares the whole marker; a write as the
number of commits it makes. Assumed: removing the socket files succeeds (the
code ignores a failure).

### MetaPlane

`MetaPlane` extends `Handover`: the step that asks the root for one meta
operation also performs it (`PerformMetaRequest`: `StartGeneration`, `Drain`,
`Reload`, `RegisterIdentity`, `RetireIdentity`), and a step of the daemon that
asks nothing of the planes is `OtherStep`. `MetaPlaneStops` and
`PolicyPlaneStops` are failures with an operation in hand or without: an
operation lost with the meta plane ends the exchange with no reply
(`SubmitMetaFails` of `Handover`), a Reload lost with the policy plane is
answered "dependency not ready". A plane that is started again begins anew, the
policy plane from the file as it is by then, which `EditSource` changes.
`orders` is a history variable. That kameo starts a stopped plane again is
external, as in `Dispatch`.

### RecordStore

`records` and `log` are the table and sema-engine's commit log; `archives` the
default archive beside the store, the shared one in the temporary directory, and
one at an explicit path. The actor runs one operation at a time, so capture,
remove and the two changes are one action each; a collection is `job` and goes
through `BeginCollection`, `CaptureSummary`..., `BeginRetraction`,
`RetractCandidate`..., `FinishCollection`, with `CaptureFails`,
`RetractionFails` and `Restart` in between. `receipt` is the reply if the last
operation was a collection. Candidates are captured and retracted in any order;
the code's order (by identifier) is one of them.

External: sema-engine makes one commit per call, and a failed call commits
nothing. Whether it replaces or refuses a key that is there already nothing in
this repository settles, so both happen (`CaptureSummary`, `ArchiveRefuses`).
`is_exact_zero_candidate_query` belongs to the signal-spirit crate and is
modelled by its name and the tests of `src/store.rs`. A collection's other
selectors (topic, kind, time) pick any subset.

### RecordQuery and CivilDate

`QueryNext` is a step of `RecordStore` together with its effect on `stamps`, the
second in which every live record was captured: any at a capture, kept by every
change, gone with the record. The store keeps not the second but its `Reading`,
the date and time that `CivilDate` computes from it with the code's own
arithmetic, clamped before the epoch and cut to a 16-bit year; all queries
compare readings. `FirstAssert` is `RecordCommitOrder`, `Newer` the key `retain`
sorts by, `Matching` the `RecordFilter`, `Answer` is `records_for_query` and
`TopicCount` is `topic_counts`. The sort is stable over a list in identifier
order, so `NewestFirst` ends with the identifier. A selection of certainty,
privacy or recorded time is the set of values it accepts. The limits of the four
windows are a constant: the model uses small ones. The kind filter and the
identifier selection filter like certainty does and are left out.

The calendar is written twice, for records and for handover markers; `CivilDate`
stands for both. It computes with integers where the code has `i64`, which no
second the clock can give overflows. `NextDay` is the reference.

### Dispatch

`exchange` is the request between `route_frame`'s first and last line: `todo`
the planes still to be asked, `error` the runner's `last_error`, and `commits`,
a history variable that counts what the store did for it. `PlanesFor` is the
order of asks in `execute_command`.

| Code | Action |
|---|---|
| `route_frame`, `action_for_signal` | `Request`, `RequestBatch` |
| classifier, clock, state, shaper answer | `PlaneAnswers` |
| the store's operations | `StoreCommits`, `StoreRetractsCandidate`, `StoreAnswers` |
| `open_*`, `retract_*` | `OpenSubscription`, `RetractSubscription` |
| handler error of the store | `StoreRejects`, `StoreFails` |
| send error | `PlaneStops`, `SubscriptionPlaneStops` |
| `take_last_error` and the reply | `FrameReply`; lost on the way: `LoseReply` |
| process stops, is started again | `Restart` |

`PlaneStops` covers both sides of the race: the store's actor stops before it
handled the message, or after it committed. `answers`, `held` and `current` are
what clients know; a client closes any token it was ever answered, also one of
an earlier process. That kameo starts a stopped child again from the arguments
the root gave it is external. The records themselves are in `RecordStore`.

### Migration

One module for five programs that differ in what they do to identifiers: `copy`
(v0.1 to v0.2, v0.2 to next, v0.3 to v0.4), `remint` (v0.4 to v0.5, with a
table), `shorten` (v0.5 to v0.5.2: short ones kept, long ones minted anew, with
a table). `source` is in first-assert order; the program reads it sorted by
identifier. `Start` reads and tests the target for emptiness, `MigrateRecord` is
one write, `WriteTable` the sidecar and the end; `RunFails` and `WriteFails`
stand for an error or a kill.

`RecordIdentifierMint` says which identifiers the mint may answer when some are
in use: `MayDraw` is a random draw that hits a free code, `IsFirstAvailable` the
scan of a length, and a longer length is tried when the scan of the shorter ones
found nothing. The number of draws is left out: each may be of a used code, so
any answer with one number is an answer with another. `Migration` mints with it
from the identifiers that are in the target. In `RecordStore` any identifier
that is not live may be minted, which includes every answer of the mint.

### Serving

Several processes on one configuration. `files` is what each socket name leads
to: a process's listener, a process that is gone, or nothing. Names are all a
process goes by, so one removes, permits or replaces another's.

| Code | Action |
|---|---|
| `PersonaDaemon::bind`: clear all paths, bind all, set permissions | `Launch`, `ClearPath`, `Cleared`, `BindListener`, `ListenersBound`, `SetPermissions` |
| an error on the way | `StartFails`: configuration refused, address in use, file missing, or any other failed call |
| `SpiritRoot::start`, its store child | `StartRoot`, `OpenStore` (which may fail), `RestartStore` |
| an accept loop: accept, read, ask and reply, drop | `Accept`, `Answer`, `DropClient` |
| `PublicSockets::close` on finalization | `Finalize`, `RemovePublicPath`, `PathsClosed` |
| the end of a bounded variant: stop the root, remove the files | `StopRoot`, `RemovePath`, `ShutDown` |
| process is killed | `Kill` |
| a client | `Connect`, `Send`, `HangUp` |

What an exchange does is in `Handover`; here it is one step, so that what is
left is who waits for whom. A bounded variant may stop whenever none of its
threads is with a client: the number of exchanges it serves is left open. The
handoff-control stream of Persona is left out, except that a start may fail on
it. A store may fail to open in any process, beside another that has it or for a
reason of the engine; the process serves all the same, and an ask of its store
fails, which `Answer` leaves open: the exchange ends with or without a reply.
`undisturbed` is a history variable: the socket files that no other process has
bound or removed since this one was launched. The properties about files speak
of these, one by one: a process that was at one file takes nothing away from
what they say of the others. Two daemons at a time are in the model; that one
takes the other's files is promised nowhere, and so is that a daemon in service
has a store.

## 3. Runs

| Run | Config | Result | Shows |
|---|---|---|---|
| handover | `Handover.cfg` | pass, 1.1 M states | types; gate follows root; few stragglers; closed is final; implements `Cutover` |
| handover_live | `HandoverLive.cfg` | pass, 910 k | identities are the last orders; a policy in force is kept; gate and files catch up with the root |
| handover_race | `HandoverRace.cfg` | violation | a direct write admitted before the freeze lands in it |
| handover_handed_off | `HandoverHandedOff.cfg` | violation | a handed-off write moves the store past the accepted marker |
| record_store | `RecordStore.cfg` | pass, 1.2 M | capture before retract; nothing collected is lost; only Zero public; true receipts |
| record_store_reuse | `RecordStoreReuse.cfg` | violation | a removed identifier is minted again |
| record_store_print | `RecordStorePrint.cfg` | violation | a failed Print collection loses records |
| record_query | `RecordQuery.cfg` | pass, 92 k | windows hold the newest matches; ranges those of their seconds; catalog and queries agree; maintenance does not reorder |
| dispatch | `Dispatch.cfg` | pass, 1.2 M | types; commit statuses are true; tokens name their client's subscription; every request ends |
| serving | `Serving.cfg` | pass, 313 k | nobody is served early; a daemon is reachable where nobody disturbed it; leftovers do not block; shutdown leaves no file; an upgrade exchange ends |
| migration | `Migration.cfg` | pass, 210 k | success is complete; tables are true; targets only grow; the shortest free code is minted; no code is lost |
| migration_recency | `MigrationRecency.cfg` | violation | ties of one second are reordered by identifier |

The `RecordQuery`, `Dispatch` and `Serving` runs turn deadlock checking off:
commits, requests and restarts, and launches are bounded, so their behaviours
end at a bound. In the other runs a client can always send another request or an
operator start another run.

**Bounds.** `Handover`: two ordinary servers; one-operation requests of every
kind and the two-operation requests whose first operation changes what the
second sees; two commits (a handover needs one to be overtaken by, a second so
that a later handover differs), two stamps (so that a stale marker can match in
its commit and not otherwise), one restart. Persona's requests come in any order
and any number, so retries and duplicates are included. `MetaPlane`: one
ordinary server and one commit, since the handover is only the background here,
with every meta operation, one exchange of two (the gate is read before the
first), one name (registered and retired any number of times), two policies and
an unreadable file, one change of the file, one failure of a plane, one restart.
`RecordStore`: two identifiers (one collected while one is kept, or both in one
collection, and reuse after one removal), three client commits, two failures
(both archives), one restart, three targets; symmetric in identifiers.
`RecordQuery`: three identifiers, four commits (a window of one to four records
cut at every place; a removal and a capture again), three readings of the clock
in any order, so that it stands still, moves on and is set back: before the
epoch, the last second of 29 February 2000 and the one after it, the seam of two
eras; no collections, which to a query are removals of the records they retract.
`Dispatch`: two clients and four requests (two watches, an unwatch and a watch
are what it takes to hand out a token twice), one fault, one restart,
collections of up to two; of operations that ask the same planes in the same way
one stands for all. `Serving`: two of the four sockets, one that a finalization
closes and the upgrade socket, with a client each; a process that serves for
ever, one that serves upgrades and shuts down, one whose configuration is
refused, two launches (one after another or both at once). The meta socket is
handled like the ordinary one; the engine-management thread, which keeps its
client between two answers, is in the module and in the proofs, which hold for
any sockets, and another silent client is all it is to the rest. `Migration`:
codes of radix 2 and lengths 1 and 2, so four short identifiers, and two long
ones; every source of up to three records and sources of five (one more than
there are short codes, so that the mint runs out, for `remint` and for
`shorten`), empty and non-empty targets, two failures. `MCRecordQuery` also
evaluates the calendar against its reference for each of the 146,097 days of an
era (`CalendarOfAnEra`).

**Fairness.** `HandoverLive.cfg`, `Serving.cfg` and `Dispatch.cfg` use it.
`Dispatch`: weak fairness of `Serve`, what dispatch and its planes do for the
request in hand; the actors run as long as the process does, and an ask of a
stopped actor returns an error. `Handover`: weak fairness of the steps a thread
takes on its own while it holds a request (ask the root, store the atomic,
remove the files). They wait for the runtime and the serial root only, never for
a client. None is assumed of clients, of Persona, of replies (a write to a
client can block) or of restarts. `MetaPlane` assumes the same and nothing of
its own. `Serving`: a process that runs goes on with its start, with the opening
of its store, which may fail, and with the removal of its files (weak fairness);
its upgrade thread takes the next client and answers the one it has (strong
fairness of `store # "opening" /\ ServeStep`). The latter is strong because an
ask of a store that is opening waits in its mailbox until the opening has ended,
and a supervised store that fails may be started again and again: the waiting
ask is answered or fails at the end of an opening, so the thread does not wait
through all of them. Persona, the only client of the upgrade socket, sends its
request or hangs up once it is connected. Nothing is assumed of other threads,
nor of other clients: the thread of a silent one waits for ever.

**Findings.** The five violations are disagreements between the code and
`ARCHITECTURE.md`; `PROJECT.json` quotes the lines. The race of the freeze is
contained: `HandoverCompleted` reads the store again, which is why
`RefinesCutover` holds all the same. The lost Print summaries and the tie order
after the v0.5.2 migration are not contained by anything.

## 4. Proofs

`Handover_proofs`: `SocketsFollowRoot` and `FewStragglers` are not inductive.
`IInv` adds what the reply in the upgrade thread's hands says about how far the
gate is behind (`PendingReply`), that the readiness in force is the copied
commit (`CopiedMatches`), that the exchange admitted before the freeze is still
the only one to come (`StragglersCounted`), and that closed means retired. One
lemma per action; the refinement maps `ReadyToHandover`, `HandoverCompleted`,
`RecoverFromFailure`, every commit and `Restart` to steps of `Cutover` and all
else to stutters. Closedness is proved from `ClosedMeansRetired` and the arm of
`RecoverFromFailure` that refuses.

`RecordStore_proofs`: `IInv` adds how far the job in progress has come
(`JobOnTrack`: what it has captured is in its archive, what it has retracted is
gone, the rest stands exactly as summarised) and that collected identifiers are
not live (`CollectedIsGone`: so a later collection cannot replace an archive row
that `CollectedIsCaptured` counts on, except by minting the identifier again).

`RecordQuery_proofs`: every step of `QuerySpec` is a step of `RecordStore`
(`StampsAddNothing`), so its theorems carry over. `RecencyIsKept` rests on two
facts: a live record has an Assert in the log (`QueryInv`), and the log only
grows at its end, so the first Assert of a live record never changes.

`Dispatch_proofs`: `IInv` adds what a request has done by the planes it still
has to ask (`ExchangeOnTrack`: the store or the subscription plane is the last
to be asked, and the commit count follows from whether it was) and that an
opened subscription is its client's and every answered token is below the
counter (`TokensOnTrack`). `StatusIsTrue` then follows at `FrameReply` and
`TokensDenoteOwn` at `OpenSubscription`.

`CivilDate_proofs`: `CalendarIsGregorian` says that day 0 is 1 January 1970 and
the date of each later day the `NextDay` of the date before. The formula puts
each day of an era into the one year whose days enclose it (`YearBounds`,
`YearIsUnique`), so the next day is the next of that year, the first of the next
year or the first of the next era (`NextParts`), and the months divide a year in
the same way (`MonthStep`). `RecordedTimesAscend` rests on the same facts
(`DatesAscend`) and on the order of times within a day (`TimesAscend`). It needs
`YearFits`, which only a clock past the year 65535 breaks. `RangesAnswerSeconds`
carries this to queries: each stamp is a second the clock gave (`StampsOK`), and
readings have the order of their seconds.

`MetaPlane`, also in `Handover_proofs`: each step of `PlaneSpec` is one of
`Handover` or leaves it alone (`PlanesRefineHandover`), so all theorems about
`Handover` hold of the composition. `PlaneInv` is the types of the planes with
`IdentitiesAreLastOrders`, which is inductive beside them: a `Register` looks
for the name before it pushes, so the list stays free of repetitions
(`RegisterKeeps`), and `retain` takes out that name and no other
(`RetireKeeps`). `PolicyStaysInForce` needs of the state only that the policy
and the file have their types.

`Listing_proofs`: ranks ascend with the order (`RankAscends`) and leave no gap
(`RanksFill`: as many different ranks as there are places, so each place has its
member), so a sorted list has each member once and in order (`InOrderLists`).
`RetainedHolds` follows for filtered lists. The theorems below that speak of
lists rest on these two.

Windows, in `RecordQuery_proofs`: `NewestFirst` is a strict order of the live
records because readings follow seconds and identifiers differ
(`NewestFirstIsStrict`), so a window is a prefix of a list without repetitions
(`WindowHolds`). `WindowsAreNewest` then needs that live records are finitely
many and that each has an Assert in the log, both in `QueryInv`.
`CatalogCountsRecords` is a bijection between the places a topic takes in the
table and the records a public query shows, which exists because no live record
lists a topic twice: the topic discipline of `RecordStore`'s `TypeOK`.

`Migration_proofs`: `RangesAdjoin`, `MintIsFreshAndShortest` and
`MintAnswersUnlessFull` use of arithmetic only what `MintAssumption` says, that
a longer code is more; it holds of the code's radix, and TLC evaluates it at the
instance's. The properties of `Migration` are not inductive, since most of them
speak of finished runs. `IInv` adds `RunOnTrack`: while a run copies, each row
of its table tells the truth of one record of the plan, in its order, no two
rows name one place of the target, the target holds nothing else, and what is to
do is the rest of the plan. The plan lists each source record once, with the
records that keep their identifier before those that get a new one
(`PlanHolds`). The step that matters is `Migrates`: the identifier written is
not in the target yet, because a minted one is fresh, and a kept one comes
before every minted one and differs from the kept ones before it. With it,
`TargetsOnlyGrow` says that no row is overwritten, `CompletionIsFaithful` that
success means everything moved, and `SidecarsStayFaithful` that a later run
takes nothing back, since `Start` refuses a target that is not empty.
`MigrationMintsShortest` and `FailsWhenFull` carry the theorems about the mint
to the target of a run.

`Serving_proofs`: `IInv` adds to the types that no list of sockets and no
backlog repeats itself (`QueuesOK`); how far the start of each process has come
(`Started`: what is bound and what is still to bind are all sockets, and who has
not started the root holds no client); that a closing process goes through
public files only (`ClosingPublic`); and, of each process and each file no other
was at since its launch, where that file leads in each phase (`Owned`: it is one
to go through still, or one that has been dealt with). `UndisturbedIsReachable`
is what `Owned` says of the phases in service; `LeftoversAreCleared` follows
because "in use" needs a file in the way of a bind, and "missing" one gone
before its permissions are set, which `Owned` excludes for an undisturbed file;
and the last phase of `Owned` is `StopLeavesNoFile`. None of them needs the
store or the absence of other processes: the processes, sockets, clients and
launches are any.

All rest on the named assumptions of the modules (`HandoverAssumption`,
`MetaAssumption`, `RecordStoreAssumption`, `RecordQueryAssumption`,
`DispatchAssumption`, `MintAssumption`, `MigrationAssumption`,
`ServingAssumption`) and on nothing else; the invariants were checked by TLC on
the instances of the passing runs before they were proved. They say that
constants have the right shape and that bounds are numbers, with four exceptions
a reader should know: sources of a migration hold no identifier twice (it is the
key of their table), a longer code is more (`MintAssumption`), the configured
sockets differ (`ServingAssumption`: four fields of one configuration), and the
clock has not reached the year 65536 (`YearFits`).

Every safety property of a passing run is a theorem. TLC only:

- liveness (`SocketsCatchUp`, `ExchangesEnd`, `UpgradeIsAnswered`), which rests
  on fairness and is out of the prover's reach;
- the five violations, which are counterexamples;
- that `CivilDate` agrees with its reference on each day of an era
  (`CalendarOfAnEra`), beside the theorem that says so of every day.

## 5. Plan

Done: all modules of section 2 and the theorems of section 4. Open, most
important first:

1. The mint of the store as a refinement: `RecordStore` mints any identifier
   that is not live; state that each answer of `RecordIdentifierMint` is one.
2. `Dispatch` composed with `RecordStore`: `commits` as the commits of its log,
   so that `StatusIsTrue` speaks of the records.
3. `Serving` composed with `Handover`: `Finalize` as the step that closes the
   gate, in place of the step left open.
4. Engine management's replies against the state of the daemon, if the contract
   ever says what Ready promises.

## 6. Not modelled

State plane, classifier, text ingress, decoder, reply shaping and the trace hold
no state that changes; `Dispatch` models that they are asked, in which order,
and that each can fail. The sema observation projection (`src/observation.rs`)
computes labels without payload from a command and its effect. Frame codecs,
clients, command line and migration binaries are input and output around one
call. Engine management answers constants, whatever the daemon's state, so no
property can relate the two.

Of the modelled components: whether a repeated Mirror is stored twice is decided
by nothing (its payload has no identity), and Persona's half of a handover is in
another repository. The control loop of a handoff socket (`src/daemon.rs:1176`)
goes on reading when Persona closes the stream; its accepts are exchanges of
`Handover`, its failures are logged and not modelled. `ARCHITECTURE.md:40` calls
the policy file a first-start seed; the model follows the code, which reads it
at each start. The projection of entries between contract versions,
sema-engine's storage, kameo's mailboxes and Persona are other repositories.
