---------------------------- MODULE Serving_proofs ----------------------------
(***************************************************************************)
(* Proofs about Serving: for any processes, sockets and clients, nobody is *)
(* served before the root has started; and a socket file that no other     *)
(* process has changed since a process was launched never keeps it from    *)
(* starting, leads to it as long as it serves and is gone when it stops.   *)
(***************************************************************************)
EXTENDS Serving, Listing_proofs

-----------------------------------------------------------------------------
(* The inductive invariant *)

Up(d) == phase[d] \in {"serving", "closing"}

\* No socket is gone through twice, and no client waits twice.
QueuesOK ==
  \A d \in Daemons :
    /\ IsInjective(todo[d])
    /\ \A s \in Sockets :
         /\ IsInjective(backlog[d][s])
         /\ current[d][s] \notin Range(backlog[d][s])

\* How far the start of a process has come.
Started ==
  \A d \in Daemons :
    /\ Up(d) <=> store[d] # "closed"
    /\ Up(d) \/ phase[d] = "permitting" => listening[d] = Sockets
    /\ phase[d] = "binding" => listening[d] \cup Range(todo[d]) = Sockets
    /\ ~Up(d) => \A s \in Sockets : current[d][s] = Nobody

\* A closing process goes through the public files only.
ClosingPublic ==
  \A d \in Daemons :
    phase[d] = "closing" =>
      closed[d] /\ Range(todo[d]) \subseteq {"ordinary", "meta"}

\* Where the file of a socket leads that a process has to itself, in each
\* phase: one it has still to go through, or one it has been through.
FileFollows(d, s) ==
  /\ phase[d] = "clearing" => s \in Range(todo[d]) \/ files[s] = NoFile
  /\ phase[d] = "binding" =>
       files[s] = IF s \in Range(todo[d]) THEN NoFile ELSE d
  /\ phase[d] = "permitting" => files[s] = d
  /\ Up(d) =>
       \/ files[s] = d
       \/ closed[d] /\ s \in {"ordinary", "meta"} /\ files[s] = NoFile
  /\ phase[d] = "removing" => s \in Range(todo[d]) \/ files[s] = NoFile

Owned == \A d \in Daemons : \A s \in undisturbed[d] : FileFollows(d, s)

IInv == TypeOK /\ QueuesOK /\ Started /\ ClosingPublic /\ Owned

-----------------------------------------------------------------------------
(* Queues *)

LEMMA HeadAndTail ==
  ASSUME NEW S, NEW queue \in Seq(S), IsInjective(queue), queue # <<>>
  PROVE  /\ Head(queue) \in S
         /\ Tail(queue) \in Seq(S)
         /\ IsInjective(Tail(queue))
         /\ Range(queue) = {Head(queue)} \cup Range(Tail(queue))
         /\ Head(queue) \notin Range(Tail(queue))
<1>1. /\ DOMAIN queue = 1..Len(queue) /\ Len(queue) \in Nat /\ Len(queue) # 0
      /\ Head(queue) = queue[1]
      /\ Tail(queue) \in Seq(S)
      /\ DOMAIN Tail(queue) = 1..(Len(queue) - 1)
      /\ \A i \in 1..(Len(queue) - 1) : Tail(queue)[i] = queue[i + 1]
  OBVIOUS
<1>2. IsInjective(Tail(queue)) /\ Head(queue) \notin Range(Tail(queue))
  BY <1>1 DEF IsInjective, Range
<1>3. ASSUME NEW i \in 1..Len(queue), i # 1
      PROVE  i - 1 \in 1..(Len(queue) - 1) /\ Tail(queue)[i - 1] = queue[i]
  BY <1>1, <1>3
<1>4. Range(queue) = {Head(queue)} \cup Range(Tail(queue))
  <2>1. ASSUME NEW x \in Range(queue)
        PROVE  x = Head(queue) \/ x \in Range(Tail(queue))
    <3>1. PICK i \in 1..Len(queue) : x = queue[i]
      BY <1>1, <2>1 DEF Range
    <3>2. CASE i = 1
      BY <1>1, <3>1, <3>2
    <3>3. CASE i # 1
      BY <1>1, <1>3, <3>1, <3>3 DEF Range
    <3>4. QED
      BY <3>2, <3>3
  <2>2. Head(queue) \in Range(queue) /\ Range(Tail(queue)) \subseteq Range(queue)
    BY <1>1 DEF Range
  <2>3. QED
    BY <2>1, <2>2
<1>5. Head(queue) \in S
  BY <1>1
<1>6. QED
  BY <1>1, <1>2, <1>4, <1>5

LEMMA Appended ==
  ASSUME NEW S, NEW queue \in Seq(S), IsInjective(queue), NEW x \in S,
         x \notin Range(queue)
  PROVE  /\ Append(queue, x) \in Seq(S)
         /\ IsInjective(Append(queue, x))
         /\ Range(Append(queue, x)) = Range(queue) \cup {x}
<1>1. /\ Append(queue, x) \in Seq(S)
      /\ Len(queue) \in Nat
      /\ DOMAIN queue = 1..Len(queue)
      /\ DOMAIN Append(queue, x) = 1..(Len(queue) + 1)
      /\ \A i \in 1..Len(queue) : Append(queue, x)[i] = queue[i]
      /\ Append(queue, x)[Len(queue) + 1] = x
  OBVIOUS
<1>2. QED
  BY <1>1 DEF IsInjective, Range

LEMMA EmptyQueue ==
  /\ IsInjective(<<>>)
  /\ Range(<<>>) = {}
  /\ \A S : <<>> \in Seq(S)
BY DEF IsInjective, Range

\* A list of sockets as phases go through them.
IsList(list) == list \in Seq(Sockets) /\ IsInjective(list)

LEMMA BoundIsList == IsList(Bound) /\ Range(Bound) = Sockets
<1>1. Bound \in Seq(Range(AllSockets)) /\ IsInjective(Bound)
  BY ServingAssumption
<1>2. DOMAIN Bound = 1..Len(Bound) /\ Len(Bound) \in Nat
  BY <1>1
<1>3. Bound \in [1..Len(Bound) -> Sockets]
  BY <1>1, <1>2 DEF Sockets, Range
<1>4. QED
  BY <1>1, <1>2, <1>3 DEF IsList, Sockets

LEMMA PublicFilesIsList ==
  IsList(PublicFiles) /\ Range(PublicFiles) \subseteq {"ordinary", "meta"}
<1> DEFINE public == {"ordinary", "meta"}
<1>1. Bound \in Seq(Sockets) /\ IsInjective(Bound)
  BY BoundIsList DEF IsList
<1> HIDE DEF public
<1>2. /\ Retained(Bound, public) \in Seq(Sockets)
      /\ {Retained(Bound, public)[k] : k \in DOMAIN Retained(Bound, public)} =
           {Bound[i] : i \in DOMAIN Bound} \cap public
      /\ (\A i, j \in DOMAIN Bound : Bound[i] = Bound[j] => i = j)
           => \A i, j \in DOMAIN Retained(Bound, public) :
                Retained(Bound, public)[i] = Retained(Bound, public)[j] => i = j
  BY <1>1, RetainedHolds
<1>3. PublicFiles = Retained(Bound, public)
  BY DEF PublicFiles, public
<1>4. IsInjective(PublicFiles)
  BY <1>1, <1>2, <1>3 DEF IsInjective
<1>5. Range(PublicFiles) \subseteq public
  BY <1>2, <1>3 DEF Range
<1>6. QED
  BY <1>2, <1>3, <1>4, <1>5 DEF IsList, public

-----------------------------------------------------------------------------
(* Types *)

Endings == {"none", "configuration", "inUse", "missing", "failed", "killed",
            "stopped"}

Shapes ==
  /\ files \in [Sockets -> Daemons \cup {NoFile, Stale}]
  /\ phase \in [Daemons -> Phases]
  /\ todo \in [Daemons -> Seq(Sockets)]
  /\ listening \in [Daemons -> SUBSET Sockets]
  /\ store \in [Daemons -> {"closed", "opening", "open", "failed"}]
  /\ closed \in [Daemons -> BOOLEAN]
  /\ backlog \in [Daemons -> [Sockets -> Seq(Clients)]]
  /\ current \in [Daemons -> [Sockets -> Clients \cup {Nobody}]]
  /\ client \in [Clients -> {"idle", "connected", "sent", "gone"}]
  /\ exit \in [Daemons -> Endings]
  /\ undisturbed \in [Daemons -> SUBSET Sockets]
  /\ launches \in 0..MaxLaunches

\* A client is connected in one place, unless it is idle.
Connected ==
  /\ \A c \in Clients : client[c] = "idle" <=> ConnectionsOf(c) = {}
  /\ \A c \in Clients : IsOneOrNone(ConnectionsOf(c))

LEMMA TypeParts == TypeOK <=> Shapes /\ Connected
  BY DEF TypeOK, Shapes, Connected, Endings

LEMMA ShapesInit == Init => Shapes
  BY ServingAssumption, EmptyQueue DEF Init, Shapes, Endings, Phases

\* What stands in the lists of a process.
LEMMA ListsInPhase ==
  ASSUME Shapes, QueuesOK, NEW d \in Daemons
  PROVE  /\ IsList(todo[d])
         /\ todo[d] # <<>> => /\ NextSocket(d) \in Sockets
                             /\ IsList(Tail(todo[d]))
                             /\ Range(todo[d]) = {NextSocket(d)} \cup Range(Tail(todo[d]))
                             /\ NextSocket(d) \notin Range(Tail(todo[d]))
<1>1. todo[d] \in Seq(Sockets) /\ IsInjective(todo[d])
  BY DEF Shapes, QueuesOK
<1>2. QED
  BY <1>1, HeadAndTail DEF IsList, NextSocket

LEMMA AdvanceKeepsList ==
  ASSUME Shapes, QueuesOK, NEW d \in Daemons, todo[d] # <<>>, Advances(d)
  PROVE  /\ todo' \in [Daemons -> Seq(Sockets)]
         /\ phase' = phase
         /\ todo'[d] = Tail(todo[d])
         /\ \A e \in Daemons \ {d} : todo'[e] = todo[e]
         /\ \A e \in Daemons : IsInjective(todo'[e])
<1>1. todo \in [Daemons -> Seq(Sockets)] /\ \A e \in Daemons : IsInjective(todo[e])
  BY DEF Shapes, QueuesOK
<1>2. Tail(todo[d]) \in Seq(Sockets) /\ IsInjective(Tail(todo[d]))
  BY ListsInPhase DEF IsList
<1>3. todo' = [todo EXCEPT ![d] = Tail(@)] /\ phase' = phase
  BY DEF Advances
<1>4. QED
  BY <1>1, <1>2, <1>3

LEMMA EnterKeepsList ==
  ASSUME Shapes, QueuesOK, NEW d \in Daemons, NEW p \in Phases, NEW list,
         IsList(list), Enters(d, p, list)
  PROVE  /\ phase' \in [Daemons -> Phases]
         /\ phase'[d] = p
         /\ \A e \in Daemons \ {d} : phase'[e] = phase[e]
         /\ todo' \in [Daemons -> Seq(Sockets)]
         /\ todo'[d] = list
         /\ \A e \in Daemons \ {d} : todo'[e] = todo[e]
         /\ \A e \in Daemons : IsInjective(todo'[e])
  BY DEF Shapes, QueuesOK, IsList, Enters

-----------------------------------------------------------------------------
(* Steps of three kinds: a process goes on, a process is gone, a connection *)
(* goes on.                                                                *)

Progress(d) ==
  \/ Launch(d)
  \/ ClearPath(d)
  \/ Cleared(d)
  \/ BindListener(d)
  \/ ListenersBound(d)
  \/ SetPermissions(d)
  \/ StartRoot(d)
  \/ OpenStore(d)
  \/ RestartStore(d)
  \/ Finalize(d)
  \/ RemovePublicPath(d)
  \/ PathsClosed(d)
  \/ StopRoot(d)
  \/ RemovePath(d)

Ending(d) == phase[d] # "down" /\ \E how \in Endings : Exits(d, how)

Connection ==
  \/ \E d \in Daemons, s \in Sockets : ServeStep(d, s)
  \/ \E c \in Clients : ClientStep(c)

LEMMA Kinds ==
  ASSUME [Next]_vars
  PROVE  \/ UNCHANGED vars
         \/ \E d \in Daemons : Progress(d)
         \/ \E d \in Daemons : Ending(d)
         \/ Connection
<1>1. ASSUME NEW d \in Daemons, StartFails(d)
      PROVE  Ending(d)
  BY <1>1 DEF StartFails, Ending, Endings, InProgress, Done
<1>2. ASSUME NEW d \in Daemons, ShutDown(d)
      PROVE  Ending(d)
  BY <1>2 DEF ShutDown, Ending, Endings, Done
<1>3. ASSUME NEW d \in Daemons, Kill(d)
      PROVE  Ending(d)
  BY <1>3 DEF Kill, Ending, Endings
<1>4. QED
  BY <1>1, <1>2, <1>3
     DEF Next, StartStep, StoreStep, CloseStep, StopStep, Progress, Connection

-----------------------------------------------------------------------------
(* Types and queues, step by step *)

LEMMA ProgressKeepsShapes ==
  ASSUME Shapes, QueuesOK, NEW d \in Daemons, Progress(d)
  PROVE  Shapes' /\ QueuesOK'
<1> DEFINE Lists == /\ todo' \in [Daemons -> Seq(Sockets)]
                    /\ \A e \in Daemons : IsInjective(todo'[e])
                    /\ phase' \in [Daemons -> Phases]
           Rest == /\ files' \in [Sockets -> Daemons \cup {NoFile, Stale}]
                   /\ listening' \in [Daemons -> SUBSET Sockets]
                   /\ store' \in [Daemons -> {"closed", "opening", "open", "failed"}]
                   /\ closed' \in [Daemons -> BOOLEAN]
                   /\ exit' \in [Daemons -> Endings]
                   /\ undisturbed' \in [Daemons -> SUBSET Sockets]
                   /\ launches' \in 0..MaxLaunches
                   /\ UNCHANGED <<backlog, current, client>>
<1>1. ASSUME Lists, Rest
      PROVE  Shapes' /\ QueuesOK'
  BY <1>1 DEF Shapes, QueuesOK
<1>2. /\ todo \in [Daemons -> Seq(Sockets)]
      /\ \A e \in Daemons : IsInjective(todo[e])
      /\ phase \in [Daemons -> Phases]
  BY DEF Shapes, QueuesOK
<1>3. ASSUME Advances(d), todo[d] # <<>>
      PROVE  Lists
  BY <1>2, <1>3, AdvanceKeepsList
<1>4. ASSUME NEW p \in Phases, NEW list, IsList(list), Enters(d, p, list)
      PROVE  Lists
  BY <1>4, EnterKeepsList
<1>5. ASSUME todo[d] # <<>>, RemovesFile(NextSocket(d))
      PROVE  files' \in [Sockets -> Daemons \cup {NoFile, Stale}]
  BY <1>5 DEF Shapes, RemovesFile
<1>6. /\ IsList(Bound) /\ IsList(PublicFiles) /\ IsList(<<>>)
      /\ {"clearing", "binding", "permitting", "serving", "closing", "removing"}
           \subseteq Phases
  BY BoundIsList, PublicFilesIsList, EmptyQueue DEF IsList, Phases
<1>7. \A s \in Sockets : files[s] \in Daemons \cup {NoFile, Stale}
  BY DEF Shapes
<1>8. Disturbs(d) => undisturbed' \in [Daemons -> SUBSET Sockets]
  BY DEF Disturbs, Shapes
<1> HIDE DEF Lists
<1>a. CASE Launch(d)
  <2>1. Lists
    BY <1>4, <1>6, <1>a DEF Launch
  <2>2. launches' \in 0..MaxLaunches
    BY <1>a, ServingAssumption DEF Launch, Shapes
  <2>3. Rest
    BY <1>a, <2>2 DEF Launch, Shapes, Endings
  <2>4. QED
    BY <1>1, <2>1, <2>3
<1>b. CASE ClearPath(d)
  BY <1>1, <1>3, <1>5, <1>8, <1>b DEF ClearPath, InProgress, Shapes
<1>c. CASE Cleared(d)
  BY <1>1, <1>4, <1>6, <1>c DEF Cleared, Shapes
<1>d. CASE BindListener(d)
  <2>1. NextSocket(d) \in Sockets
    BY <1>d, ListsInPhase DEF BindListener, InProgress
  <2>2. QED
    BY <1>1, <1>3, <1>8, <1>d, <2>1 DEF BindListener, InProgress, Shapes
<1>e. CASE ListenersBound(d)
  BY <1>1, <1>4, <1>6, <1>e DEF ListenersBound, Shapes
<1>f. CASE SetPermissions(d)
  BY <1>1, <1>3, <1>f DEF SetPermissions, InProgress, Shapes
<1>g. CASE StartRoot(d)
  BY <1>1, <1>4, <1>6, <1>g DEF StartRoot, Shapes
<1>h. CASE OpenStore(d)
  BY <1>1, <1>2, <1>h DEF OpenStore, Shapes, Lists
<1>i. CASE RestartStore(d)
  BY <1>1, <1>2, <1>i DEF RestartStore, Shapes, Lists
<1>j. CASE Finalize(d)
  BY <1>1, <1>4, <1>6, <1>j DEF Finalize, Shapes
<1>k. CASE RemovePublicPath(d)
  BY <1>1, <1>3, <1>5, <1>8, <1>k DEF RemovePublicPath, InProgress, Shapes
<1>l. CASE PathsClosed(d)
  BY <1>1, <1>4, <1>6, <1>l DEF PathsClosed, Shapes
<1>m. CASE StopRoot(d)
  BY <1>1, <1>4, <1>6, <1>m DEF StopRoot, Shapes
<1>n. CASE RemovePath(d)
  BY <1>1, <1>3, <1>5, <1>8, <1>n DEF RemovePath, InProgress, Shapes
<1>z. QED
  BY <1>a, <1>b, <1>c, <1>d, <1>e, <1>f, <1>g, <1>h, <1>i, <1>j, <1>k, <1>l,
     <1>m, <1>n DEF Progress

LEMMA EndingKeepsShapes ==
  ASSUME Shapes, QueuesOK, NEW d \in Daemons, Ending(d)
  PROVE  Shapes' /\ QueuesOK'
<1>1. PICK how \in Endings : Exits(d, how)
  BY DEF Ending
<1>2. /\ todo' \in [Daemons -> Seq(Sockets)]
      /\ \A e \in Daemons : IsInjective(todo'[e])
      /\ phase' \in [Daemons -> Phases]
  BY <1>1, EmptyQueue, EnterKeepsList DEF Exits, IsList, Phases
<1>3. /\ backlog' \in [Daemons -> [Sockets -> Seq(Clients)]]
      /\ current' \in [Daemons -> [Sockets -> Clients \cup {Nobody}]]
  BY <1>1, EmptyQueue DEF Exits, Shapes
<1>4. \A e \in Daemons, s \in Sockets :
        IsInjective(backlog'[e][s]) /\ current'[e][s] \notin Range(backlog'[e][s])
  BY <1>1, EmptyQueue DEF Exits, Shapes, QueuesOK
<1>5. QueuesOK'
  BY <1>2, <1>4 DEF QueuesOK
<1>6. /\ files' \in [Sockets -> Daemons \cup {NoFile, Stale}]
      /\ client' \in [Clients -> {"idle", "connected", "sent", "gone"}]
      /\ listening' \in [Daemons -> SUBSET Sockets]
      /\ store' \in [Daemons -> {"closed", "opening", "open", "failed"}]
      /\ closed' \in [Daemons -> BOOLEAN]
      /\ exit' \in [Daemons -> Endings]
      /\ undisturbed' \in [Daemons -> SUBSET Sockets]
      /\ UNCHANGED launches
  BY <1>1 DEF Exits, Shapes
<1>7. QED
  BY <1>2, <1>3, <1>5, <1>6 DEF Shapes

-----------------------------------------------------------------------------
(* Connections *)

\* What a step of a connection leaves alone.
Elsewhere == <<files, phase, todo, listening, store, closed, exit,
               undisturbed, launches>>

LEMMA AtPlace ==
  ASSUME NEW c, NEW d \in Daemons, NEW s \in Sockets
  PROVE  /\ <<d, s>> \in ConnectionsOf(c) <=>
              c \in Range(backlog[d][s]) \/ c = current[d][s]
         /\ (<<d, s>> \in ConnectionsOf(c))' <=>
              c \in Range(backlog'[d][s]) \/ c = current'[d][s]
  BY DEF ConnectionsOf

\* A connection that stays where it is, for every client: the connections do
\* not move.
LEMMA StaysPut ==
  ASSUME Connected,
         \A c \in Clients, d \in Daemons, s \in Sockets :
           (c \in Range(backlog'[d][s]) \/ c = current'[d][s]) <=>
             (c \in Range(backlog[d][s]) \/ c = current[d][s]),
         \A c \in Clients : client'[c] = "idle" <=> client[c] = "idle"
  PROVE  Connected'
<1>1. \A c \in Clients : ConnectionsOf(c)' = ConnectionsOf(c)
  BY DEF ConnectionsOf
<1>2. QED
  BY <1>1 DEF Connected

\* A client leaves the thread it is with, which is free again.
LEMMA Leaves ==
  ASSUME Shapes, QueuesOK, Connected, NEW d \in Daemons, NEW s \in Sockets,
         NEW left \in Clients, current[d][s] = left,
         client' = [client EXCEPT ![left] = "idle"],
         current' = [current EXCEPT ![d][s] = Nobody],
         UNCHANGED backlog
  PROVE  Connected'
<1>1. left \in Clients /\ Nobody \notin Clients
  BY ServingAssumption
<1>2. /\ left \notin Range(backlog[d][s])
      /\ <<d, s>> \in ConnectionsOf(left)
  BY AtPlace DEF QueuesOK
<1>3. current' \in [Daemons -> [Sockets -> Clients \cup {Nobody}]]
  BY DEF Shapes
<1>4. ASSUME NEW e \in Daemons, NEW t \in Sockets
      PROVE  current'[e][t] = IF e = d /\ t = s THEN Nobody ELSE current[e][t]
  BY DEF Shapes
<1>5. ConnectionsOf(left)' = {}
  <2>1. ASSUME NEW e \in Daemons, NEW t \in Sockets, (<<e, t>> \in ConnectionsOf(left))'
        PROVE  FALSE
    <3>1. left \in Range(backlog[e][t]) \/ left = current'[e][t]
      BY <2>1, AtPlace
    <3>2. <<e, t>> \in ConnectionsOf(left)
      BY <1>1, <1>4, <3>1, AtPlace
    <3>3. <<e, t>> = <<d, s>>
      BY <1>1, <1>2, <3>2 DEF Connected, IsOneOrNone
    <3>4. QED
      BY <1>1, <1>2, <1>4, <3>1, <3>3
  <2>2. QED
    BY <2>1 DEF ConnectionsOf
<1>6. \A c \in Clients \ {left} :
        ConnectionsOf(c)' = ConnectionsOf(c) /\ client'[c] = client[c]
  <2> TAKE c \in Clients \ {left}
  <2>1. \A e \in Daemons, t \in Sockets : c = current'[e][t] <=> c = current[e][t]
    BY <1>1, <1>4
  <2>2. QED
    BY <2>1 DEF ConnectionsOf, Shapes
<1>7. client'[left] = "idle"
  BY <1>1 DEF Shapes
<1>8. QED
  BY <1>5, <1>6, <1>7 DEF Connected, IsOneOrNone

LEMMA AcceptKeeps ==
  ASSUME Shapes, QueuesOK, Connected, NEW d \in Daemons, NEW s \in Sockets,
         Accept(d, s)
  PROVE  Shapes' /\ QueuesOK' /\ Connected'
<1> DEFINE queue == backlog[d][s]
<1>1. /\ queue \in Seq(Clients) /\ IsInjective(queue) /\ queue # <<>>
      /\ current[d][s] = Nobody /\ Nobody \notin Clients
  BY ServingAssumption DEF Accept, Shapes, QueuesOK, IsFree
<1>2. /\ Head(queue) \in Clients
      /\ Tail(queue) \in Seq(Clients)
      /\ IsInjective(Tail(queue))
      /\ Range(queue) = {Head(queue)} \cup Range(Tail(queue))
      /\ Head(queue) \notin Range(Tail(queue))
  BY <1>1, HeadAndTail
<1>3. /\ current' = [current EXCEPT ![d][s] = Head(queue)]
      /\ backlog' = [backlog EXCEPT ![d][s] = Tail(queue)]
      /\ UNCHANGED <<client, Elsewhere>>
  BY DEF Accept, Elsewhere, Shapes
<1>4. ASSUME NEW e \in Daemons, NEW t \in Sockets
      PROVE  /\ current'[e][t] = IF e = d /\ t = s THEN Head(queue) ELSE current[e][t]
             /\ backlog'[e][t] = IF e = d /\ t = s THEN Tail(queue) ELSE backlog[e][t]
  BY <1>3 DEF Shapes
<1>5. QueuesOK'
  BY <1>2, <1>3, <1>4 DEF QueuesOK, Elsewhere
<1>6. /\ backlog' \in [Daemons -> [Sockets -> Seq(Clients)]]
      /\ current' \in [Daemons -> [Sockets -> Clients \cup {Nobody}]]
  BY <1>2, <1>3 DEF Shapes
<1>7. Shapes'
  BY <1>3, <1>6 DEF Shapes, Elsewhere
<1>8. Connected'
  BY <1>1, <1>2, <1>3, <1>4, StaysPut
<1>9. QED
  BY <1>5, <1>7, <1>8

LEMMA AnswerKeeps ==
  ASSUME Shapes, QueuesOK, Connected, NEW d \in Daemons, NEW s \in Sockets,
         Answer(d, s)
  PROVE  Shapes' /\ QueuesOK' /\ Connected'
<1>1. /\ current[d][s] \in Clients /\ Nobody \notin Clients
      /\ current[d][s] # Nobody
      /\ client[current[d][s]] = "sent"
      /\ UNCHANGED <<backlog, Elsewhere>>
  BY ServingAssumption DEF Answer, IsWith, Shapes, Elsewhere
<1>2. CASE s = "engine"
  <2>1. /\ client' = [client EXCEPT ![current[d][s]] = "connected"]
        /\ UNCHANGED current
    BY <1>2 DEF Answer
  <2>2. Shapes' /\ QueuesOK'
    BY <1>1, <2>1 DEF Shapes, QueuesOK, Elsewhere
  <2>3. \A c \in Clients : client'[c] = "idle" <=> client[c] = "idle"
    BY <1>1, <2>1 DEF Shapes
  <2>4. QED
    BY <1>1, <2>1, <2>2, <2>3, StaysPut
<1>3. CASE s # "engine"
  <2>1. /\ client' = [client EXCEPT ![current[d][s]] = "idle"]
        /\ current' = [current EXCEPT ![d][s] = Nobody]
    BY <1>3 DEF Answer
  <2>2. Connected'
    BY <1>1, <2>1, Leaves
  <2>3. Shapes'
    BY <1>1, <2>1 DEF Shapes, Elsewhere
  <2>4. \A e \in Daemons, t \in Sockets :
          current'[e][t] = IF e = d /\ t = s THEN Nobody ELSE current[e][t]
    BY <2>1 DEF Shapes
  <2>5. Nobody \notin Range(backlog[d][s])
    BY <1>1 DEF Shapes, Range
  <2>6. QueuesOK'
    BY <1>1, <2>4, <2>5 DEF QueuesOK, Elsewhere
  <2>7. QED
    BY <2>2, <2>3, <2>6
<1>4. QED
  BY <1>2, <1>3

LEMMA DropKeeps ==
  ASSUME Shapes, QueuesOK, Connected, NEW d \in Daemons, NEW s \in Sockets,
         DropClient(d, s)
  PROVE  Shapes' /\ QueuesOK' /\ Connected'
<1>1. /\ current[d][s] \in Clients /\ Nobody \notin Clients
      /\ current[d][s] # Nobody
      /\ UNCHANGED <<backlog, Elsewhere>>
      /\ client' = [client EXCEPT ![current[d][s]] = "idle"]
      /\ current' = [current EXCEPT ![d][s] = Nobody]
  BY ServingAssumption DEF DropClient, IsWith, Shapes, Elsewhere
<1>2. Connected'
  BY <1>1, Leaves
<1>3. Shapes'
  BY <1>1 DEF Shapes, Elsewhere
<1>4. \A e \in Daemons, t \in Sockets :
        current'[e][t] = IF e = d /\ t = s THEN Nobody ELSE current[e][t]
  BY <1>1 DEF Shapes
<1>5. Nobody \notin Range(backlog[d][s])
  BY <1>1 DEF Shapes, Range
<1>6. QueuesOK'
  BY <1>1, <1>4, <1>5 DEF QueuesOK, Elsewhere
<1>7. QED
  BY <1>2, <1>3, <1>6

LEMMA ConnectKeeps ==
  ASSUME Shapes, QueuesOK, Connected, NEW c \in Clients, Connect(c)
  PROVE  Shapes' /\ QueuesOK' /\ Connected'
<1>1. PICK d \in Daemons :
        backlog' = [backlog EXCEPT ![d][SocketOf[c]] = Append(@, c)]
  BY DEF Connect
<1>2. PICK s \in Sockets : s = SocketOf[c]
  BY ServingAssumption
<1>3. /\ client' = [client EXCEPT ![c] = "connected"]
      /\ UNCHANGED <<current, Elsewhere>>
      /\ ConnectionsOf(c) = {}
  BY DEF Connect, Elsewhere, Connected
<1>4. /\ backlog[d][s] \in Seq(Clients) /\ IsInjective(backlog[d][s])
      /\ c \notin Range(backlog[d][s]) /\ current[d][s] # c
  <2>1. <<d, s>> \notin ConnectionsOf(c)
    BY <1>3
  <2>2. c \notin Range(backlog[d][s]) /\ current[d][s] # c
    BY <2>1, AtPlace
  <2>3. QED
    BY <2>2 DEF Shapes, QueuesOK
<1>5. /\ Append(backlog[d][s], c) \in Seq(Clients)
      /\ IsInjective(Append(backlog[d][s], c))
      /\ Range(Append(backlog[d][s], c)) = Range(backlog[d][s]) \cup {c}
  BY <1>4, Appended
<1>6. ASSUME NEW e \in Daemons, NEW t \in Sockets
      PROVE  backlog'[e][t] = IF e = d /\ t = s THEN Append(backlog[d][s], c)
                              ELSE backlog[e][t]
  BY <1>1, <1>2 DEF Shapes
<1>7. backlog' \in [Daemons -> [Sockets -> Seq(Clients)]]
  BY <1>1, <1>2, <1>5 DEF Shapes
<1>8. Shapes'
  BY <1>3, <1>7 DEF Shapes, Elsewhere
<1>9. QueuesOK'
  BY <1>3, <1>4, <1>5, <1>6 DEF QueuesOK, Elsewhere
<1>10. ASSUME NEW e \in Daemons, NEW t \in Sockets
       PROVE  (<<e, t>> \in ConnectionsOf(c))' <=> e = d /\ t = s
  <2>1. <<e, t>> \notin ConnectionsOf(c)
    BY <1>3
  <2>2. c \notin Range(backlog[e][t]) /\ c # current[e][t]
    BY <2>1, AtPlace
  <2>3. (<<e, t>> \in ConnectionsOf(c))' <=>
          c \in Range(backlog'[e][t]) \/ c = current'[e][t]
    BY AtPlace
  <2>4. QED
    BY <1>3, <1>5, <1>6, <2>2, <2>3
<1>11. ConnectionsOf(c)' = {<<d, s>>}
  BY <1>10 DEF ConnectionsOf
<1>12. \A b \in Clients \ {c} :
         ConnectionsOf(b)' = ConnectionsOf(b) /\ client'[b] = client[b]
  <2> TAKE b \in Clients \ {c}
  <2>1. \A e \in Daemons, t \in Sockets :
          b \in Range(backlog'[e][t]) <=> b \in Range(backlog[e][t])
    BY <1>5, <1>6
  <2>2. QED
    BY <1>3, <2>1 DEF ConnectionsOf, Shapes
<1>13. client'[c] # "idle"
  BY <1>3 DEF Shapes
<1>14. ASSUME NEW b \in Clients
       PROVE  /\ client'[b] = "idle" <=> ConnectionsOf(b)' = {}
              /\ IsOneOrNone(ConnectionsOf(b)')
  <2>1. CASE b = c
    BY <1>11, <1>13, <2>1 DEF IsOneOrNone
  <2>2. CASE b # c
    <3>1. ConnectionsOf(b)' = ConnectionsOf(b) /\ client'[b] = client[b]
      BY <1>12, <2>2
    <3>2. QED
      BY <3>1 DEF Connected
  <2>3. QED
    BY <2>1, <2>2
<1>15. QED
  BY <1>8, <1>9, <1>14 DEF Connected

LEMMA WaitingKeeps ==
  ASSUME Shapes, QueuesOK, Connected, NEW c \in Clients, Send(c) \/ HangUp(c)
  PROVE  Shapes' /\ QueuesOK' /\ Connected'
<1>1. /\ UNCHANGED <<backlog, current, Elsewhere>>
      /\ client' \in [Clients -> {"idle", "connected", "sent", "gone"}]
      /\ \A b \in Clients : client'[b] = "idle" <=> client[b] = "idle"
  BY DEF Send, HangUp, Elsewhere, Shapes
<1>2. Shapes' /\ QueuesOK'
  BY <1>1 DEF Shapes, QueuesOK, Elsewhere
<1>3. QED
  BY <1>1, <1>2, StaysPut

LEMMA ConnectionKeeps ==
  ASSUME Shapes, QueuesOK, Connected, Connection
  PROVE  /\ Shapes' /\ QueuesOK' /\ Connected'
         /\ UNCHANGED Elsewhere
         /\ \A d \in Daemons, s \in Sockets :
              current'[d][s] = current[d][s] \/ current'[d][s] = Nobody \/ Up(d)
<1>1. ASSUME NEW d \in Daemons, NEW s \in Sockets, ServeStep(d, s)
      PROVE  \A e \in Daemons, t \in Sockets :
               current'[e][t] = current[e][t] \/ current'[e][t] = Nobody \/ Up(e)
  BY <1>1 DEF ServeStep, Accept, Answer, DropClient, ThreadsRun, Up, Shapes
<1>2. ASSUME NEW c \in Clients, ClientStep(c)
      PROVE  UNCHANGED current
  BY <1>2 DEF ClientStep, Connect, Send, HangUp
<1>3. UNCHANGED Elsewhere
  BY DEF Connection, ServeStep, ClientStep, Accept, Answer, DropClient, Connect,
         Send, HangUp, Elsewhere
<1>4. Shapes' /\ QueuesOK' /\ Connected'
  BY AcceptKeeps, AnswerKeeps, DropKeeps, ConnectKeeps, WaitingKeeps
     DEF Connection, ServeStep, ClientStep
<1>5. QED
  BY <1>1, <1>2, <1>3, <1>4 DEF Connection

\* A process that is gone takes its connections with it, and no other.
LEMMA EndingCuts ==
  ASSUME Shapes, Connected, NEW d \in Daemons, NEW how, Exits(d, how)
  PROVE  Connected'
<1>1. Nobody \notin Clients
  BY ServingAssumption
<1>2. ASSUME NEW e \in Daemons, NEW t \in Sockets
      PROVE  /\ backlog'[e][t] = IF e = d THEN <<>> ELSE backlog[e][t]
             /\ current'[e][t] = IF e = d THEN Nobody ELSE current[e][t]
  BY DEF Exits, Shapes
<1>3. ASSUME NEW c \in Clients, NEW e \in Daemons, NEW t \in Sockets
      PROVE  (<<e, t>> \in ConnectionsOf(c))' <=> e # d /\ <<e, t>> \in ConnectionsOf(c)
  <2>1. (<<e, t>> \in ConnectionsOf(c))' <=>
          c \in Range(backlog'[e][t]) \/ c = current'[e][t]
    BY AtPlace
  <2>2. <<e, t>> \in ConnectionsOf(c) <=>
          c \in Range(backlog[e][t]) \/ c = current[e][t]
    BY AtPlace
  <2>3. QED
    BY <1>1, <1>2, <2>1, <2>2, EmptyQueue
<1>4. ASSUME NEW c \in Clients
      PROVE  c \in ConnectedTo(d) <=>
               \E s \in Sockets : <<d, s>> \in ConnectionsOf(c)
  <2>1. ASSUME NEW s \in Sockets
        PROVE  <<d, s>> \in ConnectionsOf(c) <=>
                 c \in Range(backlog[d][s]) \cup ({current[d][s]} \ {Nobody})
    BY <1>1, AtPlace
  <2>2. QED
    BY <2>1 DEF ConnectedTo
<1>5. ASSUME NEW c \in Clients
      PROVE  /\ client'[c] = "idle" <=> ConnectionsOf(c)' = {}
             /\ IsOneOrNone(ConnectionsOf(c)')
  <2>1. client'[c] = IF c \in ConnectedTo(d) THEN "idle" ELSE client[c]
    BY DEF Exits
  <2>2. /\ client[c] = "idle" <=> ConnectionsOf(c) = {}
        /\ \A x, y \in ConnectionsOf(c) : x = y
    BY DEF Connected, IsOneOrNone
  <2>3. ConnectionsOf(c)' = {p \in ConnectionsOf(c) : p[1] # d}
    BY <1>3 DEF ConnectionsOf
  <2>4. CASE c \in ConnectedTo(d)
    <3>1. PICK s \in Sockets : <<d, s>> \in ConnectionsOf(c)
      BY <1>4, <2>4
    <3>2. ConnectionsOf(c)' = {}
      BY <2>2, <2>3, <3>1
    <3>3. QED
      BY <2>1, <2>4, <3>2 DEF IsOneOrNone
  <2>5. CASE c \notin ConnectedTo(d)
    <3>1. \A p \in ConnectionsOf(c) : p[1] # d
      BY <1>4, <2>5 DEF ConnectionsOf
    <3>2. ConnectionsOf(c)' = ConnectionsOf(c)
      BY <2>3, <3>1
    <3>3. QED
      BY <2>1, <2>2, <2>5, <3>2 DEF IsOneOrNone
  <2>6. QED
    BY <2>4, <2>5
<1>6. QED
  BY <1>5 DEF Connected

LEMMA TypesNext ==
  ASSUME Shapes, QueuesOK, Connected, [Next]_vars
  PROVE  Shapes' /\ QueuesOK' /\ Connected'
<1>1. ASSUME UNCHANGED vars
      PROVE  Shapes' /\ QueuesOK' /\ Connected'
  BY <1>1 DEF vars, Shapes, QueuesOK, Connected, ConnectionsOf
<1>2. ASSUME NEW d \in Daemons, Progress(d)
      PROVE  Shapes' /\ QueuesOK' /\ Connected'
  <2>1. UNCHANGED <<backlog, current, client>>
    BY <1>2 DEF Progress, Launch, ClearPath, Cleared, BindListener,
                ListenersBound, SetPermissions, StartRoot, OpenStore,
                RestartStore, Finalize, RemovePublicPath, PathsClosed, StopRoot,
                RemovePath
  <2>2. Connected'
    BY <2>1, StaysPut
  <2>3. QED
    BY <1>2, <2>2, ProgressKeepsShapes
<1>3. ASSUME NEW d \in Daemons, Ending(d)
      PROVE  Shapes' /\ QueuesOK' /\ Connected'
  BY <1>3, EndingKeepsShapes, EndingCuts DEF Ending
<1>4. QED
  BY <1>1, <1>2, <1>3, Kinds, ConnectionKeeps

-----------------------------------------------------------------------------
(* Start, closing and files, step by step *)

\* A step of one process leaves the others as they are, and takes from them
\* the files it changes.
LEMMA OthersStay ==
  ASSUME Shapes, Started, NEW d \in Daemons, Progress(d)
  PROVE  /\ \A e \in Daemons \ {d} :
              /\ phase'[e] = phase[e]
              /\ todo'[e] = todo[e]
              /\ listening'[e] = listening[e]
              /\ store'[e] = store[e]
              /\ closed'[e] = closed[e]
              /\ \A s \in undisturbed'[e] :
                   s \in undisturbed[e] /\ files'[s] = files[s]
         /\ UNCHANGED current
         /\ ~Launch(d) =>
              phase[d] # "down" /\ undisturbed'[d] = undisturbed[d]
<1>1. /\ \A e \in Daemons \ {d} :
           /\ phase'[e] = phase[e]
           /\ todo'[e] = todo[e]
           /\ listening'[e] = listening[e]
           /\ store'[e] = store[e]
           /\ closed'[e] = closed[e]
      /\ UNCHANGED current
  BY DEF Progress, Launch, ClearPath, Cleared, BindListener, ListenersBound,
         SetPermissions, StartRoot, OpenStore, RestartStore, Finalize,
         RemovePublicPath, PathsClosed, StopRoot, RemovePath, Enters, Advances,
         Shapes
<1>2. CASE Launch(d)
  BY <1>1, <1>2 DEF Launch, Shapes
<1>3. CASE ~Launch(d)
  <2>1. phase[d] # "down"
    BY <1>3 DEF Progress, ClearPath, Cleared, BindListener, ListenersBound,
                SetPermissions, StartRoot, OpenStore, RestartStore, Finalize,
                RemovePublicPath, PathsClosed, StopRoot, RemovePath, InProgress,
                Done, Started, Up
  <2>2. Disturbs(d) \/ UNCHANGED <<files, undisturbed>>
    BY <1>3 DEF Progress, ClearPath, Cleared, BindListener, ListenersBound,
                SetPermissions, StartRoot, OpenStore, RestartStore, Finalize,
                RemovePublicPath, PathsClosed, StopRoot, RemovePath
  <2>3. /\ undisturbed'[d] = undisturbed[d]
        /\ \A e \in Daemons \ {d} : \A s \in undisturbed'[e] :
             s \in undisturbed[e] /\ files'[s] = files[s]
    BY <2>2 DEF Disturbs
  <2>4. QED
    BY <1>1, <1>3, <2>1, <2>3
<1>4. QED
  BY <1>2, <1>3

LEMMA ProgressKeepsStart ==
  ASSUME Shapes, QueuesOK, Started, NEW d \in Daemons, Progress(d)
  PROVE  Started'
<1> DEFINE StartedOne(e) ==
             /\ Up(e) <=> store[e] # "closed"
             /\ Up(e) \/ phase[e] = "permitting" => listening[e] = Sockets
             /\ phase[e] = "binding" => listening[e] \cup Range(todo[e]) = Sockets
             /\ ~Up(e) => \A s \in Sockets : current[e][s] = Nobody
<1>1. \A e \in Daemons : StartedOne(e)
  BY DEF Started
<1>2. ASSUME NEW e \in Daemons \ {d}
      PROVE  StartedOne(e)'
  BY <1>1, OthersStay DEF Up
<1>3. /\ \A p \in Phases : \A list :
           Enters(d, p, list) => phase'[d] = p /\ todo'[d] = list
      /\ Advances(d) => phase'[d] = phase[d] /\ todo'[d] = Tail(todo[d])
      /\ Range(Bound) = Sockets
      /\ Range(<<>>) = {}
      /\ {"clearing", "binding", "permitting", "serving", "closing", "removing"}
           \subseteq Phases
  BY BoundIsList, EmptyQueue DEF Enters, Advances, Shapes, Phases
<1>4. /\ d \in DOMAIN store /\ d \in DOMAIN listening
      /\ listening[d] \subseteq Sockets
      /\ UNCHANGED current
  BY OthersStay DEF Shapes
<1>5. ASSUME UNCHANGED <<store, listening>>, ~Up(d), ~Up(d)', phase'[d] # "permitting",
             phase'[d] = "binding" => listening[d] \cup Range(todo'[d]) = Sockets
      PROVE  StartedOne(d)'
  BY <1>1, <1>4, <1>5
<1>6. ASSUME UNCHANGED listening, Up(d), Up(d)', store'[d] # "closed"
      PROVE  StartedOne(d)'
  BY <1>1, <1>6 DEF Up
<1>7. StartedOne(d)'
  <2>a. CASE Launch(d)
    BY <1>3, <1>5, <2>a DEF Launch, Up
  <2>b. CASE ClearPath(d)
    BY <1>3, <1>5, <2>b DEF ClearPath, InProgress, Up
  <2>c. CASE Cleared(d)
    BY <1>3, <1>4, <1>5, <2>c DEF Cleared, Done, Up
  <2>d. CASE BindListener(d)
    <3>1. /\ listening'[d] = listening[d] \cup {NextSocket(d)}
          /\ phase[d] = "binding" /\ phase'[d] = "binding"
          /\ UNCHANGED store /\ todo[d] # <<>>
          /\ todo'[d] = Tail(todo[d])
      BY <1>3, <1>4, <2>d DEF BindListener, InProgress
    <3>2. Range(todo[d]) = {NextSocket(d)} \cup Range(Tail(todo[d]))
      BY <3>1, ListsInPhase
    <3>3. QED
      BY <1>1, <1>4, <3>1, <3>2 DEF Up
  <2>e. CASE ListenersBound(d)
    BY <1>1, <1>3, <1>4, <2>e DEF ListenersBound, Done, Up
  <2>f. CASE SetPermissions(d)
    BY <1>1, <1>3, <1>4, <2>f DEF SetPermissions, InProgress, Up
  <2>g. CASE StartRoot(d)
    BY <1>1, <1>3, <1>4, <2>g DEF StartRoot, Done, Up
  <2>h. CASE OpenStore(d)
    BY <1>1, <1>4, <2>h DEF OpenStore, Up
  <2>i. CASE RestartStore(d)
    BY <1>1, <1>4, <2>i DEF RestartStore, Up
  <2>j. CASE Finalize(d)
    BY <1>1, <1>3, <1>6, <2>j DEF Finalize, Up
  <2>k. CASE RemovePublicPath(d)
    BY <1>1, <1>3, <1>6, <2>k DEF RemovePublicPath, InProgress, Up
  <2>l. CASE PathsClosed(d)
    BY <1>1, <1>3, <1>6, <2>l DEF PathsClosed, Done, Up
  <2>m. CASE StopRoot(d)
    BY <1>1, <1>3, <1>4, <2>m DEF StopRoot, IsFree, Up
  <2>n. CASE RemovePath(d)
    BY <1>3, <1>5, <2>n DEF RemovePath, InProgress, Up
  <2>z. QED
    BY <2>a, <2>b, <2>c, <2>d, <2>e, <2>f, <2>g, <2>h, <2>i, <2>j, <2>k, <2>l,
       <2>m, <2>n DEF Progress
<1>8. QED
  BY <1>2, <1>7 DEF Started

\* A process that closes has closed its public sockets, and goes through their
\* files.
LEMMA ProgressKeepsClosing ==
  ASSUME Shapes, QueuesOK, Started, ClosingPublic, NEW d \in Daemons,
         Progress(d)
  PROVE  ClosingPublic'
<1>1. \A e \in Daemons \ {d} :
        phase'[e] = phase[e] /\ todo'[e] = todo[e] /\ closed'[e] = closed[e]
  BY OthersStay
<1>2. ASSUME phase'[d] = "closing"
      PROVE  closed'[d] /\ Range(todo'[d]) \subseteq {"ordinary", "meta"}
  <2>1. CASE Finalize(d)
    BY <2>1, PublicFilesIsList DEF Finalize, Enters, Shapes
  <2>2. CASE RemovePublicPath(d)
    <3>1. /\ phase[d] = "closing" /\ todo[d] # <<>>
          /\ todo'[d] = Tail(todo[d]) /\ UNCHANGED closed
      BY <2>2, AdvanceKeepsList DEF RemovePublicPath, InProgress
    <3>2. Range(Tail(todo[d])) \subseteq Range(todo[d])
      BY <3>1, ListsInPhase
    <3>3. QED
      BY <3>1, <3>2 DEF ClosingPublic
  <2>3. CASE OpenStore(d) \/ RestartStore(d)
    BY <1>2, <2>3 DEF OpenStore, RestartStore, ClosingPublic
  <2>4. CASE ~Finalize(d) /\ ~RemovePublicPath(d) /\ ~OpenStore(d) /\ ~RestartStore(d)
    BY <1>2, <2>4
    DEF Progress, Launch, ClearPath, Cleared, BindListener, ListenersBound,
        SetPermissions, StartRoot, PathsClosed, StopRoot, RemovePath, Enters,
        Advances, InProgress, Done, Shapes
  <2>5. QED
    BY <2>1, <2>2, <2>3, <2>4
<1>3. QED
  BY <1>1, <1>2 DEF ClosingPublic

\* The files a process has to itself, as it goes on.
LEMMA ProgressKeepsFiles ==
  ASSUME Shapes, QueuesOK, Started, ClosingPublic, Owned, NEW d \in Daemons,
         Progress(d), NEW s \in undisturbed'[d]
  PROVE  FileFollows(d, s)'
<1>1. ~Launch(d) => s \in Sockets /\ FileFollows(d, s)
  BY OthersStay DEF Owned, Shapes
<1>2. s \in Sockets
  BY <1>1 DEF Launch, Shapes
<1>3. /\ \A p \in Phases : \A list :
           Enters(d, p, list) => phase'[d] = p /\ todo'[d] = list
      /\ Advances(d) => phase'[d] = phase[d] /\ todo'[d] = Tail(todo[d])
      /\ Range(Bound) = Sockets
      /\ Range(<<>>) = {}
      /\ {"clearing", "binding", "permitting", "serving", "closing", "removing"}
           \subseteq Phases
  BY BoundIsList, EmptyQueue DEF Enters, Advances, Shapes, Phases
<1>4. d \in DOMAIN closed
  BY DEF Shapes
<1>5. ASSUME todo[d] # <<>>
      PROVE  /\ NextSocket(d) \in Sockets
             /\ Range(todo[d]) = {NextSocket(d)} \cup Range(Tail(todo[d]))
             /\ NextSocket(d) \notin Range(Tail(todo[d]))
  BY <1>5, ListsInPhase
<1>6. ASSUME NEW t \in Sockets, RemovesFile(t)
      PROVE  files'[s] = IF s = t THEN NoFile ELSE files[s]
  BY <1>2, <1>6 DEF RemovesFile, Shapes
<1>a. CASE Launch(d)
  BY <1>2, <1>3, <1>a DEF Launch, FileFollows, Up
<1>b. CASE ClearPath(d)
  <2>1. ~Launch(d)
    BY <1>b DEF Launch, ClearPath, InProgress
  <2>2. QED
    BY <1>1, <1>3, <1>5, <1>6, <1>b, <2>1 DEF ClearPath, InProgress,
       FileFollows, Up
<1>c. CASE Cleared(d)
  <2>1. ~Launch(d)
    BY <1>c DEF Launch, Cleared, Done
  <2>2. QED
    BY <1>1, <1>3, <1>c, <2>1 DEF Cleared, Done, FileFollows, Up
<1>d. CASE BindListener(d)
  <2>1. ~Launch(d)
    BY <1>d DEF Launch, BindListener, InProgress
  <2>2. /\ phase[d] = "binding" /\ todo[d] # <<>> /\ Advances(d)
        /\ files'[s] = IF s = NextSocket(d) THEN d ELSE files[s]
    BY <1>2, <1>d DEF BindListener, InProgress, Shapes
  <2>3. QED
    BY <1>1, <1>3, <1>5, <2>1, <2>2 DEF FileFollows, Up
<1>e. CASE ListenersBound(d)
  <2>1. ~Launch(d)
    BY <1>e DEF Launch, ListenersBound, Done
  <2>2. QED
    BY <1>1, <1>3, <1>e, <2>1 DEF ListenersBound, Done, FileFollows, Up
<1>f. CASE SetPermissions(d)
  <2>1. ~Launch(d)
    BY <1>f DEF Launch, SetPermissions, InProgress
  <2>2. QED
    BY <1>1, <1>3, <1>f, <2>1 DEF SetPermissions, InProgress, FileFollows, Up
<1>g. CASE StartRoot(d)
  <2>1. ~Launch(d)
    BY <1>g DEF Launch, StartRoot, Done
  <2>2. QED
    BY <1>1, <1>3, <1>g, <2>1 DEF StartRoot, Done, FileFollows, Up
<1>h. CASE OpenStore(d) \/ RestartStore(d)
  <2>1. /\ phase[d] # "down"
        /\ UNCHANGED <<files, phase, todo, closed>>
    BY <1>h DEF OpenStore, RestartStore, Started, Up
  <2>2. ~Launch(d)
    BY <2>1 DEF Launch
  <2>3. QED
    BY <1>1, <2>1, <2>2 DEF FileFollows, Up
<1>j. CASE Finalize(d)
  <2>1. ~Launch(d)
    BY <1>j DEF Launch, Finalize
  <2>2. QED
    BY <1>1, <1>3, <1>4, <1>j, <2>1 DEF Finalize, FileFollows, Up
<1>k. CASE RemovePublicPath(d)
  <2>1. ~Launch(d)
    BY <1>k DEF Launch, RemovePublicPath, InProgress
  <2>2. closed[d] /\ NextSocket(d) \in {"ordinary", "meta"}
    BY <1>5, <1>k DEF RemovePublicPath, InProgress, ClosingPublic
  <2>3. QED
    BY <1>1, <1>3, <1>5, <1>6, <1>k, <2>1, <2>2
       DEF RemovePublicPath, InProgress, FileFollows, Up
<1>l. CASE PathsClosed(d)
  <2>1. ~Launch(d)
    BY <1>l DEF Launch, PathsClosed, Done
  <2>2. QED
    BY <1>1, <1>3, <1>l, <2>1 DEF PathsClosed, Done, FileFollows, Up
<1>m. CASE StopRoot(d)
  <2>1. ~Launch(d)
    BY <1>m DEF Launch, StopRoot
  <2>2. QED
    BY <1>2, <1>3, <1>m, <2>1 DEF StopRoot, FileFollows, Up
<1>n. CASE RemovePath(d)
  <2>1. ~Launch(d)
    BY <1>n DEF Launch, RemovePath, InProgress
  <2>2. QED
    BY <1>1, <1>3, <1>5, <1>6, <1>n, <2>1 DEF RemovePath, InProgress,
       FileFollows, Up
<1>z. QED
  BY <1>a, <1>b, <1>c, <1>d, <1>e, <1>f, <1>g, <1>h, <1>j, <1>k, <1>l, <1>m,
     <1>n DEF Progress

LEMMA ProgressKeepsOwned ==
  ASSUME Shapes, QueuesOK, Started, ClosingPublic, Owned, NEW d \in Daemons,
         Progress(d)
  PROVE  Owned'
<1>1. ASSUME NEW e \in Daemons \ {d}, NEW s \in undisturbed'[e]
      PROVE  FileFollows(e, s)'
  <2>1. /\ s \in undisturbed[e] /\ files'[s] = files[s]
        /\ phase'[e] = phase[e] /\ todo'[e] = todo[e] /\ closed'[e] = closed[e]
    BY <1>1, OthersStay
  <2>2. FileFollows(e, s)
    BY <2>1 DEF Owned
  <2>3. QED
    BY <2>1, <2>2 DEF FileFollows, Up
<1>2. \A s \in undisturbed'[d] : FileFollows(d, s)'
  BY ProgressKeepsFiles
<1>3. QED
  BY <1>1, <1>2 DEF Owned

\* A process that ends leaves names behind where it was, and has no file to
\* itself any more.
LEMMA EndingKeeps ==
  ASSUME Shapes, Started, ClosingPublic, Owned, NEW d \in Daemons, Ending(d)
  PROVE  Started' /\ ClosingPublic' /\ Owned'
<1>1. PICK how \in Endings : Exits(d, how)
  BY DEF Ending
<1>2. /\ phase[d] # "down" /\ phase'[d] = "down"
      /\ store'[d] = "closed"
      /\ \A s \in Sockets : current'[d][s] = Nobody
      /\ undisturbed'[d] = {}
  BY <1>1 DEF Ending, Exits, Enters, Shapes
<1>3. \A e \in Daemons \ {d} :
        /\ phase'[e] = phase[e]
        /\ todo'[e] = todo[e]
        /\ listening'[e] = listening[e]
        /\ store'[e] = store[e]
        /\ closed'[e] = closed[e]
        /\ current'[e] = current[e]
        /\ undisturbed'[e] = undisturbed[e]
  BY <1>1 DEF Exits, Enters, Shapes
<1>4. Started'
  BY <1>2, <1>3 DEF Started, Up
<1>5. ClosingPublic'
  BY <1>2, <1>3 DEF ClosingPublic
<1>6. ASSUME NEW e \in Daemons \ {d}, NEW s \in undisturbed'[e]
      PROVE  FileFollows(e, s)'
  <2>1. s \in undisturbed[e] /\ s \in Sockets
    BY <1>3, <1>6 DEF Shapes
  <2>2. files[s] \in {NoFile, e} => files'[s] = files[s]
    BY <1>1, <2>1, ServingAssumption DEF Exits
  <2>3. FileFollows(e, s)
    BY <2>1 DEF Owned
  <2>4. phase'[e] = phase[e] /\ todo'[e] = todo[e] /\ closed'[e] = closed[e]
    BY <1>3
  <2>5. QED
    BY <2>2, <2>3, <2>4 DEF FileFollows, Up
<1>7. Owned'
  BY <1>2, <1>6 DEF Owned
<1>8. QED
  BY <1>4, <1>5, <1>7

-----------------------------------------------------------------------------
(* The invariant *)

LEMMA IInvInit == Init => IInv
<1> SUFFICES ASSUME Init PROVE IInv
  OBVIOUS
<1>1. Shapes
  BY ShapesInit
<1>2. Connected
  <2>1. \A c \in Clients : ConnectionsOf(c) = {}
    BY ServingAssumption, EmptyQueue DEF Init, ConnectionsOf
  <2>2. QED
    BY <2>1 DEF Init, Connected, IsOneOrNone
<1>3. QueuesOK /\ Started /\ ClosingPublic /\ Owned
  BY EmptyQueue DEF Init, QueuesOK, Started, ClosingPublic, Owned, Up
<1>4. QED
  BY <1>1, <1>2, <1>3, TypeParts DEF IInv

LEMMA IInvNext == IInv /\ [Next]_vars => IInv'
<1> SUFFICES ASSUME IInv, [Next]_vars PROVE IInv'
  OBVIOUS
<1>1. Shapes /\ Connected /\ QueuesOK /\ Started /\ ClosingPublic /\ Owned
  BY TypeParts DEF IInv
<1>2. Shapes' /\ QueuesOK' /\ Connected'
  BY <1>1, TypesNext
<1>3. TypeOK'
  <2>1. TypeOK' <=> Shapes' /\ Connected'
    BY DEF TypeOK, Shapes, Connected, Endings
  <2>2. QED
    BY <1>2, <2>1
<1>4. Started' /\ ClosingPublic' /\ Owned'
  <2>1. CASE UNCHANGED vars
    BY <1>1, <2>1 DEF vars, Started, ClosingPublic, Owned, FileFollows, Up
  <2>2. ASSUME NEW d \in Daemons, Progress(d)
        PROVE  Started' /\ ClosingPublic' /\ Owned'
    BY <1>1, <2>2, ProgressKeepsStart, ProgressKeepsClosing, ProgressKeepsOwned
  <2>3. ASSUME NEW d \in Daemons, Ending(d)
        PROVE  Started' /\ ClosingPublic' /\ Owned'
    BY <1>1, <2>3, EndingKeeps
  <2>4. CASE Connection
    <3>1. /\ UNCHANGED Elsewhere
          /\ \A d \in Daemons, s \in Sockets :
               current'[d][s] = current[d][s] \/ current'[d][s] = Nobody \/ Up(d)
      BY <1>1, <2>4, ConnectionKeeps
    <3>2. Started'
      BY <1>1, <3>1 DEF Started, Up, Elsewhere
    <3>3. ClosingPublic' /\ Owned'
      BY <1>1, <3>1 DEF ClosingPublic, Owned, FileFollows, Up, Elsewhere
    <3>4. QED
      BY <3>2, <3>3
  <2>5. QED
    BY <2>1, <2>2, <2>3, <2>4, Kinds
<1>5. QED
  BY <1>2, <1>3, <1>4 DEF IInv

\* The strengthening: its parts keep each other, on any configuration, for any
\* processes and clients.
THEOREM Inductive == Spec => []IInv
<1>1. Init => IInv
  BY IInvInit
<1>2. IInv /\ [Next]_vars => IInv'
  BY IInvNext
<1>3. QED
  BY <1>1, <1>2, PTL DEF Spec

-----------------------------------------------------------------------------
(* Invariants *)

\* Every variable stays in its type, and a client that has a connection has
\* it in one place: a process that ends takes its connections with it, and no
\* thread holds a client that waits elsewhere.
THEOREM TypeCorrect == Spec => []TypeOK
<1>1. IInv => TypeOK
  BY DEF IInv
<1>2. QED
  BY <1>1, Inductive, PTL

\* No client is with a server thread before every listener is bound and the
\* root has started, nor once the root is stopped (daemon.rs, bind before
\* serve_forever).
THEOREM NobodyIsServedEarly == Spec => []ServedOnceStarted
<1>1. IInv => ServedOnceStarted
  BY DEF IInv, Started, Up, ServedOnceStarted
<1>2. QED
  BY <1>1, Inductive, PTL

\* A daemon in service is where its socket files say, each of them until
\* another process removes or binds that one, apart from the public ones it has
\* closed; whether its store could be opened makes no difference (daemon.rs,
\* bind and PublicSockets.close).
THEOREM UndisturbedIsReachable == Spec => []ReachableIfUndisturbed
<1>1. IInv => ReachableIfUndisturbed
  BY DEF IInv, Owned, FileFollows, Up, ReachableIfUndisturbed
<1>2. QED
  BY <1>1, Inductive, PTL

-----------------------------------------------------------------------------
(* Action properties *)

\* Which steps end a process in one of these three ways.
LEMMA EndsBy ==
  ASSUME IInv, [Next]_vars, NEW d \in Daemons, exit'[d] # exit[d],
         exit'[d] \in {"inUse", "missing", "stopped"}
  PROVE  \/ /\ InProgress(d, "binding") /\ files[NextSocket(d)] # NoFile
            /\ Exits(d, "inUse")
         \/ /\ InProgress(d, "permitting") /\ files[NextSocket(d)] = NoFile
            /\ Exits(d, "missing")
         \/ ShutDown(d)
<1>1. exit \in [Daemons -> Endings]
  BY DEF IInv, TypeOK, Endings
<1>2. \A e \in Daemons : \A how : Exits(e, how) => exit' = [exit EXCEPT ![e] = how]
  BY DEF Exits
<1>3. ASSUME NEW e \in Daemons
      PROVE  ~Progress(e)
  BY <1>1
     DEF Progress, Launch, ClearPath, Cleared, BindListener, ListenersBound,
         SetPermissions, StartRoot, OpenStore, RestartStore, Finalize,
         RemovePublicPath, PathsClosed, StopRoot, RemovePath
<1>4. ~Connection /\ ~UNCHANGED vars
  BY DEF Connection, ServeStep, ClientStep, Accept, Answer, DropClient, Connect,
         Send, HangUp, vars
<1>5. PICK e \in Daemons : StartFails(e) \/ ShutDown(e) \/ Kill(e)
  BY <1>3, <1>4 DEF Next, StartStep, StoreStep, CloseStep, StopStep, Progress,
     Connection
<1>6. \E how : Exits(e, how)
  BY <1>5 DEF StartFails, ShutDown, Kill
<1>7. e = d
  BY <1>1, <1>2, <1>6
<1>8. \A how : Exits(d, how) => exit'[d] = how
  BY <1>1, <1>2
<1>9. QED
  BY <1>5, <1>7, <1>8 DEF StartFails, Kill

\* A start that fails over a socket file is one another process got in the way
\* of, at that file: neither what a killed or failed process leaves behind nor
\* a daemon that merely serves blocks it.
THEOREM LeftoversAreCleared == Spec => LeftoversDoNotBlock
<1>1. ASSUME IInv, [Next]_vars, NEW d \in Daemons, exit'[d] # exit[d],
             exit'[d] \in {"inUse", "missing"}, NextSocket(d) \in undisturbed[d]
      PROVE  FALSE
  <2>1. FileFollows(d, NextSocket(d)) /\ Shapes /\ QueuesOK
    BY <1>1, TypeParts DEF IInv, Owned
  <2>2. todo[d] # <<>> => NextSocket(d) \in Range(todo[d])
    BY <2>1, ListsInPhase
  <2>3. NoFile \notin Daemons
    BY ServingAssumption
  <2>4. ~ShutDown(d)
    BY <1>1, <2>1 DEF ShutDown, Exits, Shapes
  <2>5. InProgress(d, "binding") => files[NextSocket(d)] = NoFile
    BY <2>1, <2>2 DEF InProgress, FileFollows
  <2>6. InProgress(d, "permitting") => files[NextSocket(d)] # NoFile
    BY <2>1, <2>3 DEF InProgress, FileFollows
  <2>7. QED
    BY <1>1, <2>4, <2>5, <2>6, EndsBy
<1> DEFINE P == \A d \in Daemons :
                  exit'[d] # exit[d] /\ exit'[d] \in {"inUse", "missing"} =>
                    NextSocket(d) \notin undisturbed[d]
<1>2. IInv /\ [Next]_vars => [P]_vars
  BY <1>1
<1>3. QED
  BY <1>2, Inductive, PTL DEF Spec, LeftoversDoNotBlock

\* When a daemon stops, no socket file is left but those another process was
\* at; those of its closed public sockets are gone as well.
THEOREM StopLeavesNoFile == Spec => ShutdownLeavesNoFile
<1>1. ASSUME IInv, [Next]_vars, NEW d \in Daemons, exit'[d] # exit[d],
             exit'[d] = "stopped", NEW s \in undisturbed[d]
      PROVE  files'[s] = NoFile
  <2>1. FileFollows(d, s) /\ Shapes
    BY <1>1, TypeParts DEF IInv, Owned
  <2>2. \A how : Exits(d, how) => exit'[d] = how
    BY <2>1 DEF Exits, Shapes
  <2>3. ShutDown(d)
    BY <1>1, <2>2, EndsBy
  <2>4. files[s] = NoFile
    BY <2>1, <2>3, EmptyQueue DEF ShutDown, Done, FileFollows
  <2>5. s \in Sockets
    BY <2>1 DEF Shapes
  <2>6. QED
    BY <2>3, <2>4, <2>5, ServingAssumption DEF ShutDown, Exits
<1> DEFINE P == \A d \in Daemons :
                  exit'[d] # exit[d] /\ exit'[d] = "stopped" =>
                    \A s \in undisturbed[d] : files'[s] = NoFile
<1>2. IInv /\ [Next]_vars => [P]_vars
  BY <1>1
<1>3. QED
  BY <1>2, Inductive, PTL DEF Spec, ShutdownLeavesNoFile
==============================================================================
