------------------------------- MODULE Serving -------------------------------
(***************************************************************************)
(* Processes of persona-spirit-daemon that run on one configuration, one   *)
(* after another or at the same time: how each replaces the socket files,  *)
(* binds its listeners, opens the store, serves, closes its public sockets *)
(* and stops (daemon.rs, PersonaDaemon and BoundDaemon), and the clients   *)
(* that wait at a listener for a server thread that takes one at a time.   *)
(*                                                                         *)
(* A socket file is a name.  A process removes names without looking whose *)
(* they are, and a name can outlive the process that bound it.             *)
(***************************************************************************)
EXTENDS Integers, Sequences, FiniteSets, SequencesExt, Listing

CONSTANTS
  Daemons,        \* processes of the daemon on this configuration
  Bound,          \* its sockets, in the order bind goes through them
  Serves,         \* sockets a process serves: all of them (serve_forever), or
                  \* those of a bounded variant, which shuts down at its end
  Misconfigured,  \* processes whose engine-management mode or path is missing
  Clients,        \* clients
  SocketOf,       \* the socket each of them connects to
  MaxLaunches     \* bound: launches in a behaviour

VARIABLES
  files,        \* what each socket file names: a listener's process, a process
                \* that is gone, or there is no file
  phase,        \* how far each process is
  todo,         \* the sockets its present phase has still to go through
  listening,    \* its listeners
  store,        \* its store
  closed,       \* its public sockets are closed
  backlog,      \* its listeners' clients not accepted yet
  current,      \* the client each of its server threads is with
  client,       \* what each client waits for
  exit,         \* how the last run of each process ended
  undisturbed,  \* history: the sockets whose file no other process has bound or
                \* removed since this one was launched
  launches      \* launches so far

vars == <<files, phase, todo, listening, store, closed, backlog, current,
          client, exit, undisturbed, launches>>

-----------------------------------------------------------------------------
(* Data *)

AllSockets == <<"ordinary", "meta", "upgrade", "engine">>

Sockets == Range(Bound)

\* PublicSockets.close removes these two, a shutdown all of them.
PublicFiles == Retained(Bound, {"ordinary", "meta"})

ServesForever(d) == Serves[d] = Sockets

NoFile == "none"
Stale == "stale"
Nobody == "nobody"

ASSUME ServingAssumption ==
  /\ Bound \in Seq(Range(AllSockets))
  /\ IsInjective(Bound)
  /\ Serves \in [Daemons -> SUBSET Sockets]
  /\ Misconfigured \subseteq Daemons
  /\ SocketOf \in [Clients -> Sockets]
  /\ MaxLaunches \in Nat
  /\ {NoFile, Stale} \cap Daemons = {}
  /\ Nobody \notin Clients

Init ==
  /\ files = [s \in Sockets |-> NoFile]
  /\ phase = [d \in Daemons |-> "down"]
  /\ todo = [d \in Daemons |-> <<>>]
  /\ listening = [d \in Daemons |-> {}]
  /\ store = [d \in Daemons |-> "closed"]
  /\ closed = [d \in Daemons |-> FALSE]
  /\ backlog = [d \in Daemons |-> [s \in Sockets |-> <<>>]]
  /\ current = [d \in Daemons |-> [s \in Sockets |-> Nobody]]
  /\ client = [c \in Clients |-> "idle"]
  /\ exit = [d \in Daemons |-> "none"]
  /\ undisturbed = [d \in Daemons |-> {}]
  /\ launches = 0

-----------------------------------------------------------------------------
(* The life of a process *)

Enters(d, p, sockets) ==
  /\ phase' = [phase EXCEPT ![d] = p]
  /\ todo' = [todo EXCEPT ![d] = sockets]

InProgress(d, p) == phase[d] = p /\ todo[d] # <<>>

Done(d, p) == phase[d] = p /\ todo[d] = <<>>

NextSocket(d) == Head(todo[d])

\* The next socket of the phase has been dealt with.
Advances(d) ==
  /\ todo' = [todo EXCEPT ![d] = Tail(@)]
  /\ UNCHANGED phase

\* The clients that have a connection to the process.
ConnectedTo(d) ==
  UNION {Range(backlog[d][s]) \cup ({current[d][s]} \ {Nobody}) : s \in Sockets}

\* A process is gone: its listeners with it, its clients' connections are cut,
\* the store is free, and its socket files name nobody.
Exits(d, how) ==
  /\ Enters(d, "down", <<>>)
  /\ files' = [s \in Sockets |-> IF files[s] = d THEN Stale ELSE files[s]]
  /\ listening' = [listening EXCEPT ![d] = {}]
  /\ store' = [store EXCEPT ![d] = "closed"]
  /\ closed' = [closed EXCEPT ![d] = FALSE]
  /\ backlog' = [backlog EXCEPT ![d] = [s \in Sockets |-> <<>>]]
  /\ current' = [current EXCEPT ![d] = [s \in Sockets |-> Nobody]]
  /\ client' = [c \in Clients |->
       IF c \in ConnectedTo(d) THEN "idle" ELSE client[c]]
  /\ exit' = [exit EXCEPT ![d] = how]
  /\ undisturbed' = [undisturbed EXCEPT ![d] = {}]
  /\ UNCHANGED launches

Launch(d) ==
  /\ phase[d] = "down"
  /\ launches < MaxLaunches
  /\ launches' = launches + 1
  /\ Enters(d, "clearing", Bound)
  /\ undisturbed' = [undisturbed EXCEPT ![d] = Sockets]
  /\ exit' = [exit EXCEPT ![d] = "none"]
  /\ UNCHANGED <<files, listening, store, closed, backlog, current, client>>

\* SocketBinding::remove: by name, and a missing file is fine.
RemovesFile(s) == files' = [files EXCEPT ![s] = NoFile]

\* The step takes from the other processes the socket files it changes.
Disturbs(d) ==
  undisturbed' = [e \in Daemons |->
    IF e = d THEN undisturbed[e]
    ELSE {s \in undisturbed[e] : files'[s] = files[s]}]

\* The mode and path of the engine-management socket are compared when the
\* files of the other three are gone.
RejectsConfiguration(d) ==
  /\ d \in Misconfigured
  /\ Range(todo[d]) \subseteq {"engine"}

\* Mutant: a file that is there is left to the listener.
ClearsNothing(d) ==
  /\ InProgress(d, "clearing")
  /\ ~RejectsConfiguration(d)
  /\ Advances(d)
  /\ UNCHANGED <<files, listening, store, closed, backlog, current, client,
                 exit, undisturbed, launches>>

\* SocketBinding::bind
ClearPath(d) ==
  /\ InProgress(d, "clearing")
  /\ ~RejectsConfiguration(d)
  /\ RemovesFile(NextSocket(d))
  /\ Disturbs(d)
  /\ Advances(d)
  /\ UNCHANGED <<listening, store, closed, backlog, current, client, exit,
                 launches>>

Cleared(d) ==
  /\ Done(d, "clearing")
  /\ ~RejectsConfiguration(d)
  /\ Enters(d, "binding", Bound)
  /\ UNCHANGED <<files, listening, store, closed, backlog, current, client,
                 exit, undisturbed, launches>>

\* UnixListener::bind makes the file; clients can connect from now on.
BindListener(d) ==
  /\ InProgress(d, "binding")
  /\ files[NextSocket(d)] = NoFile
  /\ files' = [files EXCEPT ![NextSocket(d)] = d]
  /\ Disturbs(d)
  /\ listening' = [listening EXCEPT ![d] = @ \cup {NextSocket(d)}]
  /\ Advances(d)
  /\ UNCHANGED <<store, closed, backlog, current, client, exit, launches>>

\* All are bound, and Persona's handoff-control socket, if there is one,
\* answers.
ListenersBound(d) ==
  /\ Done(d, "binding")
  /\ Enters(d, "permitting", Bound)
  /\ UNCHANGED <<files, listening, store, closed, backlog, current, client,
                 exit, undisturbed, launches>>

\* set_permissions goes by the name as well, whosever file it is by now.
SetPermissions(d) ==
  /\ InProgress(d, "permitting")
  /\ files[NextSocket(d)] # NoFile
  /\ Advances(d)
  /\ UNCHANGED <<files, listening, store, closed, backlog, current, client,
                 exit, undisturbed, launches>>

\* bind returns an error: the process ends and leaves its files behind.  Any
\* call of the system may fail; these are told apart: the configuration that
\* is refused, the name that is in use and the file that is not there.
StartFails(d) ==
  \/ /\ phase[d] = "clearing"
     /\ RejectsConfiguration(d)
     /\ Exits(d, "configuration")
  \/ /\ InProgress(d, "binding")
     /\ files[NextSocket(d)] # NoFile
     /\ Exits(d, "inUse")
  \/ /\ InProgress(d, "permitting")
     /\ files[NextSocket(d)] = NoFile
     /\ Exits(d, "missing")
  \/ /\ phase[d] \in {"clearing", "binding", "permitting"}
     /\ Exits(d, "failed")

\* SpiritRoot::start waits for the root and not for its children: the process
\* serves, and asks of the store wait in its mailbox until it is open.
StartRoot(d) ==
  /\ Done(d, "permitting")
  /\ store' = [store EXCEPT ![d] = "opening"]
  /\ Enters(d, "serving", <<>>)
  /\ UNCHANGED <<files, listening, closed, backlog, current, client, exit,
                 undisturbed, launches>>

StoreTaken(d) == \E e \in Daemons \ {d} : store[e] = "open"

\* The engine lets one process open the database, and may fail to open it for
\* that process, too: the file cannot be read or is of another schema.  Nobody
\* looks at how the store child ended; the asks it had not answered fail.
OpenStore(d) ==
  /\ store[d] = "opening"
  /\ \E outcome \in {"open", "failed"} :
       /\ StoreTaken(d) => outcome = "failed"
       /\ store' = [store EXCEPT ![d] = outcome]
  /\ UNCHANGED <<files, phase, todo, listening, closed, backlog, current,
                 client, exit, undisturbed, launches>>

\* The child is supervised: it may be started again.
RestartStore(d) ==
  /\ store[d] = "failed"
  /\ store' = [store EXCEPT ![d] = "opening"]
  /\ UNCHANGED <<files, phase, todo, listening, closed, backlog, current,
                 client, exit, undisturbed, launches>>

\* The process is killed.
Kill(d) == phase[d] # "down" /\ Exits(d, "killed")

-----------------------------------------------------------------------------
(* Server threads *)

\* Mutant: the threads start before the root.
ThreadsRunEarly(d) == phase[d] \in {"permitting", "serving", "closing"}

\* serve_forever starts them when bind has returned.
ThreadsRun(d) == phase[d] \in {"serving", "closing"}

\* Mutant: one thread for all sockets.
IsFreeOfAll(d, s) == \A t \in Sockets : current[d][t] = Nobody

IsFree(d, s) == current[d][s] = Nobody

Accept(d, s) ==
  /\ ThreadsRun(d)
  /\ s \in Serves[d]
  /\ IsFree(d, s)
  /\ backlog[d][s] # <<>>
  /\ current' = [current EXCEPT ![d][s] = Head(backlog[d][s])]
  /\ backlog' = [backlog EXCEPT ![d][s] = Tail(@)]
  /\ UNCHANGED <<files, phase, todo, listening, store, closed, client, exit,
                 undisturbed, launches>>

\* The thread of s is with a client that is in this state.
IsWith(d, s, state) ==
  current[d][s] # Nobody /\ client[current[d][s]] = state

\* Mutant: the thread goes on with the stream its client has left.
AnswerKeepsStream(d, s) ==
  /\ ThreadsRun(d)
  /\ IsWith(d, s, "sent")
  /\ s = "upgrade" => phase[d] # "closing"
  /\ client' = [client EXCEPT ![current[d][s]] =
                  IF s = "engine" THEN "connected" ELSE "idle"]
  /\ UNCHANGED <<files, phase, todo, listening, store, closed, backlog,
                 current, exit, undisturbed, launches>>

\* The frame is read, the root asked and the reply written, or there is none
\* because an ask has failed; the connection ends with it.  Engine management
\* asks nobody and goes on reading.  The upgrade thread first finishes closing.
Answer(d, s) ==
  /\ ThreadsRun(d)
  /\ IsWith(d, s, "sent")
  /\ s = "upgrade" => phase[d] # "closing"
  /\ client' = [client EXCEPT ![current[d][s]] =
                  IF s = "engine" THEN "connected" ELSE "idle"]
  /\ current' = IF s = "engine" THEN current
                ELSE [current EXCEPT ![d][s] = Nobody]
  /\ UNCHANGED <<files, phase, todo, listening, store, closed, backlog, exit,
                 undisturbed, launches>>

\* A read that meets the end of the stream, or a write that fails.
DropClient(d, s) ==
  /\ ThreadsRun(d)
  /\ IsWith(d, s, "gone")
  /\ client' = [client EXCEPT ![current[d][s]] = "idle"]
  /\ current' = [current EXCEPT ![d][s] = Nobody]
  /\ UNCHANGED <<files, phase, todo, listening, store, closed, backlog, exit,
                 undisturbed, launches>>

\* Mutant: all socket files go.
FinalizeRemovesAll(d) ==
  /\ phase[d] = "serving"
  /\ IsWith(d, "upgrade", "sent")
  /\ ~closed[d]
  /\ closed' = [closed EXCEPT ![d] = TRUE]
  /\ Enters(d, "closing", Bound)
  /\ UNCHANGED <<files, listening, store, backlog, current, client, exit,
                 undisturbed, launches>>

\* The upgrade thread handles a HandoverCompleted that is finalized:
\* PublicSockets.close.
Finalize(d) ==
  /\ phase[d] = "serving"
  /\ IsWith(d, "upgrade", "sent")
  /\ ~closed[d]
  /\ closed' = [closed EXCEPT ![d] = TRUE]
  /\ Enters(d, "closing", PublicFiles)
  /\ UNCHANGED <<files, listening, store, backlog, current, client, exit,
                 undisturbed, launches>>

RemovePublicPath(d) ==
  /\ InProgress(d, "closing")
  /\ RemovesFile(NextSocket(d))
  /\ Disturbs(d)
  /\ Advances(d)
  /\ UNCHANGED <<listening, store, closed, backlog, current, client, exit,
                 launches>>

PathsClosed(d) ==
  /\ Done(d, "closing")
  /\ Enters(d, "serving", <<>>)
  /\ UNCHANGED <<files, listening, store, closed, backlog, current, client,
                 exit, undisturbed, launches>>

-----------------------------------------------------------------------------
(* Shutdown of a bounded variant *)

\* Mutant: only the public files are removed.
StopRootKeepsUpgrade(d) ==
  /\ phase[d] = "serving"
  /\ ~ServesForever(d)
  /\ \A s \in Sockets : IsFree(d, s)
  /\ store' = [store EXCEPT ![d] = "closed"]
  /\ Enters(d, "removing", PublicFiles)
  /\ UNCHANGED <<files, listening, closed, backlog, current, client, exit,
                 undisturbed, launches>>

\* Its count of exchanges is served: the root stops and its store is closed
\* before the socket files go.
StopRoot(d) ==
  /\ phase[d] = "serving"
  /\ ~ServesForever(d)
  /\ \A s \in Sockets : IsFree(d, s)
  /\ store' = [store EXCEPT ![d] = "closed"]
  /\ Enters(d, "removing", Bound)
  /\ UNCHANGED <<files, listening, closed, backlog, current, client, exit,
                 undisturbed, launches>>

RemovePath(d) ==
  /\ InProgress(d, "removing")
  /\ RemovesFile(NextSocket(d))
  /\ Disturbs(d)
  /\ Advances(d)
  /\ UNCHANGED <<listening, store, closed, backlog, current, client, exit,
                 launches>>

ShutDown(d) == Done(d, "removing") /\ Exits(d, "stopped")

-----------------------------------------------------------------------------
(* Clients *)

\* A client reaches whoever the file names; otherwise it is refused.
Connect(c) ==
  /\ client[c] = "idle"
  /\ \E d \in Daemons :
       /\ files[SocketOf[c]] = d
       /\ backlog' = [backlog EXCEPT ![d][SocketOf[c]] = Append(@, c)]
  /\ client' = [client EXCEPT ![c] = "connected"]
  /\ UNCHANGED <<files, phase, todo, listening, store, closed, current, exit,
                 undisturbed, launches>>

\* It writes its frame, accepted or not.
Send(c) ==
  /\ client[c] = "connected"
  /\ client' = [client EXCEPT ![c] = "sent"]
  /\ UNCHANGED <<files, phase, todo, listening, store, closed, backlog,
                 current, exit, undisturbed, launches>>

HangUp(c) ==
  /\ client[c] \in {"connected", "sent"}
  /\ client' = [client EXCEPT ![c] = "gone"]
  /\ UNCHANGED <<files, phase, todo, listening, store, closed, backlog,
                 current, exit, undisturbed, launches>>

-----------------------------------------------------------------------------

StartStep(d) ==
  \/ ClearPath(d)
  \/ Cleared(d)
  \/ BindListener(d)
  \/ ListenersBound(d)
  \/ SetPermissions(d)
  \/ StartFails(d)
  \/ StartRoot(d)

StoreStep(d) == OpenStore(d) \/ RestartStore(d)

CloseStep(d) == Finalize(d) \/ RemovePublicPath(d) \/ PathsClosed(d)

StopStep(d) == StopRoot(d) \/ RemovePath(d) \/ ShutDown(d)

ServeStep(d, s) == Accept(d, s) \/ Answer(d, s) \/ DropClient(d, s)

ClientStep(c) == Connect(c) \/ Send(c) \/ HangUp(c)

Next ==
  \/ \E d \in Daemons :
       \/ Launch(d)
       \/ StartStep(d)
       \/ StoreStep(d)
       \/ CloseStep(d)
       \/ StopStep(d)
       \/ Kill(d)
  \/ \E d \in Daemons, s \in Sockets : ServeStep(d, s)
  \/ \E c \in Clients : ClientStep(c)

Spec == Init /\ [][Next]_vars

PhaseStep(d) ==
  \/ StartStep(d)
  \/ RemovePublicPath(d)
  \/ PathsClosed(d)
  \/ RemovePath(d)
  \/ ShutDown(d)

\* A process that runs goes on: it starts, opens its store or fails to, removes
\* the files it has begun to remove, and its upgrade thread accepts and answers;
\* of the other threads nothing is needed.  What the thread asks of a store that
\* is opening waits in the store's mailbox and is answered, or fails, when the
\* opening has ended, and a store that fails may be started again for ever:
\* hence the strong fairness.  Persona, the one client of the upgrade socket,
\* sends its request or hangs up, and may wait for its answer for ever; nothing
\* is assumed of the clients of the other sockets.
Fairness ==
  /\ \A d \in Daemons :
       /\ WF_vars(PhaseStep(d))
       /\ WF_vars(OpenStore(d))
       /\ SF_vars(store[d] # "opening" /\ ServeStep(d, "upgrade"))
  /\ \A c \in Clients :
       SocketOf[c] = "upgrade" =>
         WF_vars(client[c] = "connected" /\ (Send(c) \/ HangUp(c)))

FairSpec == Spec /\ Fairness

-----------------------------------------------------------------------------
(* Properties *)

Phases == {"down", "clearing", "binding", "permitting", "serving", "closing",
           "removing"}

\* Where a client's connection is.
ConnectionsOf(c) ==
  {p \in Daemons \X Sockets :
     c \in Range(backlog[p[1]][p[2]]) \/ c = current[p[1]][p[2]]}

IsOneOrNone(set) == \A x, y \in set : x = y

\* Every variable stays in its type, and a client that has a connection has
\* it in one place: one backlog, or with one thread.
TypeOK ==
  /\ files \in [Sockets -> Daemons \cup {NoFile, Stale}]
  /\ phase \in [Daemons -> Phases]
  /\ todo \in [Daemons -> Seq(Sockets)]
  /\ listening \in [Daemons -> SUBSET Sockets]
  /\ store \in [Daemons -> {"closed", "opening", "open", "failed"}]
  /\ closed \in [Daemons -> BOOLEAN]
  /\ backlog \in [Daemons -> [Sockets -> Seq(Clients)]]
  /\ current \in [Daemons -> [Sockets -> Clients \cup {Nobody}]]
  /\ client \in [Clients -> {"idle", "connected", "sent", "gone"}]
  /\ exit \in [Daemons -> {"none", "configuration", "inUse", "missing",
                           "failed", "killed", "stopped"}]
  /\ undisturbed \in [Daemons -> SUBSET Sockets]
  /\ launches \in 0..MaxLaunches
  /\ \A c \in Clients : client[c] = "idle" <=> ConnectionsOf(c) = {}
  /\ \A c \in Clients : IsOneOrNone(ConnectionsOf(c))

\* No client is with a server thread before every listener is bound and the
\* root has started, nor once the root is stopped: clients may connect from
\* the first bind on, a store that fails goes unnoticed, and engine management
\* answers Ready to whoever asks, but nobody is answered early.
ServedOnceStarted ==
  \A d \in Daemons, s \in Sockets :
    current[d][s] # Nobody =>
      /\ phase[d] \in {"serving", "closing"}
      /\ listening[d] = Sockets
      /\ store[d] # "closed"

\* A daemon in service is where its socket files say, each of them until
\* another process removes or binds that one: all until it closes, and
\* afterwards the upgrade and engine-management files still
\* (ARCHITECTURE.md:224-232).  No client, no file a process before it left, no
\* way that process ended and no process beside it that is at another socket
\* changes that.  It says nothing of the store: a daemon whose store cannot be
\* opened is reachable all the same.
ReachableIfUndisturbed ==
  \A d \in Daemons :
    phase[d] \in {"serving", "closing"} =>
      \A s \in undisturbed[d] :
        \/ files[s] = d
        \/ closed[d] /\ s \in {"ordinary", "meta"} /\ files[s] = NoFile

\* A start that fails over a socket file is one that another process got in
\* the way of, at that very file: neither what a killed or failed process
\* leaves behind nor a daemon that merely serves does.
LeftoversDoNotBlock ==
  [][\A d \in Daemons :
       exit'[d] # exit[d] /\ exit'[d] \in {"inUse", "missing"} =>
         NextSocket(d) \notin undisturbed[d]]_vars

\* ARCHITECTURE.md:486, "Daemon shutdown removes all socket paths": when a
\* daemon stops, no file is left but those another process was at.
ShutdownLeavesNoFile ==
  [][\A d \in Daemons :
       exit'[d] # exit[d] /\ exit'[d] = "stopped" =>
         \A s \in undisturbed[d] : files'[s] = NoFile]_vars

\* An exchange on the upgrade socket ends, with a reply or with the connection,
\* whatever the clients of the other sockets do or leave undone, and although
\* the store may fail to open again and again: a client that connects and stays
\* silent stops its own socket only, and no ask waits for ever.
UpgradeIsAnswered ==
  \A c \in Clients :
    SocketOf[c] = "upgrade" => (client[c] = "sent" ~> client[c] # "sent")
==============================================================================
