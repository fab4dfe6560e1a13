---------------------------- MODULE ServerLifecycle ----------------------------
(***************************************************************************)
(* Daemons of mstore on one unix:// path: make_socket_listener             *)
(* (transport.py), the accept loop, shutdown from another thread, the      *)
(* interrupt of the command line, _cleanup and the workers of connections  *)
(* (server.py, cli.py).  A daemon is one run of serve_forever; several may *)
(* run at a time, and one may crash with its socket left on the path.      *)
(***************************************************************************)
EXTENDS Integers, FiniteSets

CONSTANTS
    Daemons,       \* runs of serve_forever
    Conns,         \* connections clients make
    Nobody         \* no daemon

ASSUME LifecycleAssumption == Nobody \notin Daemons

\* phase: off; unlink, bind, chmod, listen in make_socket_listener; publish,
\* loop, accept, register and spawn in _serve_socket_forever; closing
\* (listener), listing, registry, path, join in _cleanup; ended, exited, crashed.
\* shutting: no, listener, listing, done in shutdown.
\* worker: none, top (of its loop), reading, busy, ending, gone.
VARIABLES
    phase, stop, shutting,     \* per daemon; stop is the event _stop
    socket,        \* per daemon: its listener: none, bound, listening, closed
    published,     \* per daemon: _socket_listener is set
    interrupted,   \* per daemon: a KeyboardInterrupt ended serve_forever
    closed,        \* per daemon: Registry.close was called
    met,           \* per daemon: another serve_forever ran in its time (history)
    path,          \* the daemon whose socket the path names
    server, conn,  \* per connection: its daemon; unused, pending, open, closed
    accepted,      \* per daemon: what accept returned, until it is registered
    listed,        \* _connections of all daemons
    worker         \* per connection: the thread that serves it

daemonVars == <<phase, stop, shutting, socket, published, interrupted, closed, met>>
connVars == <<server, conn, accepted, listed, worker>>
vars == <<daemonVars, path, connVars>>

Init ==
    /\ phase = [d \in Daemons |-> "off"]
    /\ stop = [d \in Daemons |-> FALSE]
    /\ shutting = [d \in Daemons |-> "no"]
    /\ socket = [d \in Daemons |-> "none"]
    /\ published = [d \in Daemons |-> FALSE]
    /\ interrupted = [d \in Daemons |-> FALSE]
    /\ closed = [d \in Daemons |-> FALSE]
    /\ met = [d \in Daemons |-> FALSE]
    /\ path = Nobody
    /\ server = [c \in Conns |-> Nobody]
    /\ conn = [c \in Conns |-> "unused"]
    /\ accepted = [d \in Daemons |-> {}]
    /\ listed = {}
    /\ worker = [c \in Conns |-> "none"]

Running == {"unlink", "bind", "chmod", "listen", "publish", "loop", "accept", "register",
            "spawn", "closing", "listing", "registry", "path", "join"}
Binding == {"bind", "chmod", "listen"}
Serving == {"publish", "loop", "accept", "register", "spawn"}
Alive(d) == phase[d] \notin {"off", "exited", "crashed"}
Of(d) == {c \in Conns : server[c] = d}

Go(d, from, to) == phase[d] = from /\ phase' = [phase EXCEPT ![d] = to]

\* Connections that end at the daemon's side.
Close(C) == conn' = [c \in Conns |-> IF c \in C THEN "closed" ELSE conn[c]]

\* listener.close(): the kernel resets what nobody has accepted.
Waiting(d) == {c \in Of(d) : conn[c] = "pending"}
CloseListener(d) ==
    /\ socket' = [socket EXCEPT ![d] = "closed"]
    /\ Close(Waiting(d))

----------------------------------------------------------------------------
\* make_socket_listener.  What it raises goes through serve_forever's
\* `finally' to _cleanup; the socket it made is closed with its last
\* reference.
Start(d) ==
    /\ Go(d, "off", "unlink")
    /\ met' = IF \E e \in Daemons : phase[e] \in Running
              THEN [e \in Daemons |-> met[e] \/ e = d \/ phase[e] \in Running] ELSE met
    /\ UNCHANGED <<stop, shutting, socket, published, interrupted, closed, path, connVars>>

\* path.unlink(); a mutant leaves a stale socket.
KeepStale == path
UnlinkPath == Nobody
Unlink(d) ==
    /\ Go(d, "unlink", "bind")
    /\ path' = UnlinkPath
    /\ UNCHANGED <<stop, shutting, socket, published, interrupted, closed, met, connVars>>

Bind(d) ==
    /\ path = Nobody
    /\ Go(d, "bind", "chmod")
    /\ path' = d
    /\ socket' = [socket EXCEPT ![d] = "bound"]
    /\ UNCHANGED <<stop, shutting, published, interrupted, closed, met, connVars>>

\* os.chmod works on whatever is there.
Chmod(d) ==
    /\ path # Nobody
    /\ Go(d, "chmod", "listen")
    /\ UNCHANGED <<stop, shutting, socket, published, interrupted, closed, met, path,
                   connVars>>

\* EADDRINUSE, or the path is gone by now.
ListenerFails(d) ==
    /\ \/ path # Nobody /\ Go(d, "bind", "closing")
       \/ path = Nobody /\ Go(d, "chmod", "closing")
    /\ socket' = [socket EXCEPT ![d] = "closed"]
    /\ UNCHANGED <<stop, shutting, published, interrupted, closed, met, path, connVars>>

\* Clients can connect from here on.
Listen(d) ==
    /\ Go(d, "listen", "publish")
    /\ socket' = [socket EXCEPT ![d] = "listening"]
    /\ UNCHANGED <<stop, shutting, published, interrupted, closed, met, path, connVars>>

----------------------------------------------------------------------------
\* _serve_socket_forever.  self._socket_listener is set: shutdown and _cleanup
\* can close the listener.  A mutant never sets it.
NotKept == FALSE
Kept == TRUE
Publish(d) ==
    /\ Go(d, "publish", "loop")
    /\ published' = [published EXCEPT ![d] = Kept]
    /\ UNCHANGED <<stop, shutting, socket, interrupted, closed, met, path, connVars>>

\* `while not self._stop.is_set()'; a mutant loops until the listener is closed.
LeavesOnError(d) == FALSE
LeavesLoop(d) == stop[d]
Loop(d) ==
    /\ Go(d, "loop", IF LeavesLoop(d) THEN "closing" ELSE "accept")
    /\ UNCHANGED <<stop, shutting, socket, published, interrupted, closed, met, path,
                   connVars>>

Accept(d) ==
    /\ socket[d] = "listening"
    /\ Go(d, "accept", "register")
    /\ \E c \in Waiting(d) :
          /\ conn' = [conn EXCEPT ![c] = "open"]
          /\ accepted' = [accepted EXCEPT ![d] = {c}]
    /\ UNCHANGED <<stop, shutting, socket, published, interrupted, closed, met, path,
                   server, listed, worker>>

\* socket.timeout after half a second with no connection, or OSError from a
\* listener that shutdown has closed: _stop is set, and the loop breaks.
AcceptRaises(d) ==
    /\ Waiting(d) = {}
    /\ Go(d, "accept", IF socket[d] = "closed" THEN "closing" ELSE "loop")
    /\ UNCHANGED <<stop, shutting, socket, published, interrupted, closed, met, path,
                   connVars>>

\* Any other OSError (no descriptors are left, say) goes through the `finally'
\* to _cleanup, raised or, if _stop is set by then, by the break.
AcceptFails(d) ==
    /\ socket[d] = "listening"
    /\ Go(d, "accept", "closing")
    /\ UNCHANGED <<stop, shutting, socket, published, interrupted, closed, met, path,
                   connVars>>

\* _start_worker: the connection is listed before its thread starts.
Register(d) ==
    /\ Go(d, "register", "spawn")
    /\ listed' = listed \cup accepted[d]
    /\ UNCHANGED <<stop, shutting, socket, published, interrupted, closed, met, path,
                   server, conn, accepted, worker>>

\* thread.start(): the loop has no connection in hand.
Spawn(d) ==
    /\ Go(d, "spawn", "loop")
    /\ worker' = [c \in Conns |-> IF c \in accepted[d] THEN "top" ELSE worker[c]]
    /\ accepted' = [accepted EXCEPT ![d] = {}]
    /\ UNCHANGED <<stop, shutting, socket, published, interrupted, closed, met, path,
                   server, conn, listed>>

\* thread.start() raises (no more threads): the connection stays listed and
\* never gets a worker.
SpawnFails(d) ==
    /\ Go(d, "spawn", "closing")
    /\ accepted' = [accepted EXCEPT ![d] = {}]
    /\ UNCHANGED <<stop, shutting, socket, published, interrupted, closed, met, path,
                   server, conn, listed, worker>>

----------------------------------------------------------------------------
\* _cleanup, step by step.
Cleanup1(d) ==
    /\ Go(d, "closing", "listing")
    /\ IF published[d] THEN CloseListener(d) ELSE UNCHANGED <<socket, conn>>
    /\ published' = [published EXCEPT ![d] = FALSE]
    /\ UNCHANGED <<stop, shutting, interrupted, closed, met, path, server, accepted,
                   listed, worker>>

\* The connections that are listed at the time; a mutant closes none.
HeldByNone(d) == {}
Held(d) == listed \cap Of(d)

\* Connections are closed before the registry; a mutant swaps the two.
RegistryFirst == "registry"
ConnectionsAt == "listing"

Cleanup2(d) ==
    /\ Go(d, "listing", "registry") \/ Go(d, "registry", "path")
    /\ IF phase[d] = ConnectionsAt
       THEN Close(Held(d)) /\ UNCHANGED closed
       ELSE closed' = [closed EXCEPT ![d] = TRUE] /\ UNCHANGED conn
    /\ UNCHANGED <<stop, shutting, socket, published, interrupted, met, path, server,
                   accepted, listed, worker>>

\* Path(address).unlink(), whoever's socket that is.
Cleanup3(d) ==
    /\ Go(d, "path", "join")
    /\ path' = Nobody
    /\ UNCHANGED <<stop, shutting, socket, published, interrupted, closed, met, connVars>>

\* join(timeout=1.0) for each thread.  It raises for one that SpawnFails left
\* unstarted; serve_forever ends in any case.
Join(d) ==
    /\ Go(d, "join", "ended")
    /\ UNCHANGED <<stop, shutting, socket, published, interrupted, closed, met, path,
                   connVars>>

Serve(d) ==
    \/ Unlink(d) \/ Bind(d) \/ Chmod(d) \/ ListenerFails(d) \/ Listen(d)
    \/ Publish(d) \/ Loop(d) \/ Accept(d) \/ AcceptRaises(d) \/ Register(d) \/ Spawn(d)
    \/ Cleanup1(d) \/ Cleanup2(d) \/ Cleanup3(d) \/ Join(d)

\* KeyboardInterrupt in the main thread, if that runs serve_forever (cli.py);
\* bound: none during _cleanup, which runs without _stop being set.  Before
\* the socket listens nobody can tell its end from its close; a listening one
\* lives on in the traceback, until main is done with the exception.
Interrupt(d) ==
    /\ shutting[d] = "no" /\ phase[d] \in {"unlink"} \cup Binding \cup Serving
    /\ phase' = [phase EXCEPT ![d] = "closing"]
    /\ interrupted' = [interrupted EXCEPT ![d] = TRUE]
    /\ socket' = IF phase[d] \in Binding THEN [socket EXCEPT ![d] = "closed"] ELSE socket
    /\ UNCHANGED <<stop, shutting, published, closed, met, path, connVars>>

\* shutdown(): by main after the interrupt, or from another thread at any
\* time if the application started the daemon in a thread.
Shutdown(d) ==
    /\ shutting[d] = "no"
    /\ phase[d] = "ended" \/ (~interrupted[d] /\ phase[d] \in Running)
    /\ stop' = [stop EXCEPT ![d] = TRUE]
    /\ shutting' = [shutting EXCEPT ![d] = "listener"]
    /\ UNCHANGED <<phase, socket, published, interrupted, closed, met, path, connVars>>

ShutListener(d) ==
    /\ shutting[d] = "listener" /\ Alive(d)
    /\ shutting' = [shutting EXCEPT ![d] = "listing"]
    /\ IF published[d] THEN CloseListener(d) ELSE UNCHANGED <<socket, conn>>
    /\ UNCHANGED <<phase, stop, published, interrupted, closed, met, path, server, accepted,
                   listed, worker>>

\* The path is left to _cleanup; a mutant unlinks it here as well.
UnlinkedTwice == Nobody
PathAfterShutdown == path

ShutConnections(d) ==
    /\ shutting[d] = "listing" /\ Alive(d)
    /\ shutting' = [shutting EXCEPT ![d] = "done"]
    /\ Close(Held(d))
    /\ path' = PathAfterShutdown
    /\ UNCHANGED <<phase, stop, socket, published, interrupted, closed, met, server,
                   accepted, listed, worker>>

\* The end of the process and of its memory: with main after the interrupt
\* and shutdown, or whenever the application that started the daemon in a
\* thread likes.
Ends(d, how) ==
    /\ phase' = [phase EXCEPT ![d] = how]
    /\ stop' = [stop EXCEPT ![d] = FALSE]
    /\ shutting' = [shutting EXCEPT ![d] = "no"]
    /\ socket' = [socket EXCEPT ![d] = "none"]
    /\ published' = [published EXCEPT ![d] = FALSE]
    /\ interrupted' = [interrupted EXCEPT ![d] = FALSE]
    /\ closed' = [closed EXCEPT ![d] = FALSE]
    /\ Close(Of(d))
    /\ accepted' = [accepted EXCEPT ![d] = {}]
    /\ listed' = listed \ Of(d)
    /\ worker' = [c \in Conns |-> IF c \in Of(d) THEN "gone" ELSE worker[c]]
    /\ UNCHANGED <<met, path, server>>

Exit(d) == phase[d] = "ended" /\ (interrupted[d] => shutting[d] = "done") /\ Ends(d, "exited")
Crash(d) == phase[d] \in Running /\ Ends(d, "crashed")

----------------------------------------------------------------------------
\* connect_control reaches the socket the path names if it listens.
Connect(c) ==
    /\ conn[c] = "unused" /\ path # Nobody
    /\ socket[path] = "listening"
    /\ conn' = [conn EXCEPT ![c] = "pending"]
    /\ server' = [server EXCEPT ![c] = path]
    /\ UNCHANGED <<daemonVars, path, accepted, listed, worker>>

ClientCloses(c) ==
    /\ conn[c] \in {"pending", "open"}
    /\ Close({c})
    /\ UNCHANGED <<daemonVars, path, server, accepted, listed, worker>>

\* _serve_connection: the worker sees _stop, reads a request or end of file,
\* and answers; a failed read or send ends it.
Step(c, from, to) ==
    /\ worker[c] = from
    /\ worker' = [worker EXCEPT ![c] = to]
    /\ UNCHANGED <<daemonVars, path, server, conn, accepted, listed>>

Request(c) == conn[c] = "open" /\ Step(c, "reading", "busy")

WorkerGoesOn(c) ==
    \/ Step(c, "top", IF stop[server[c]] THEN "ending" ELSE "reading")
    \/ conn[c] = "closed" /\ Step(c, "reading", "ending")
    \/ Step(c, "busy", "top")

WorkerFails(c) == Step(c, "reading", "ending") \/ Step(c, "busy", "ending")

WorkerEnds(c) ==
    /\ worker[c] = "ending"
    /\ Close({c})
    /\ listed' = listed \ {c}
    /\ worker' = [worker EXCEPT ![c] = "gone"]
    /\ UNCHANGED <<daemonVars, path, server, accepted>>

Next ==
    \/ \E d \in Daemons :
          \/ Start(d) \/ Serve(d) \/ AcceptFails(d) \/ SpawnFails(d)
          \/ Interrupt(d) \/ Exit(d) \/ Crash(d)
          \/ Shutdown(d) \/ ShutListener(d) \/ ShutConnections(d)
    \/ \E c \in Conns :
          Connect(c) \/ ClientCloses(c) \/ Request(c) \/ WorkerGoesOn(c) \/ WorkerFails(c)
          \/ WorkerEnds(c)

Spec == Init /\ [][Next]_vars

\* Threads run once they are started, and main calls shutdown and returns
\* after an interrupt.  Nobody has to start a daemon, stop it, connect or send.
Fairness ==
    /\ \A d \in Daemons : WF_vars(Serve(d))
    /\ \A d \in Daemons : WF_vars(ShutListener(d) \/ ShutConnections(d))
    /\ \A d \in Daemons : WF_vars(interrupted[d] /\ (Shutdown(d) \/ Exit(d)))
    /\ \A c \in Conns : WF_vars(WorkerGoesOn(c)) /\ WF_vars(WorkerEnds(c))

FairSpec == Spec /\ Fairness

----------------------------------------------------------------------------
\* Type invariant; only the loop accepts, and one connection at a time.
TypeOK ==
    /\ phase \in [Daemons -> Running \cup {"off", "ended", "exited", "crashed"}]
    /\ stop \in [Daemons -> BOOLEAN]
    /\ shutting \in [Daemons -> {"no", "listener", "listing", "done"}]
    /\ socket \in [Daemons -> {"none", "bound", "listening", "closed"}]
    /\ published \in [Daemons -> BOOLEAN] /\ interrupted \in [Daemons -> BOOLEAN]
    /\ closed \in [Daemons -> BOOLEAN] /\ met \in [Daemons -> BOOLEAN]
    /\ path \in Daemons \cup {Nobody}
    /\ server \in [Conns -> Daemons \cup {Nobody}]
    /\ conn \in [Conns -> {"unused", "pending", "open", "closed"}]
    /\ \A d \in Daemons :
          /\ accepted[d] \subseteq Of(d) /\ Cardinality(accepted[d]) <= 1
          /\ accepted[d] # {} => phase[d] \in {"register", "spawn"} \/ interrupted[d]
    /\ listed \subseteq Conns
    /\ worker \in [Conns -> {"none", "top", "reading", "busy", "ending", "gone"}]

\* A daemon that listens is the one clients reach, whatever crashed on the
\* path before it and whatever a daemon that has ended does, as long as no
\* other serve_forever runs in its time
\* (make_socket_listener, transport.py:129-151; _cleanup, server.py:187-193).
ReachableAlone ==
    \A d \in Daemons :
        phase[d] \in Serving /\ socket[d] = "listening" /\ ~met[d] => path = d

\* What an interrupt between two statements of serve_forever takes out of the
\* reach of _cleanup until the process ends: the connection that accept has
\* returned and nobody has listed, of which the type invariant says that there
\* is one at most, and those in the backlog of a listener that listens and is
\* not in _socket_listener yet (server.py:89-90).
CaughtBetween(d) ==
    {c \in Of(d) : /\ interrupted[d]
                   /\ \/ c \in accepted[d] \ listed
                      \/ conn[c] = "pending" /\ socket[d] = "listening" /\ ~published[d]}

\* serve_forever leaves no other connection of its clients open: not when it is
\* told to stop, at whatever step that is, nor when accept, the start of a
\* thread or make_socket_listener raises (_cleanup, server.py:168-187).
NoConnectionLeft ==
    /\ TypeOK
    /\ \A d \in Daemons : phase[d] \in {"registry", "path", "join", "ended"} =>
          \A c \in Of(d) \ CaughtBetween(d) : conn[c] = "closed"

\* A worker reads no request once the daemon's registry is closed, so only
\* creates that were under way by then can register an object afterwards
\* (_cleanup closes the connections first, server.py:182-187).
NoRequestAfterClose ==
    [][\A c \in Conns : worker[c] = "reading" /\ worker'[c] = "busy" =>
           ~closed[server[c]]]_vars

\* A daemon that is started comes to accept connections, also on a path where
\* another crashed, unless it is told to stop or another runs in its time.
StartServes ==
    \A d \in Daemons :
        phase[d] = "unlink"
            ~> \/ phase[d] = "accept"
               \/ stop[d] \/ interrupted[d] \/ met[d] \/ ~Alive(d)

\* A connection in the backlog gets its worker, or its end.
NoClientForgotten ==
    \A c \in Conns : conn[c] = "pending" ~> conn[c] = "closed" \/ worker[c] # "none"

\* A daemon that is told to stop, or interrupted, returns from serve_forever
\* and its workers end.
StopEnds ==
    \A d \in Daemons :
        stop[d] \/ interrupted[d]
            ~> /\ phase[d] \notin Running
               /\ \A c \in Of(d) : worker[c] \in {"none", "gone"}
=============================================================================
