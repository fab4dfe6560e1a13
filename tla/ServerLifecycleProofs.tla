----------------------- MODULE ServerLifecycleProofs -----------------------
(***************************************************************************)
(* For every number of daemons and connections: a daemon that serves alone *)
(* is the one its path names, serve_forever leaves no connection of its    *)
(* clients open, and no request is read once the registry is closed.       *)
(*                                                                         *)
(* The first rests on who can write the path: a run of serve_forever that  *)
(* another has not met is the only one running.  The others rest on where  *)
(* a connection is: one that waits has a listener, one that is open is     *)
(* listed or in the hand of the loop, and one in hand has no worker.  A     *)
(* listener that _cleanup does not close is one an interrupt caught before *)
(* it was published.                                                       *)
(***************************************************************************)
EXTENDS ServerLifecycle, FiniteSetTheorems, TLAPS

Phases == Running \cup {"off", "ended", "exited", "crashed"}
Cleaning == {"closing", "listing", "registry", "path", "join", "ended"}

TypeInv ==
    /\ phase \in [Daemons -> Phases]
    /\ stop \in [Daemons -> BOOLEAN]
    /\ shutting \in [Daemons -> {"no", "listener", "listing", "done"}]
    /\ socket \in [Daemons -> {"none", "bound", "listening", "closed"}]
    /\ published \in [Daemons -> BOOLEAN] /\ interrupted \in [Daemons -> BOOLEAN]
    /\ closed \in [Daemons -> BOOLEAN] /\ met \in [Daemons -> BOOLEAN]
    /\ path \in Daemons \cup {Nobody}
    /\ server \in [Conns -> Daemons \cup {Nobody}]
    /\ conn \in [Conns -> {"unused", "pending", "open", "closed"}]
    /\ accepted \in [Daemons -> SUBSET Conns]
    /\ listed \subseteq Conns
    /\ worker \in [Conns -> {"none", "top", "reading", "busy", "ending", "gone"}]

\* Runs that overlap have met; one that has met no other has the path.
Alone ==
    /\ \A d, e \in Daemons :
          phase[d] \in Running /\ phase[e] \in Running /\ d # e => met[d]
    /\ \A d \in Daemons :
          phase[d] \in {"chmod", "listen"} \cup Serving /\ ~met[d] => path = d

Flags ==
    \A d \in Daemons :
        /\ socket[d] = "listening" =>
              \/ interrupted[d] /\ (published[d] => phase[d] = "closing")
              \/ phase[d] \in Serving \cup {"closing"} /\ (phase[d] # "publish" => published[d])
        /\ interrupted[d] => phase[d] \in Cleaning
        /\ closed[d] => phase[d] \in {"path", "join", "ended"}

\* What the loop has in hand: one connection, without a worker.
InHand ==
    \A d \in Daemons :
        /\ accepted[d] = {} \/ \E c \in Of(d) : accepted[d] = {c}
        /\ accepted[d] # {} => phase[d] \in {"register", "spawn"} \/ interrupted[d]
        /\ \A c \in accepted[d] :
              /\ worker[c] = "none" /\ conn[c] \in {"open", "closed"}
              /\ phase[d] = "spawn" => c \in listed \/ conn[c] = "closed"

\* Where a connection is.
Links ==
    \A c \in Conns :
        /\ server[c] = Nobody <=> conn[c] = "unused"
        /\ conn[c] \in {"unused", "pending"} => worker[c] = "none"
        /\ conn[c] = "pending" => socket[server[c]] = "listening"
        /\ conn[c] = "open" => c \in accepted[server[c]] \cup listed

Left ==
    \A d \in Daemons : phase[d] \in {"registry", "path", "join", "ended"} =>
        \A c \in Of(d) \ CaughtBetween(d) : conn[c] = "closed"

Inv == TypeInv /\ Alone /\ Flags /\ InHand /\ Links /\ Left

USE LifecycleAssumption
USE DEF Go, Close, Waiting, CloseListener, Held, Of, LeavesLoop, UnlinkPath, Kept,
        ConnectionsAt, PathAfterShutdown, Step, Ends, Alive, Running, Binding, Serving
----------------------------------------------------------------------------
LEMMA InitInv == Init => Inv
  BY DEF Init, Inv, TypeInv, Phases, Alone, Flags, Cleaning, InHand, Links, Left

LEMMA NextType == TypeInv /\ [Next]_vars => TypeInv'
  <1> SUFFICES ASSUME TypeInv, [Next]_vars PROVE TypeInv'
    OBVIOUS
  <1> USE DEF TypeInv, Phases, connVars
  <1>1. ASSUME NEW d \in Daemons, Serve(d) PROVE TypeInv'
    <2>1. CASE Unlink(d) \/ Bind(d) \/ Chmod(d) \/ ListenerFails(d) \/ Listen(d)
      BY <2>1 DEF Unlink, Bind, Chmod, ListenerFails, Listen
    <2>2. CASE Publish(d) \/ Loop(d) \/ AcceptRaises(d)
      BY <2>2 DEF Publish, Loop, AcceptRaises
    <2>3. CASE Accept(d)
      <3>1. PICK c \in Conns : /\ conn' = [conn EXCEPT ![c] = "open"]
                               /\ accepted' = [accepted EXCEPT ![d] = {c}]
        BY <2>3 DEF Accept
      <3>2. conn' \in [Conns -> {"unused", "pending", "open", "closed"}]
        BY <3>1
      <3>3. accepted' \in [Daemons -> SUBSET Conns]
        BY <3>1
      <3> QED
        BY <2>3, <3>2, <3>3 DEF Accept
    <2>4. CASE Register(d)
      BY <2>4 DEF Register
    <2>5. CASE Spawn(d)
      BY <2>5 DEF Spawn
    <2>6. CASE Cleanup1(d)
      BY <2>6 DEF Cleanup1
    <2>7. CASE Cleanup2(d)
      <3>1. CASE phase[d] = "listing"
        BY <2>7, <3>1 DEF Cleanup2
      <3>2. CASE phase[d] = "registry"
        BY <2>7, <3>2 DEF Cleanup2
      <3> QED
        BY <2>7, <3>1, <3>2 DEF Cleanup2
    <2>8. CASE Cleanup3(d) \/ Join(d)
      BY <2>8 DEF Cleanup3, Join
    <2> QED
      BY <1>1, <2>1, <2>2, <2>3, <2>4, <2>5, <2>6, <2>7, <2>8 DEF Serve
  <1>2. ASSUME NEW d \in Daemons, Start(d) PROVE TypeInv'
    BY <1>2 DEF Start
  <1>3. ASSUME NEW d \in Daemons, Interrupt(d) PROVE TypeInv'
    BY <1>3 DEF Interrupt
  <1>4. ASSUME NEW d \in Daemons, Shutdown(d) PROVE TypeInv'
    BY <1>4 DEF Shutdown
  <1>5. ASSUME NEW d \in Daemons, ShutListener(d) PROVE TypeInv'
    BY <1>5 DEF ShutListener
  <1>6. ASSUME NEW d \in Daemons, ShutConnections(d) PROVE TypeInv'
    BY <1>6 DEF ShutConnections
  <1>7. ASSUME NEW d \in Daemons, NEW how \in {"exited", "crashed"}, Ends(d, how)
        PROVE  TypeInv'
    BY <1>7
  <1>8. ASSUME NEW c \in Conns, Connect(c) \/ ClientCloses(c) PROVE TypeInv'
    BY <1>8 DEF Connect, ClientCloses, daemonVars
  <1>9. ASSUME NEW c \in Conns, Request(c) \/ WorkerGoesOn(c) \/ WorkerFails(c)
        PROVE  TypeInv'
    BY <1>9 DEF Request, WorkerGoesOn, WorkerFails, daemonVars
  <1>10. ASSUME NEW c \in Conns, WorkerEnds(c) PROVE TypeInv'
    BY <1>10 DEF WorkerEnds, daemonVars
  <1>11. ASSUME NEW d \in Daemons, AcceptFails(d) \/ SpawnFails(d) PROVE TypeInv'
    BY <1>11 DEF AcceptFails, SpawnFails
  <1>12. CASE UNCHANGED vars
    BY <1>12 DEF vars, daemonVars
  <1> QED
    BY <1>1, <1>2, <1>3, <1>4, <1>5, <1>6, <1>7, <1>8, <1>9, <1>10, <1>11, <1>12
    DEF Next, Exit, Crash

LEMMA NextAlone == TypeInv /\ Alone /\ [Next]_vars => Alone'
  <1> SUFFICES ASSUME TypeInv, Alone, [Next]_vars PROVE Alone'
    OBVIOUS
  <1>0. phase \in [Daemons -> Phases] /\ met \in [Daemons -> BOOLEAN] /\ path \in Daemons \cup {Nobody}
    BY DEF TypeInv
  <1> USE DEF Alone
  <1>1. ASSUME UNCHANGED <<phase, met, path>> PROVE Alone'
    BY <1>1
  <1>2. ASSUME NEW d \in Daemons, Start(d) PROVE Alone'
    BY <1>0, <1>2 DEF Start
  <1>3. ASSUME NEW d \in Daemons, Unlink(d) \/ Cleanup3(d) PROVE Alone'
    BY <1>0, <1>3 DEF Unlink, Cleanup3
  <1>4. ASSUME NEW d \in Daemons, Bind(d) PROVE Alone'
    BY <1>0, <1>4 DEF Bind
  <1>5. ASSUME NEW d \in Daemons,
               \/ Chmod(d) \/ ListenerFails(d) \/ Listen(d) \/ Publish(d) \/ Loop(d)
               \/ Accept(d) \/ AcceptRaises(d) \/ AcceptFails(d) \/ Register(d) \/ Spawn(d)
               \/ SpawnFails(d) \/ Cleanup1(d) \/ Cleanup2(d) \/ Join(d)
        PROVE  Alone'
    <2>1. /\ phase[d] \in Running /\ UNCHANGED <<met, path>>
          /\ \A e \in Daemons : e # d => phase'[e] = phase[e]
          /\ phase'[d] \in {"chmod", "listen"} \cup Serving =>
                phase[d] \in {"chmod", "listen"} \cup Serving
      BY <1>0, <1>5 DEF Chmod, ListenerFails, Listen, Publish, Loop, Accept, AcceptRaises,
                        AcceptFails, Register, Spawn, SpawnFails, Cleanup1, Cleanup2, Join,
                        connVars
    <2> QED
      BY <1>0, <2>1
  <1>6. ASSUME NEW d \in Daemons, Interrupt(d) PROVE Alone'
    BY <1>0, <1>6 DEF Interrupt
  <1>7. ASSUME NEW d \in Daemons, NEW how \in {"exited", "crashed"}, Ends(d, how)
        PROVE  Alone'
    BY <1>0, <1>7
  <1>8. ASSUME NEW d \in Daemons, Shutdown(d) \/ ShutListener(d) \/ ShutConnections(d)
        PROVE  Alone'
    BY <1>1, <1>8 DEF Shutdown, ShutListener, ShutConnections
  <1>9. ASSUME NEW c \in Conns,
               \/ Connect(c) \/ ClientCloses(c) \/ Request(c) \/ WorkerGoesOn(c)
               \/ WorkerFails(c) \/ WorkerEnds(c)
        PROVE  Alone'
    BY <1>1, <1>9 DEF Connect, ClientCloses, Request, WorkerGoesOn, WorkerFails, WorkerEnds,
                      daemonVars
  <1>10. CASE UNCHANGED vars
    BY <1>1, <1>10 DEF vars, daemonVars
  <1> QED
    BY <1>2, <1>3, <1>4, <1>5, <1>6, <1>7, <1>8, <1>9, <1>10 DEF Next, Serve, Exit, Crash

LEMMA NextFlags == TypeInv /\ Flags /\ [Next]_vars => Flags'
  <1> SUFFICES ASSUME TypeInv, Flags, [Next]_vars PROVE Flags'
    OBVIOUS
  <1>0. /\ phase \in [Daemons -> Phases] /\ interrupted \in [Daemons -> BOOLEAN]
        /\ socket \in [Daemons -> {"none", "bound", "listening", "closed"}]
        /\ published \in [Daemons -> BOOLEAN] /\ closed \in [Daemons -> BOOLEAN]
    BY DEF TypeInv
  <1> USE DEF Flags, Cleaning
  <1>1. ASSUME UNCHANGED <<phase, socket, published, interrupted, closed>> PROVE Flags'
    BY <1>1
  <1>2. ASSUME NEW d \in Daemons, Start(d) \/ Unlink(d) \/ Bind(d) \/ Chmod(d) PROVE Flags'
    BY <1>0, <1>2 DEF Start, Unlink, Bind, Chmod
  <1>3. ASSUME NEW d \in Daemons, ListenerFails(d) PROVE Flags'
    BY <1>0, <1>3 DEF ListenerFails
  <1>4. ASSUME NEW d \in Daemons, Listen(d) \/ Publish(d) PROVE Flags'
    BY <1>0, <1>4 DEF Listen, Publish
  <1>5. ASSUME NEW d \in Daemons,
               \/ Loop(d) \/ Accept(d) \/ AcceptRaises(d) \/ AcceptFails(d)
               \/ Register(d) \/ Spawn(d) \/ SpawnFails(d)
        PROVE  Flags'
    BY <1>0, <1>5 DEF Loop, Accept, AcceptRaises, AcceptFails, Register, Spawn, SpawnFails
  <1>6. ASSUME NEW d \in Daemons, Cleanup1(d) PROVE Flags'
    BY <1>0, <1>6 DEF Cleanup1
  <1>7. ASSUME NEW d \in Daemons, Cleanup2(d) PROVE Flags'
    BY <1>0, <1>7 DEF Cleanup2
  <1>8. ASSUME NEW d \in Daemons, Cleanup3(d) \/ Join(d) PROVE Flags'
    BY <1>0, <1>8 DEF Cleanup3, Join
  <1>9. ASSUME NEW d \in Daemons, Interrupt(d) PROVE Flags'
    BY <1>0, <1>9 DEF Interrupt
  <1>10. ASSUME NEW d \in Daemons, NEW how \in {"exited", "crashed"}, Ends(d, how)
         PROVE  Flags'
    BY <1>0, <1>10
  <1>11. ASSUME NEW d \in Daemons, ShutListener(d) PROVE Flags'
    BY <1>0, <1>11 DEF ShutListener
  <1>12. ASSUME NEW d \in Daemons, Shutdown(d) \/ ShutConnections(d) PROVE Flags'
    BY <1>1, <1>12 DEF Shutdown, ShutConnections
  <1>13. ASSUME NEW c \in Conns,
                \/ Connect(c) \/ ClientCloses(c) \/ Request(c) \/ WorkerGoesOn(c)
                \/ WorkerFails(c) \/ WorkerEnds(c)
         PROVE  Flags'
    BY <1>1, <1>13 DEF Connect, ClientCloses, Request, WorkerGoesOn, WorkerFails, WorkerEnds,
                       daemonVars
  <1>14. CASE UNCHANGED vars
    BY <1>1, <1>14 DEF vars, daemonVars
  <1> QED
    BY <1>2, <1>3, <1>4, <1>5, <1>6, <1>7, <1>8, <1>9, <1>10, <1>11, <1>12, <1>13, <1>14
    DEF Next, Serve, Exit, Crash

Done == {"registry", "path", "join", "ended"}

\* Most steps give the loop nothing, and at most close connections.
Settled ==
    /\ accepted' = accepted /\ server' = server
    /\ \A c \in Conns :
          /\ conn'[c] = conn[c] \/ (conn'[c] = "closed" /\ conn[c] # "unused")
          /\ c \in listed /\ c \notin listed' => conn'[c] = "closed"
          /\ worker[c] = "none" => worker'[c] = "none"
          /\ conn'[c] = "pending" => socket'[server[c]] = socket[server[c]]

LEMMA SettledLinks == ASSUME TypeInv, Links, Settled PROVE Links'
  BY DEF TypeInv, Links, Settled

LEMMA SettledInHand ==
    ASSUME TypeInv, InHand, Settled,
           \A d \in Daemons :
              \/ phase'[d] = phase[d] /\ interrupted'[d] = interrupted[d]
              \/ accepted[d] = {}
              \/ interrupted'[d] /\ phase'[d] # "spawn"
    PROVE  InHand'
  BY DEF TypeInv, InHand, Settled

LEMMA SettledLeft ==
    ASSUME TypeInv, Left, Settled,
           \A d \in Daemons : phase'[d] \in Done =>
              /\ phase[d] \in Done /\ listed' \cap Of(d) \subseteq listed
              /\ interrupted'[d] = interrupted[d] /\ published'[d] = published[d]
    PROVE  Left'
  <1> SUFFICES ASSUME NEW d \in Daemons, phase'[d] \in Done,
                      NEW c \in Of(d), c \notin CaughtBetween(d)', conn'[c] # "closed"
               PROVE  FALSE
    BY DEF Left, Settled, Done
  <1>1. c \in CaughtBetween(d)
    BY DEF Left, Settled, Done
  <1> QED
    BY <1>1 DEF CaughtBetween, Settled, TypeInv
----------------------------------------------------------------------------
\* The steps of a daemon's thread.
LEMMA ServeConns ==
    ASSUME Inv, TypeInv', NEW d \in Daemons,
           Serve(d) \/ AcceptFails(d) \/ SpawnFails(d) \/ Start(d) \/ Interrupt(d)
    PROVE  InHand' /\ Links' /\ Left'
  <1>0. TypeInv /\ Flags /\ InHand /\ Links /\ Left
    BY DEF Inv
  <1>1. ASSUME Settled, phase[d] \notin {"register", "spawn"} \/ interrupted'[d],
               phase'[d] # "spawn",
               \A e \in Daemons : e # d => phase'[e] = phase[e] /\ interrupted'[e] = interrupted[e],
               interrupted[d] => interrupted'[d]
        PROVE  InHand' /\ Links'
    <2>1. accepted[d] = {} \/ interrupted'[d]
      BY <1>0, <1>1 DEF InHand
    <2> QED
      BY <1>0, <1>1, <2>1, SettledLinks, SettledInHand
  <1>2. CASE Start(d) \/ Unlink(d) \/ Bind(d) \/ Chmod(d) \/ ListenerFails(d) \/ Listen(d)
    <2>1. UNCHANGED <<server, conn, accepted, listed, worker, interrupted, published>>
      BY <1>2 DEF Start, Unlink, Bind, Chmod, ListenerFails, Listen, connVars
    <2>2. /\ phase[d] \in {"off", "unlink"} \cup Binding
          /\ phase'[d] \in {"unlink", "publish", "closing"} \cup Binding
          /\ \A e \in Daemons : e # d => phase'[e] = phase[e] /\ socket'[e] = socket[e]
      BY <1>0, <1>2 DEF Start, Unlink, Bind, Chmod, ListenerFails, Listen, TypeInv
    <2>3. \A c \in Conns : conn[c] = "pending" => server[c] \in Daemons \ {d}
      <3>1. socket[d] # "listening"
        BY <1>0, <2>2 DEF Flags, Cleaning
      <3> QED
        BY <1>0, <3>1 DEF Links, TypeInv
    <2>4. Settled
      BY <2>1, <2>2, <2>3 DEF Settled
    <2> QED
      BY <1>0, <1>1, <2>1, <2>2, <2>4, SettledLeft DEF Done
  <1>3. CASE Publish(d) \/ Loop(d) \/ AcceptRaises(d) \/ AcceptFails(d) \/ Interrupt(d)
    <2>1. UNCHANGED <<server, conn, accepted, listed, worker>>
      BY <1>3 DEF Publish, Loop, AcceptRaises, AcceptFails, Interrupt, connVars
    <2>2. /\ phase[d] \notin {"register", "spawn"} \/ interrupted'[d]
          /\ phase'[d] \in {"loop", "accept", "closing"}
          /\ \A e \in Daemons : e # d =>
                /\ phase'[e] = phase[e] /\ socket'[e] = socket[e]
                /\ interrupted'[e] = interrupted[e] /\ published'[e] = published[e]
          /\ interrupted[d] => interrupted'[d]
          /\ socket'[d] = socket[d] \/ phase[d] \in Binding
      BY <1>0, <1>3 DEF Publish, Loop, AcceptRaises, AcceptFails, Interrupt, TypeInv
    <2>3. \A c \in Conns : conn[c] = "pending" =>
             server[c] \in Daemons /\ (server[c] = d => socket'[d] = socket[d])
      BY <1>0, <2>2 DEF Links, Flags, TypeInv, Cleaning
    <2>4. Settled
      BY <2>1, <2>2, <2>3 DEF Settled
    <2> QED
      BY <1>0, <1>1, <2>1, <2>2, <2>4, SettledLeft DEF Done
  <1>4. CASE Cleanup1(d) \/ Cleanup2(d) \/ Cleanup3(d) \/ Join(d)
    <2>1. UNCHANGED <<server, accepted, listed, worker, interrupted>>
      BY <1>4 DEF Cleanup1, Cleanup2, Cleanup3, Join, connVars
    <2>2. /\ phase[d] \in {"closing", "listing", "registry", "path", "join"}
          /\ phase'[d] \in Cleaning
          /\ phase'[d] \in Done => phase[d] \in Done \cup {"listing"}
          /\ \A e \in Daemons : e # d =>
                phase'[e] = phase[e] /\ socket'[e] = socket[e] /\ published'[e] = published[e]
          /\ phase[d] # "closing" => UNCHANGED <<socket, published>>
          /\ phase[d] = "closing" => phase'[d] \notin Done
      BY <1>0, <1>4 DEF Cleanup1, Cleanup2, Cleanup3, Join, TypeInv, Cleaning, Done
    <2>3. /\ \A c \in Conns : conn'[c] = conn[c] \/ (conn'[c] = "closed" /\ c \in Of(d))
          /\ \A c \in Of(d) : conn'[c] = "pending" => socket'[d] = socket[d]
      BY <1>0, <1>4 DEF Cleanup1, Cleanup2, Cleanup3, Join, TypeInv, connVars
    <2>4. Settled
      BY <1>0, <2>1, <2>2, <2>3 DEF Settled, Links, TypeInv
    <2>5. CASE phase[d] # "listing"
      BY <1>0, <1>1, <2>1, <2>2, <2>4, <2>5, SettledLeft DEF Cleaning
    <2>6. CASE phase[d] = "listing"
      <3>1. /\ conn' = [c \in Conns |-> IF c \in listed \cap Of(d) THEN "closed" ELSE conn[c]]
            /\ phase'[d] = "registry"
        BY <1>0, <1>4, <2>6 DEF Cleanup1, Cleanup2, Cleanup3, Join, TypeInv
      <3>2. ASSUME NEW c \in Of(d), conn'[c] # "closed" PROVE c \in CaughtBetween(d)
        <4>1. c \notin listed /\ conn'[c] = conn[c]
          BY <3>1, <3>2
        <4>2. conn[c] = "pending" => interrupted[d] /\ socket[d] = "listening" /\ ~published[d]
          BY <1>0, <2>6 DEF Links, Flags
        <4>3. conn[c] = "open" => c \in accepted[d] \ listed /\ interrupted[d]
          BY <1>0, <2>6, <4>1 DEF Links, InHand
        <4>4. conn[c] \in {"pending", "open"}
          BY <1>0, <3>2, <4>1 DEF Links, TypeInv
        <4> QED
          BY <4>2, <4>3, <4>4 DEF CaughtBetween
      <3>3. ASSUME NEW c \in Of(d), conn'[c] # "closed" PROVE c \in CaughtBetween(d)'
        BY <2>1, <2>2, <2>3, <2>6, <3>2, <3>3 DEF CaughtBetween
      <3>4. \A e \in Daemons : e # d => \A c \in Of(e) : conn'[c] = conn[c]
        BY <2>3
      <3>5. ASSUME NEW e \in Daemons, phase'[e] \in Done,
                   NEW c \in Of(e)', c \notin CaughtBetween(e)'
            PROVE  conn'[c] = "closed"
        <4>1. CASE e = d
          BY <2>1, <3>3, <3>5, <4>1
        <4>2. CASE e # d
          BY <1>0, <2>1, <2>2, <2>6, <3>4, <3>5, <4>2 DEF Left, CaughtBetween, Done
        <4> QED
          BY <4>1, <4>2
      <3>6. Left'
        BY <3>5 DEF Left, Done
      <3> QED
        BY <1>0, <1>1, <2>1, <2>2, <2>4, <3>6 DEF Cleaning
    <2> QED
      BY <2>5, <2>6
  <1>5. CASE Accept(d)
    <2>1. PICK c \in Of(d) : /\ conn[c] = "pending"
                             /\ conn' = [conn EXCEPT ![c] = "open"]
                             /\ accepted' = [accepted EXCEPT ![d] = {c}]
      BY <1>5 DEF Accept
    <2>2. /\ phase[d] = "accept" /\ phase' = [phase EXCEPT ![d] = "register"]
          /\ UNCHANGED <<server, listed, worker, interrupted, socket, published>>
      BY <1>5 DEF Accept
    <2>3. accepted[d] = {} /\ worker[c] = "none"
      BY <1>0, <2>1, <2>2 DEF InHand, Flags, Cleaning, Links
    <2>4. InHand'
      BY <1>0, <2>1, <2>2, <2>3, SMTT(30) DEF InHand, TypeInv
    <2>5. Links'
      BY <1>0, <2>1, <2>2, <2>3 DEF Links, TypeInv
    <2>6. Left'
      BY <1>0, <2>1, <2>2 DEF Left, TypeInv, CaughtBetween
    <2> QED
      BY <2>4, <2>5, <2>6
  <1>6. CASE Register(d)
    <2>1. /\ phase[d] = "register" /\ phase' = [phase EXCEPT ![d] = "spawn"]
          /\ listed' = listed \cup accepted[d]
          /\ UNCHANGED <<server, conn, accepted, worker, interrupted, socket, published>>
      BY <1>6 DEF Register
    <2>2. Settled
      BY <2>1 DEF Settled
    <2>3. InHand'
      BY <1>0, <2>1 DEF InHand, TypeInv
    <2>4. \A e \in Daemons : e # d => listed' \cap Of(e) \subseteq listed
      BY <1>0, <2>1 DEF InHand
    <2> QED
      BY <1>0, <2>1, <2>2, <2>3, <2>4, SettledLinks, SettledLeft DEF Done, TypeInv
  <1>7. CASE Spawn(d)
    <2>1. /\ phase[d] = "spawn" /\ phase' = [phase EXCEPT ![d] = "loop"]
          /\ worker' = [c \in Conns |-> IF c \in accepted[d] THEN "top" ELSE worker[c]]
          /\ accepted' = [accepted EXCEPT ![d] = {}]
          /\ UNCHANGED <<server, conn, listed, interrupted, socket, published>>
      BY <1>7 DEF Spawn
    <2>2. \A c \in accepted[d] : c \in listed \/ conn[c] = "closed"
      BY <1>0, <2>1 DEF InHand
    <2>3. InHand'
      BY <1>0, <2>1 DEF InHand, TypeInv
    <2>4. Links'
      BY <1>0, <2>1, <2>2 DEF Links, InHand, TypeInv
    <2>5. Left'
      BY <1>0, <2>1 DEF Left, TypeInv, CaughtBetween
    <2> QED
      BY <2>3, <2>4, <2>5
  <1>8. CASE SpawnFails(d)
    <2>1. /\ phase[d] = "spawn" /\ phase' = [phase EXCEPT ![d] = "closing"]
          /\ accepted' = [accepted EXCEPT ![d] = {}]
          /\ UNCHANGED <<server, conn, listed, worker, interrupted, socket, published>>
      BY <1>8 DEF SpawnFails
    <2>2. \A c \in accepted[d] : c \in listed \/ conn[c] = "closed"
      BY <1>0, <2>1 DEF InHand
    <2>3. InHand'
      BY <1>0, <2>1 DEF InHand, TypeInv
    <2>4. Links'
      BY <1>0, <2>1, <2>2 DEF Links, InHand, TypeInv
    <2>5. Left'
      BY <1>0, <2>1 DEF Left, TypeInv, CaughtBetween
    <2> QED
      BY <2>3, <2>4, <2>5
  <1> QED
    BY <1>2, <1>3, <1>4, <1>5, <1>6, <1>7, <1>8 DEF Serve

\* The steps of shutdown, of the end of a process, of clients and of workers.
LEMMA OtherConns ==
    ASSUME Inv, TypeInv',
           \/ \E d \in Daemons : \/ Shutdown(d) \/ ShutListener(d) \/ ShutConnections(d)
                                 \/ Exit(d) \/ Crash(d)
           \/ \E c \in Conns : \/ Connect(c) \/ ClientCloses(c) \/ Request(c)
                               \/ WorkerGoesOn(c) \/ WorkerFails(c) \/ WorkerEnds(c)
    PROVE  InHand' /\ Links' /\ Left'
  <1>0. TypeInv /\ Flags /\ InHand /\ Links /\ Left
    BY DEF Inv
  <1>1. ASSUME Settled, UNCHANGED <<phase, interrupted, published>>, listed' \subseteq listed
        PROVE  InHand' /\ Links' /\ Left'
    BY <1>0, <1>1, SettledLinks, SettledInHand, SettledLeft
  <1>2. ASSUME NEW d \in Daemons, Shutdown(d) \/ ShutListener(d) \/ ShutConnections(d)
        PROVE  InHand' /\ Links' /\ Left'
    <2>1. UNCHANGED <<phase, interrupted, published, server, accepted, listed, worker>>
      BY <1>2 DEF Shutdown, ShutListener, ShutConnections, connVars
    <2>2. /\ \A c \in Conns : conn'[c] = conn[c] \/ (conn'[c] = "closed" /\ c \in Of(d))
          /\ \A c \in Conns : conn'[c] = "pending" => socket'[server[c]] = socket[server[c]]
      BY <1>0, <1>2 DEF Shutdown, ShutListener, ShutConnections, TypeInv, connVars, Links
    <2>3. Settled
      BY <1>0, <2>1, <2>2 DEF Settled, Links
    <2> QED
      BY <1>1, <2>1, <2>3
  <1>3. ASSUME NEW d \in Daemons, NEW how \in {"exited", "crashed"}, Ends(d, how)
        PROVE  InHand' /\ Links' /\ Left'
    <2>1. /\ phase' = [phase EXCEPT ![d] = how] /\ socket' = [socket EXCEPT ![d] = "none"]
          /\ interrupted' = [interrupted EXCEPT ![d] = FALSE]
          /\ published' = [published EXCEPT ![d] = FALSE]
          /\ accepted' = [accepted EXCEPT ![d] = {}]
          /\ listed' = listed \ Of(d) /\ server' = server
          /\ conn' = [c \in Conns |-> IF c \in Of(d) THEN "closed" ELSE conn[c]]
          /\ worker' = [c \in Conns |-> IF c \in Of(d) THEN "gone" ELSE worker[c]]
      BY <1>3
    <2>2. \A c \in Of(d) : conn[c] # "unused"
      BY <1>0 DEF Links
    <2>3. InHand'
      BY <1>0, <2>1 DEF InHand, TypeInv
    <2>4. Links'
      BY <1>0, <2>1, <2>2 DEF Links, TypeInv
    <2>5. Left'
      <3>1. ASSUME NEW e \in Daemons, e # d PROVE CaughtBetween(e)' = CaughtBetween(e)
        BY <1>0, <2>1, <3>1 DEF CaughtBetween, TypeInv
      <3> QED
        BY <1>0, <2>1, <3>1 DEF Left, TypeInv
    <2> QED
      BY <2>3, <2>4, <2>5
  <1>4. ASSUME NEW c \in Conns, Connect(c) PROVE InHand' /\ Links' /\ Left'
    <2>1. /\ conn[c] = "unused" /\ path \in Daemons /\ socket[path] = "listening"
          /\ conn' = [conn EXCEPT ![c] = "pending"] /\ server' = [server EXCEPT ![c] = path]
          /\ UNCHANGED <<phase, socket, interrupted, published, accepted, listed, worker>>
      BY <1>0, <1>4 DEF Connect, daemonVars, TypeInv
    <2>2. phase[path] \in Done => interrupted[path] /\ ~published[path]
      BY <1>0, <2>1 DEF Flags, Done
    <2>3. InHand'
      BY <1>0, <2>1 DEF InHand, TypeInv
    <2>4. Links'
      BY <1>0, <2>1 DEF Links, TypeInv
    <2>5. Left'
      <3>1. ASSUME NEW d \in Daemons, phase[d] \in Done,
                   NEW e \in Of(d)', e \notin CaughtBetween(d)'
            PROVE  conn'[e] = "closed"
        <4>1. CASE e = c
          BY <1>0, <2>1, <2>2, <3>1, <4>1 DEF CaughtBetween, TypeInv
        <4>2. CASE e # c
          BY <1>0, <2>1, <3>1, <4>2 DEF Left, CaughtBetween, TypeInv, Done
        <4> QED
          BY <4>1, <4>2
      <3> QED
        BY <2>1, <3>1 DEF Left, Done
    <2> QED
      BY <2>3, <2>4, <2>5
  <1>5. ASSUME NEW c \in Conns,
               ClientCloses(c) \/ Request(c) \/ WorkerGoesOn(c) \/ WorkerFails(c) \/ WorkerEnds(c)
        PROVE  InHand' /\ Links' /\ Left'
    <2>1. /\ UNCHANGED <<phase, socket, interrupted, published, server, accepted>>
          /\ listed' \subseteq listed
      BY <1>5 DEF ClientCloses, Request, WorkerGoesOn, WorkerFails, WorkerEnds, daemonVars
    <2>2. CASE ClientCloses(c)
      <3>1. Settled
        BY <1>0, <2>1, <2>2 DEF ClientCloses, Settled, TypeInv
      <3> QED
        BY <1>1, <2>1, <3>1
    <2>3. CASE Request(c) \/ WorkerGoesOn(c) \/ WorkerFails(c)
      <3>1. Settled
        BY <1>0, <2>1, <2>3 DEF Request, WorkerGoesOn, WorkerFails, Settled, TypeInv
      <3> QED
        BY <1>1, <2>1, <3>1
    <2>4. CASE WorkerEnds(c)
      <3>1. conn[c] # "unused" /\ worker[c] # "none"
        BY <1>0, <2>4 DEF WorkerEnds, Links
      <3>2. Settled
        BY <1>0, <2>1, <2>4, <3>1 DEF WorkerEnds, Settled, TypeInv
      <3> QED
        BY <1>1, <2>1, <3>2
    <2> QED
      BY <1>5, <2>2, <2>3, <2>4
  <1> QED
    BY <1>2, <1>3, <1>4, <1>5 DEF Exit, Crash

LEMMA NextInv == Inv /\ [Next]_vars => Inv'
  <1> SUFFICES ASSUME Inv, [Next]_vars PROVE Inv'
    OBVIOUS
  <1>1. TypeInv' /\ Alone' /\ Flags'
    BY NextType, NextAlone, NextFlags DEF Inv
  <1>2. CASE UNCHANGED vars
    BY <1>1, <1>2 DEF vars, daemonVars, connVars, Inv, InHand, Links, Left,
                      CaughtBetween
  <1>3. CASE Next
    <2>1. InHand' /\ Links' /\ Left'
      BY <1>1, <1>3, ServeConns, OtherConns DEF Next
    <2> QED
      BY <1>1, <2>1 DEF Inv
  <1> QED
    BY <1>2, <1>3

LEMMA Invariance == Spec => []Inv
  BY InitInv, NextInv, PTL DEF Spec
----------------------------------------------------------------------------
\* A daemon that serves while no other runs is the one clients reach
\* (transport.py:129-151, server.py:187-193).
THEOREM AloneIsReachable == Spec => []ReachableAlone
  <1>1. Inv => ReachableAlone
    BY DEF Inv, Alone, ReachableAlone
  <1> QED
    BY <1>1, Invariance, PTL

\* serve_forever ends with no connection of its clients open but those an
\* interrupt caught in hand or before the listener was published
\* (server.py:89-107, 168-187); and the type invariant.
THEOREM CleanupClosesConnections == Spec => []NoConnectionLeft
  <1>1. Inv => NoConnectionLeft
    <2> SUFFICES ASSUME Inv PROVE NoConnectionLeft
      OBVIOUS
    <2>1. ASSUME NEW d \in Daemons
          PROVE  accepted[d] \subseteq Of(d) /\ Cardinality(accepted[d]) <= 1
      <3>1. CASE accepted[d] = {}
        BY <3>1, FS_EmptySet
      <3>2. CASE accepted[d] # {}
        <4>1. PICK c \in Of(d) : accepted[d] = {c}
          BY <3>2 DEF Inv, InHand
        <4>2. Cardinality({c}) = 1
          BY FS_Singleton
        <4> QED
          BY <4>1, <4>2
      <3> QED
        BY <3>1, <3>2
    <2>2. TypeOK
      BY <2>1 DEF Inv, TypeInv, InHand, Phases, TypeOK
    <2> QED
      BY <2>2 DEF Inv, Left, NoConnectionLeft
  <1> QED
    BY <1>1, Invariance, PTL

\* No request is read once the registry is closed (server.py:182-187).
THEOREM ClosedRegistryGetsNoRequest == Spec => NoRequestAfterClose
  <1>1. ASSUME Inv, [Next]_vars, NEW c \in Conns, worker[c] = "reading", worker'[c] = "busy"
        PROVE  ~closed[server[c]]
    <2>1. TypeInv /\ Flags /\ InHand /\ Links /\ Left
      BY <1>1 DEF Inv
    <2>2. conn[c] = "open"
      <3>1. ASSUME NEW e \in Conns, Request(e) PROVE conn[c] = "open"
        BY <1>1, <2>1, <3>1 DEF Request, TypeInv
      <3>2. ASSUME NEW e \in Conns,
                   \/ Connect(e) \/ ClientCloses(e) \/ WorkerGoesOn(e) \/ WorkerFails(e)
                   \/ WorkerEnds(e)
            PROVE  FALSE
        BY <1>1, <2>1, <3>2
        DEF Connect, ClientCloses, WorkerGoesOn, WorkerFails, WorkerEnds, TypeInv
      <3>3. ASSUME NEW d \in Daemons,
                   \/ Start(d) \/ Serve(d) \/ AcceptFails(d) \/ SpawnFails(d) \/ Interrupt(d) \/ Exit(d) \/ Crash(d)
                   \/ Shutdown(d) \/ ShutListener(d) \/ ShutConnections(d)
            PROVE  FALSE
        <4>1. CASE \/ Start(d) \/ Unlink(d) \/ Bind(d) \/ Chmod(d) \/ ListenerFails(d) \/ Listen(d)
                   \/ Publish(d) \/ Loop(d) \/ Accept(d) \/ AcceptRaises(d) \/ AcceptFails(d)
                   \/ Register(d) \/ SpawnFails(d)
                   \/ Cleanup1(d) \/ Cleanup2(d) \/ Cleanup3(d) \/ Join(d)
                   \/ Interrupt(d) \/ Shutdown(d) \/ ShutListener(d) \/ ShutConnections(d)
          <5>1. worker' = worker
            BY <4>1 DEF Start, Unlink, Bind, Chmod, ListenerFails, Listen, Publish, Loop,
                        Accept, AcceptRaises, AcceptFails, Register, SpawnFails, Cleanup1, Cleanup2, Cleanup3, Join, Interrupt,
                        Shutdown, ShutListener, ShutConnections, connVars
          <5> QED
            BY <1>1, <5>1
        <4>2. CASE Spawn(d)
          BY <1>1, <4>2 DEF Spawn
        <4>3. CASE Exit(d) \/ Crash(d)
          BY <1>1, <4>3 DEF Exit, Crash
        <4> QED
          BY <3>3, <4>1, <4>2, <4>3 DEF Serve
      <3>4. CASE UNCHANGED vars
        BY <1>1, <3>4 DEF vars, connVars
      <3> QED
        BY <1>1, <3>1, <3>2, <3>3, <3>4 DEF Next
    <2>3. server[c] \in Daemons
      BY <2>1, <2>2 DEF Links, TypeInv
    <2>4. c \notin accepted[server[c]]
      BY <1>1, <2>1, <2>3 DEF InHand
    <2> QED
      BY <2>1, <2>2, <2>3, <2>4 DEF Flags, Left, CaughtBetween
  <1>2. Inv /\ [Next]_vars =>
           [\A c \in Conns : worker[c] = "reading" /\ worker'[c] = "busy" =>
                ~closed[server[c]]]_vars
    BY <1>1
  <1> QED
    BY <1>2, Invariance, PTL DEF Spec, NoRequestAfterClose
=============================================================================
