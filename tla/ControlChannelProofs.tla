------------------------ MODULE ControlChannelProofs ------------------------
(***************************************************************************)
(* For every number of threads, requests and connections: no thread uses a *)
(* connection on which one of the parent is in the middle of a request, a  *)
(* child never uses its parent's, and no request is carried out twice.     *)
(* For a forked child with one thread: a thread reads the response to its  *)
(* own request.                                                            *)
(*                                                                         *)
(* The first two rest on who holds which lock (Holders) and on which       *)
(* process has the socket of a connection (Apart), the third on where a    *)
(* request is: in one frame at most, and not carried out as long as it is  *)
(* (Once).  The last rests on what is on a connection a client may use:    *)
(* nothing, or one request, the response to it, or the worker that handles *)
(* it, and then one thread of the client waits for it (Stream).            *)
(***************************************************************************)
EXTENDS ControlChannel, TLAPS

\* The child has one thread: the lock is replaced while it is held.
OneChild == \A t, u \in ChildThreads : t = u

InLock == {"locked", "connected", "sent"}
InStream == {"connected", "sent"}

Holder == AllThreads \cup {Free, Ghost}
Link == [state : {"unused", "open", "shut"}, by : Clients \cup {"nobody", "server"},
         fds : SUBSET Clients, torn : BOOLEAN]

ThreadType ==
    /\ pc \in [AllThreads -> {"idle", "entering"} \cup InLock]
    /\ entering \in [AllThreads -> Locks]
    /\ request \in [AllThreads -> Requests \cup {None}]
    /\ using \in [AllThreads -> Links \cup {None}]

ClientType ==
    /\ lock \in [Clients -> Locks]
    /\ holder \in [Clients -> [Locks -> Holder]]
    /\ conn \in [Clients -> Links \cup {None}]
    /\ closed \in [Clients -> BOOLEAN] /\ foreign \in [Clients -> BOOLEAN]
    /\ forked \in BOOLEAN

LinkType ==
    /\ stopping \in BOOLEAN /\ link \in [Links -> Link]
    /\ up \in [Links -> Seq(Requests)] /\ down \in [Links -> Seq(Responses)]
    /\ worker \in [Links -> Responses \cup {Idle, Gone}]

HistoryType ==
    /\ next \in 0 .. MaxRequests
    /\ executed \in [Requests -> Nat]
    /\ answer \in [Requests -> Responses \cup {NoResponse}]

TypeInv == ThreadType /\ ClientType /\ LinkType /\ HistoryType

\* Who holds which lock.
Holders ==
    /\ \A c \in Clients, l \in Locks, t \in AllThreads :
          holder[c][l] = t <=> c = ClientOf(t) /\ l = entering[t] /\ pc[t] \in InLock
    /\ lock["parent"] = "first" /\ ~foreign["parent"]
    /\ \A t \in Threads : entering[t] = "first"
    /\ ~forked => /\ \A t \in ChildThreads : pc[t] = "idle"
                  /\ conn["child"] = None

\* A thread in the middle of a request uses a connection, and no other does.
InUse == \A t \in AllThreads : pc[t] \in InStream <=> using[t] # None

\* The parent's threads use its connection, which stays its own; a child drops
\* what it inherited before it uses anything.
Apart ==
    /\ \A t \in Threads : pc[t] \in InStream => using[t] = conn["parent"]
    /\ conn["parent"] # None => /\ link[conn["parent"]].state # "unused"
                                /\ "parent" \in link[conn["parent"]].fds
    /\ foreign["child"] => \A t \in ChildThreads : pc[t] \notin InStream
    /\ ~foreign["child"] /\ conn["child"] # None =>
          /\ link[conn["child"]].state # "unused"
          /\ "parent" \notin link[conn["child"]].fds
    /\ \A t \in ChildThreads : pc[t] \in InStream =>
          /\ link[using[t]].state # "unused"
          /\ "parent" \notin link[using[t]].fds

\* Whose a connection is, if the child has one thread.
Owners ==
    /\ \A t \in AllThreads : pc[t] \in InStream =>
          /\ using[t] # None /\ conn[ClientOf(t)] = using[t]
          /\ ~foreign[ClientOf(t)]
    /\ \A c \in Clients : conn[c] # None => link[conn[c]].state # "unused"
    /\ conn["parent"] = conn["child"] /\ conn["parent"] # None => foreign["child"]

\* What is on a connection.
Quiet(k) == up[k] = << >> /\ down[k] = << >> /\ ~Busy(k)
Outstanding(k, q) ==
    \/ up[k] = <<q>> /\ down[k] = << >> /\ ~Busy(k)
    \/ up[k] = << >> /\ down[k] = << >> /\ Busy(k) /\ worker[k].to = q
    \/ up[k] = << >> /\ ~Busy(k) /\ \E r \in Responses : down[k] = <<r>> /\ r.to = q

Stream ==
    /\ \A k \in Links : link[k].state = "unused" => Quiet(k)
    /\ \A c \in Clients :
          conn[c] # None /\ ~foreign[c] /\ ~link[conn[c]].torn =>
              \/ Quiet(conn[c])
              \/ \E t \in AllThreads : /\ ClientOf(t) = c /\ pc[t] = "sent"
                                       /\ Outstanding(conn[c], request[t])

\* A request is on its way once, before it is carried out.
Once ==
    /\ \A t \in AllThreads :
          /\ request[t] <= next
          /\ pc[t] = "idle" <=> request[t] = None
          /\ \A u \in AllThreads : request[u] = request[t] /\ request[t] # None => u = t
          /\ pc[t] \in {"entering", "locked", "connected"} =>
                /\ executed[request[t]] = 0
                /\ \A k \in Links : \A i \in DOMAIN up[k] : up[k][i] # request[t]
    /\ \A q \in Requests : executed[q] <= 1 /\ (q > next => executed[q] = 0)
    /\ \A k \in Links : \A i \in DOMAIN up[k] :
          /\ up[k][i] <= next /\ executed[up[k][i]] = 0
          /\ \A l \in Links : \A j \in DOMAIN up[l] : up[l][j] = up[k][i] => l = k /\ j = i

\* A response that says so tells the truth.
Truth ==
    /\ \A k \in Links : Busy(k) /\ worker[k].ok => executed[worker[k].to] = 1
    /\ \A k \in Links : \A i \in DOMAIN down[k] :
          down[k][i].ok => executed[down[k][i].to] = 1
    /\ \A q \in Requests : answer[q].ok => executed[answer[q].to] = 1

\* What holds for any number of threads of the child, and what needs OneChild.
BaseInv == TypeInv /\ Holders /\ InUse /\ Apart /\ Once /\ Truth
Inv == BaseInv /\ Owners /\ Stream

USE DEF Fails, GivesUp, AfterFailure, TimedOut, Available, threadVars, clientVars,
        serverVars, history
----------------------------------------------------------------------------
LEMMA Names ==
    /\ None \notin Links /\ None \notin Requests /\ Requests \subseteq Nat
    /\ Free \notin AllThreads /\ Ghost \notin AllThreads /\ Free # Ghost
    /\ \A t \in AllThreads : ClientOf(t) \in Clients
    /\ \A t \in AllThreads : ClientOf(t) = "parent" <=> t \in Threads
    /\ \A t \in AllThreads : ClientOf(t) = "child" <=> t \in ChildThreads
    /\ "parent" \in Clients /\ "child" \in Clients /\ "first" \in Locks /\ "second" \in Locks
    /\ Idle \notin Responses /\ Gone \notin Responses /\ MaxRequests \in Nat
  BY ChannelAssumption
  DEF None, Links, Requests, AllThreads, ClientOf, Idle, Gone, Responses, Clients, Locks,
      Free, Ghost

LEMMA ClientCases == \A c \in Clients : c = "parent" \/ c = "child"
  BY DEF Clients

LEMMA InitInv == Init => Inv
  <1> SUFFICES ASSUME Init PROVE Inv
    OBVIOUS
  <1> USE Names DEF Init
  <1>1. ThreadType
    BY DEF ThreadType
  <1>2. ClientType
    BY DEF ClientType, Holder
  <1>3. LinkType
    <2>1. link \in [Links -> Link]
      BY DEF Link
    <2>2. up \in [Links -> Seq(Requests)] /\ down \in [Links -> Seq(Responses)]
      OBVIOUS
    <2> QED
      BY <2>1, <2>2 DEF LinkType
  <1>4. HistoryType
    BY DEF HistoryType
  <1>5. Holders
    <2>1. \A c \in Clients, l \in Locks : holder[c][l] = Free
      OBVIOUS
    <2>2. \A t \in AllThreads : pc[t] = "idle" /\ entering[t] = "first" /\ Free # t
      OBVIOUS
    <2>3. Threads \subseteq AllThreads /\ ChildThreads \subseteq AllThreads
      BY DEF AllThreads
    <2> QED
      BY <2>1, <2>2, <2>3 DEF Holders, InLock
  <1>6. Owners /\ InUse /\ Apart
    <2>1. \A t \in AllThreads : pc[t] = "idle" /\ using[t] = None
      OBVIOUS
    <2>2. \A c \in Clients : conn[c] = None /\ ~foreign[c]
      OBVIOUS
    <2>3. "idle" \notin InStream /\ Threads \subseteq AllThreads /\ ChildThreads \subseteq AllThreads
      BY DEF InStream, AllThreads
    <2> QED
      BY <2>1, <2>2, <2>3 DEF Owners, InUse, Apart
  <1>7. Stream
    BY DEF Stream, Quiet, Busy
  <1>8. Once
    <2>1. \A t \in AllThreads : request[t] = None /\ pc[t] = "idle" /\ None <= next
      BY DEF None
    <2>2. \A k \in Links : DOMAIN up[k] = {}
      OBVIOUS
    <2>3. \A q \in Requests : executed[q] = 0
      OBVIOUS
    <2> QED
      BY <2>1, <2>2, <2>3 DEF Once
  <1>9. Truth
    BY DEF Truth, Busy, NoResponse
  <1> QED
    BY <1>1, <1>2, <1>3, <1>4, <1>5, <1>6, <1>7, <1>8, <1>9 DEF Inv, BaseInv, TypeInv

\* What closing makes of a connection.
LEMMA ClosedLink ==
    ASSUME NEW l \in Link, NEW c \in Clients
    PROVE  /\ Closed(l, c) \in Link /\ Closed(l, c).torn = l.torn
           /\ Closed(l, c).state = "unused" <=> l.state = "unused"
           /\ Closed(l, c).fds = l.fds \ {c}
  BY DEF Closed, Shut, Link

LEMMA ShutLink ==
    ASSUME NEW l \in Link
    PROVE  /\ Shut(l, "server") \in Link /\ Shut(l, "server").torn = l.torn
           /\ Shut(l, "server").state = "unused" <=> l.state = "unused"
           /\ Shut(l, "server").fds = l.fds
  BY DEF Shut, Link

LEMMA Dropped ==
    ASSUME TypeInv, NEW c \in Clients, DropConnection(c)
    PROVE  /\ conn' \in [Clients -> Links \cup {None}] /\ link' \in [Links -> Link]
           /\ conn'[c] = None /\ \A d \in Clients : d # c => conn'[d] = conn[d]
           /\ \A k \in Links : /\ link'[k].torn = link[k].torn
                               /\ link'[k].state = "unused" <=> link[k].state = "unused"
                               /\ link'[k].fds \subseteq link[k].fds
                               /\ k # conn[c] => link'[k].fds = link[k].fds
                               /\ link[k].fds \subseteq link'[k].fds \cup {c}
  <1>1. conn' = [conn EXCEPT ![c] = None]
    BY DEF DropConnection
  <1>2. CASE conn[c] = None
    BY <1>1, <1>2 DEF DropConnection, TypeInv, ClientType, LinkType
  <1>3. CASE conn[c] # None
    <2>1. conn[c] \in Links /\ link' = [link EXCEPT ![conn[c]] = Closed(link[conn[c]], c)]
      BY <1>3 DEF DropConnection, TypeInv, ClientType
    <2>2. link[conn[c]] \in Link
      BY <2>1 DEF TypeInv, LinkType
    <2> QED
      BY <1>1, <2>1, <2>2, ClosedLink DEF TypeInv, ClientType, LinkType
  <1> QED
    BY <1>2, <1>3

LEMMA Released ==
    ASSUME TypeInv, NEW t \in AllThreads, Release(t)
    PROVE  /\ holder' \in [Clients -> [Locks -> Holder]]
           /\ using' \in [AllThreads -> Links \cup {None}]
           /\ request' \in [AllThreads -> Requests \cup {None}]
           /\ using'[t] = None /\ request'[t] = None
           /\ \A u \in AllThreads : u # t => using'[u] = using[u] /\ request'[u] = request[u]
           /\ \A c \in Clients, l \in Locks :
                 holder'[c][l] = IF c = ClientOf(t) /\ l = entering[t] THEN Free ELSE holder[c][l]
  <1> USE Names DEF Release, TypeInv, ThreadType, ClientType
  <1>1. /\ using' \in [AllThreads -> Links \cup {None}]
        /\ request' \in [AllThreads -> Requests \cup {None}]
    OBVIOUS
  <1>2. /\ ClientOf(t) \in Clients /\ entering[t] \in Locks
        /\ holder' = [holder EXCEPT ![ClientOf(t)][entering[t]] = Free]
    OBVIOUS
  <1>3. holder' \in [Clients -> [Locks -> Holder]]
    BY <1>2 DEF Holder
  <1> QED
    BY <1>1, <1>2, <1>3
----------------------------------------------------------------------------
LEMMA NextThreadType == TypeInv /\ [Next]_vars => ThreadType'
  <1> SUFFICES ASSUME TypeInv, [Next]_vars PROVE ThreadType'
    OBVIOUS
  <1>0. ThreadType
    BY DEF TypeInv
  <1> USE Names DEF ThreadType, InLock
  <1>1. ASSUME UNCHANGED threadVars PROVE ThreadType'
    BY <1>0, <1>1
  <1>2. ASSUME NEW t \in AllThreads, Call(t) PROVE ThreadType'
    <2>1. next + 1 \in Requests /\ lock[ClientOf(t)] \in Locks
      BY <1>2 DEF Call, TypeInv, HistoryType, ClientType, Requests
    <2> QED
      BY <1>0, <1>2, <2>1 DEF Call
  <1>3. ASSUME NEW t \in AllThreads, Lock(t) \/ Send(t) \/ Ensure(t) PROVE ThreadType'
    BY <1>0, <1>3 DEF Lock, Send, Ensure, TypeInv, ClientType
  <1>4. ASSUME NEW t \in AllThreads, Connect(t) PROVE ThreadType'
    BY <1>0, <1>4 DEF Connect
  <1>5. ASSUME NEW t \in AllThreads,
               \/ Refused(t) \/ Unserializable(t) \/ SendFails(t) \/ BytesBeyond(t)
               \/ ReceiveFails(t) \/ Receive(t) \/ Interrupt(t)
        PROVE  ThreadType'
    <2>1. Release(t) /\ entering' = entering /\ pc' = [pc EXCEPT ![t] = "idle"]
      BY <1>5 DEF Refused, Unserializable, SendFails, BytesBeyond, ReceiveFails, Receive, Interrupt
    <2> QED
      BY <1>0, <2>1, Released
  <1>6. ASSUME NEW t \in AllThreads, AfterFork(t) \/ Close(t) PROVE ThreadType'
    BY <1>1, <1>6 DEF AfterFork, Close
  <1>7. ASSUME NEW k \in Links, Worker(k) \/ CloseConnection(k) PROVE ThreadType'
    BY <1>1, <1>7 DEF Worker, Handle, Respond, WorkerEnds, StopSeen, Finish, CloseConnection
  <1>8. CASE Fork \/ Stop \/ UNCHANGED vars
    BY <1>1, <1>8 DEF Fork, Stop, vars
  <1> QED
    BY <1>2, <1>3, <1>4, <1>5, <1>6, <1>7, <1>8 DEF Next, InRequest

LEMMA NextClientType == TypeInv /\ [Next]_vars => ClientType'
  <1> SUFFICES ASSUME TypeInv, [Next]_vars PROVE ClientType'
    OBVIOUS
  <1>0. ThreadType /\ ClientType
    BY DEF TypeInv
  <1> USE Names DEF ClientType
  <1>1. ASSUME UNCHANGED clientVars PROVE ClientType'
    BY <1>0, <1>1
  <1>2. ASSUME NEW t \in AllThreads, Lock(t) PROVE ClientType'
    <2>1. /\ holder' = [holder EXCEPT ![ClientOf(t)][entering[t]] = t]
          /\ UNCHANGED <<lock, conn, closed, foreign, forked>>
      BY <1>2 DEF Lock
    <2>2. holder' \in [Clients -> [Locks -> Holder]]
      BY <1>0, <2>1 DEF Holder, ThreadType
    <2> QED
      BY <1>0, <2>1, <2>2
  <1>3. ASSUME NEW t \in AllThreads, AfterFork(t) \/ Close(t) PROVE ClientType'
    <2>1. DropConnection(ClientOf(t)) /\ UNCHANGED <<holder, forked>>
      BY <1>3 DEF AfterFork, Close
    <2>2. conn' \in [Clients -> Links \cup {None}]
      BY <2>1, Dropped
    <2>3. /\ lock' \in [Clients -> Locks] /\ closed' \in [Clients -> BOOLEAN]
          /\ foreign' \in [Clients -> BOOLEAN]
      <3>1. CASE AfterFork(t)
        <4>1. /\ foreign' = [foreign EXCEPT ![ClientOf(t)] = FALSE]
              /\ closed' = [closed EXCEPT ![ClientOf(t)] = FALSE]
              /\ lock' = [lock EXCEPT ![ClientOf(t)] = "second"]
          BY <3>1 DEF AfterFork
        <4> QED
          BY <1>0, <4>1
      <3>2. CASE Close(t)
        <4>1. /\ closed' = [closed EXCEPT ![ClientOf(t)] = TRUE]
              /\ UNCHANGED <<lock, foreign>>
          BY <3>2 DEF Close
        <4> QED
          BY <1>0, <4>1
      <3> QED
        BY <1>3, <3>1, <3>2
    <2> QED
      BY <1>0, <2>1, <2>2, <2>3
  <1>4. ASSUME NEW t \in AllThreads, Connect(t) PROVE ClientType'
    BY <1>0, <1>4 DEF Connect
  <1>5. ASSUME NEW t \in AllThreads, SendFails(t) \/ BytesBeyond(t) \/ ReceiveFails(t)
        PROVE  ClientType'
    <2>1. /\ DropConnection(ClientOf(t)) /\ Release(t)
          /\ UNCHANGED <<lock, closed, foreign, forked>>
      BY <1>5 DEF SendFails, BytesBeyond, ReceiveFails
    <2> QED
      BY <1>0, <2>1, Dropped, Released
  <1>6. ASSUME NEW t \in AllThreads,
               Refused(t) \/ Unserializable(t) \/ Receive(t) \/ Interrupt(t)
        PROVE  ClientType'
    <2>1. Release(t) /\ UNCHANGED <<lock, conn, closed, foreign, forked>>
      BY <1>6 DEF Refused, Unserializable, Receive, Interrupt
    <2> QED
      BY <1>0, <2>1, Released
  <1>7. ASSUME NEW t \in AllThreads, Call(t) \/ Ensure(t) \/ Send(t) PROVE ClientType'
    BY <1>1, <1>7 DEF Call, Ensure, Send
  <1>8. ASSUME NEW k \in Links, Worker(k) \/ CloseConnection(k) PROVE ClientType'
    BY <1>1, <1>8 DEF Worker, Handle, Respond, WorkerEnds, StopSeen, Finish, CloseConnection
  <1>9. CASE Fork
    <2>1. holder' \in [Clients -> [Locks -> Holder]]
      BY <1>0, <1>9 DEF Fork, Holder
    <2>2. /\ conn' \in [Clients -> Links \cup {None}] /\ closed' \in [Clients -> BOOLEAN]
          /\ foreign' \in [Clients -> BOOLEAN] /\ forked' \in BOOLEAN /\ lock' = lock
      BY <1>0, <1>9 DEF Fork
    <2> QED
      BY <1>0, <2>1, <2>2
  <1>10. CASE Stop \/ UNCHANGED vars
    BY <1>1, <1>10 DEF Stop, vars
  <1> QED
    BY <1>2, <1>3, <1>4, <1>5, <1>6, <1>7, <1>8, <1>9, <1>10 DEF Next, InRequest

LEMMA UsesALink ==
    ASSUME TypeInv, InUse, NEW t \in AllThreads, pc[t] \in InStream
    PROVE  using[t] \in Links
  BY Names DEF TypeInv, ThreadType, InUse

LEMMA NextLinkType == TypeInv /\ InUse /\ Once /\ [Next]_vars => LinkType'
  <1> SUFFICES ASSUME TypeInv, InUse, Once, [Next]_vars PROVE LinkType'
    OBVIOUS
  <1>0. ThreadType /\ LinkType
    BY DEF TypeInv
  <1>1. \A t \in AllThreads : pc[t] \in InStream => using[t] \in Links
    BY UsesALink
  <1> USE Names DEF LinkType
  <1>2. ASSUME UNCHANGED <<stopping, link, up, down, worker>> PROVE LinkType'
    BY <1>0, <1>2
  <1>3. ASSUME NEW t \in AllThreads,
               SendFails(t) \/ BytesBeyond(t) \/ ReceiveFails(t) \/ AfterFork(t) \/ Close(t)
        PROVE  LinkType'
    <2>1. DropConnection(ClientOf(t)) /\ UNCHANGED <<stopping, up, down, worker>>
      BY <1>3 DEF SendFails, BytesBeyond, ReceiveFails, AfterFork, Close
    <2> QED
      BY <1>0, <2>1, Dropped
  <1>4. ASSUME NEW t \in AllThreads, Connect(t) PROVE LinkType'
    <2>1. PICK k \in Links :
             /\ link' = [link EXCEPT ![k].state = "open", ![k].fds = {ClientOf(t)}]
             /\ worker' = [worker EXCEPT ![k] = Idle]
      BY <1>4 DEF Connect
    <2>2. [link[k] EXCEPT !.state = "open", !.fds = {ClientOf(t)}] \in Link
      <3>1. link[k] \in Link /\ ClientOf(t) \in Clients
        BY <1>0
      <3>2. {ClientOf(t)} \in SUBSET Clients
        BY <3>1
      <3> QED
        BY <3>1, <3>2 DEF Link
    <2>3. link' = [link EXCEPT ![k] = [link[k] EXCEPT !.state = "open", !.fds = {ClientOf(t)}]]
      BY <1>0, <2>1 DEF Link
    <2>4. link' \in [Links -> Link]
      BY <1>0, <2>2, <2>3
    <2> QED
      BY <1>0, <1>4, <2>1, <2>4 DEF Connect
  <1>5. ASSUME NEW t \in AllThreads, Send(t) PROVE LinkType'
    <2>1. using[t] \in Links /\ request[t] \in Requests
      BY <1>0, <1>1, <1>5 DEF Send, InStream, ThreadType, Once
    <2> QED
      BY <1>0, <1>5, <2>1 DEF Send
  <1>6. ASSUME NEW t \in AllThreads, Receive(t) PROVE LinkType'
    <2>1. using[t] \in Links /\ down[using[t]] # << >>
      BY <1>1, <1>6 DEF Receive, InStream
    <2>2. down' \in [Links -> Seq(Responses)]
      BY <1>0, <1>6, <2>1 DEF Receive
    <2> QED
      BY <1>0, <1>6, <2>2 DEF Receive
  <1>7. ASSUME NEW t \in AllThreads, Interrupt(t) PROVE LinkType'
    <2>1. link' \in [Links -> Link]
      <3>1. \A l \in Link : [l EXCEPT !.torn = TRUE] \in Link
        BY DEF Link
      <3>2. link' = [link EXCEPT ![using[t]] = [link[using[t]] EXCEPT !.torn = TRUE]]
        BY <1>7 DEF Interrupt
      <3> QED
        BY <1>0, <3>1, <3>2
    <2> QED
      BY <1>0, <1>7, <2>1 DEF Interrupt
  <1>8. ASSUME NEW t \in AllThreads,
               Call(t) \/ Lock(t) \/ Ensure(t) \/ Refused(t) \/ Unserializable(t)
        PROVE  LinkType'
    BY <1>2, <1>8 DEF Call, Lock, Ensure, Refused, Unserializable
  <1>9. ASSUME NEW k \in Links, Handle(k) PROVE LinkType'
    <2>1. up[k] \in Seq(Requests) /\ up[k] # << >>
      BY <1>0, <1>9 DEF Handle
    <2>2. Head(up[k]) \in Requests /\ Tail(up[k]) \in Seq(Requests)
      BY <2>1
    <2>3. PICK ok \in BOOLEAN : worker' = [worker EXCEPT ![k] = [to |-> Head(up[k]), ok |-> ok]]
      BY <1>9 DEF Handle
    <2>4. [to |-> Head(up[k]), ok |-> ok] \in Responses
      BY <2>2 DEF Responses
    <2> QED
      BY <1>0, <1>9, <2>2, <2>3, <2>4 DEF Handle
  <1>10. ASSUME NEW k \in Links, Respond(k) PROVE LinkType'
    BY <1>0, <1>10 DEF Respond, Busy
  <1>11. ASSUME NEW k \in Links, WorkerEnds(k) \/ StopSeen(k) \/ CloseConnection(k)
         PROVE  LinkType'
    <2>1. /\ link' = [link EXCEPT ![k] = Shut(link[k], "server")]
          /\ worker' = worker \/ worker' = [worker EXCEPT ![k] = Gone]
          /\ UNCHANGED <<stopping, up, down>>
      BY <1>11 DEF WorkerEnds, StopSeen, Finish, CloseConnection
    <2> QED
      BY <1>0, <2>1, ShutLink
  <1>12. CASE Fork
    <2>1. link' \in [Links -> Link]
      <3>1. ASSUME NEW l \in Link PROVE [l EXCEPT !.fds = l.fds \cup {"child"}] \in Link
        BY DEF Link
      <3>2. \A k \in Links : link'[k] = link[k]
                \/ link'[k] = [link[k] EXCEPT !.fds = link[k].fds \cup {"child"}]
        BY <1>12 DEF Fork
      <3>3. link' = [k \in Links |-> link'[k]]
        BY <1>12 DEF Fork
      <3>4. \A k \in Links : link'[k] \in Link
        <4> TAKE k \in Links
        <4>1. link[k] \in Link
          BY <1>0
        <4>2. [link[k] EXCEPT !.fds = link[k].fds \cup {"child"}] \in Link
          BY <3>1, <4>1
        <4> QED
          BY <3>2, <4>1, <4>2
      <3> QED
        BY <3>3, <3>4, Zenon
    <2> QED
      BY <1>0, <1>12, <2>1 DEF Fork
  <1>13. CASE Stop \/ UNCHANGED vars
    BY <1>0, <1>13 DEF Stop, vars
  <1> QED
    BY <1>3, <1>4, <1>5, <1>6, <1>7, <1>8, <1>9, <1>10, <1>11, <1>12, <1>13
    DEF Next, InRequest, Worker

LEMMA NextHistoryType == TypeInv /\ InUse /\ Once /\ [Next]_vars => HistoryType'
  <1> SUFFICES ASSUME TypeInv, InUse, Once, [Next]_vars PROVE HistoryType'
    OBVIOUS
  <1>0. ThreadType /\ LinkType /\ HistoryType
    BY DEF TypeInv
  <1> USE Names DEF HistoryType
  <1>1. ASSUME UNCHANGED history PROVE HistoryType'
    BY <1>0, <1>1
  <1>2. ASSUME NEW t \in AllThreads, Call(t) PROVE HistoryType'
    BY <1>0, <1>2 DEF Call
  <1>3. ASSUME NEW t \in AllThreads, Receive(t) PROVE HistoryType'
    <2>1. using[t] \in Links /\ request[t] \in Requests /\ down[using[t]] # << >>
      BY <1>0, <1>3, UsesALink DEF Receive, InStream, ThreadType, Once
    <2>2. Head(down[using[t]]) \in Responses
      BY <1>0, <2>1 DEF LinkType
    <2> QED
      BY <1>0, <1>3, <2>2 DEF Receive
  <1>4. ASSUME NEW k \in Links, Handle(k) PROVE HistoryType'
    <2>1. Head(up[k]) \in Requests /\ UNCHANGED <<next, answer>>
      BY <1>0, <1>4 DEF Handle, LinkType
    <2>2. PICK done \in BOOLEAN :
             executed' = [executed EXCEPT ![Head(up[k])] = IF done THEN @ + 1 ELSE @]
      BY <1>4 DEF Handle
    <2>3. executed[Head(up[k])] \in Nat /\ executed[Head(up[k])] + 1 \in Nat
      <3>1. \A n \in Nat : n + 1 \in Nat
        OBVIOUS
      <3>2. executed \in [Requests -> Nat]
        BY <1>0
      <3>3. executed[Head(up[k])] \in Nat
        BY <2>1, <3>2
      <3> QED
        BY <3>1, <3>3
    <2>4. executed' \in [Requests -> Nat]
      <3>1. CASE done
        BY <1>0, <2>1, <2>2, <2>3, <3>1
      <3>2. CASE ~done
        BY <1>0, <2>1, <2>2, <2>3, <3>2
      <3> QED
        BY <3>1, <3>2
    <2> QED
      BY <1>0, <2>1, <2>4
  <1>5. ASSUME NEW t \in AllThreads,
               \/ Lock(t) \/ AfterFork(t) \/ Ensure(t) \/ Connect(t) \/ Refused(t) \/ Send(t)
               \/ SendFails(t) \/ BytesBeyond(t) \/ ReceiveFails(t) \/ Unserializable(t)
               \/ Interrupt(t) \/ Close(t)
        PROVE  HistoryType'
    BY <1>1, <1>5
    DEF Lock, AfterFork, Ensure, Connect, Refused, Send, SendFails, BytesBeyond, ReceiveFails,
        Unserializable, Interrupt, Close
  <1>6. ASSUME NEW k \in Links, Respond(k) \/ WorkerEnds(k) \/ StopSeen(k) \/ CloseConnection(k)
        PROVE  HistoryType'
    BY <1>1, <1>6 DEF Respond, WorkerEnds, StopSeen, Finish, CloseConnection
  <1>7. CASE Fork \/ Stop \/ UNCHANGED vars
    BY <1>1, <1>7 DEF Fork, Stop, vars
  <1> QED
    BY <1>2, <1>3, <1>4, <1>5, <1>6, <1>7 DEF Next, InRequest, Worker

\* A request that ends releases the lock, whatever became of it.
Leaves(t) ==
    /\ Release(t)
    /\ pc' = [pc EXCEPT ![t] = "idle"]
    /\ UNCHANGED <<entering, lock, closed, foreign, forked>>

LEMMA Leaving ==
    ASSUME TypeInv, NEW t \in AllThreads,
           \/ Refused(t) \/ Unserializable(t) \/ SendFails(t) \/ BytesBeyond(t)
           \/ ReceiveFails(t) \/ Receive(t) \/ Interrupt(t)
    PROVE  /\ Leaves(t) /\ pc[t] \in InLock
           /\ \/ conn' = conn
              \/ conn'[ClientOf(t)] = None
                 /\ \A d \in Clients : d # ClientOf(t) => conn'[d] = conn[d]
           /\ next' = next /\ executed' = executed
  <1>1. CASE Refused(t) \/ Unserializable(t) \/ Receive(t) \/ Interrupt(t)
    BY <1>1 DEF Refused, Unserializable, Receive, Interrupt, Leaves, InLock
  <1>2. CASE SendFails(t) \/ BytesBeyond(t) \/ ReceiveFails(t)
    <2>1. DropConnection(ClientOf(t)) /\ Leaves(t) /\ pc[t] \in InLock
      BY <1>2 DEF SendFails, BytesBeyond, ReceiveFails, Leaves, InLock
    <2> QED
      BY <1>2, <2>1, Dropped, Names DEF SendFails, BytesBeyond, ReceiveFails
  <1> QED
    BY <1>1, <1>2

LEMMA NextHolders == TypeInv /\ Holders /\ [Next]_vars => Holders'
  <1> SUFFICES ASSUME TypeInv, Holders, [Next]_vars PROVE Holders'
    OBVIOUS
  <1>0. ThreadType /\ ClientType
    BY DEF TypeInv
  <1> USE Names DEF Holders
  <1>1. ASSUME UNCHANGED <<entering, holder, forked>>,
               lock'["parent"] = lock["parent"], ~foreign'["parent"],
               \A u \in AllThreads : /\ pc'[u] \in InLock <=> pc[u] \in InLock
                                     /\ pc'[u] = "idle" <=> pc[u] = "idle",
               conn'["child"] = conn["child"] \/ conn'["child"] = None \/ forked
        PROVE  Holders'
    <2>1. ChildThreads \subseteq AllThreads
      BY DEF AllThreads
    <2> QED
      BY <1>1, <2>1
  <1>2. ASSUME NEW t \in AllThreads, Call(t) PROVE Holders'
    <2>1. /\ pc' = [pc EXCEPT ![t] = "entering"] /\ pc[t] = "idle" /\ Alive(t)
          /\ entering' = [entering EXCEPT ![t] = lock[ClientOf(t)]]
          /\ UNCHANGED clientVars
      BY <1>2 DEF Call
    <2>2. /\ pc[t] \notin InLock /\ pc'[t] \notin InLock
          /\ \A u \in AllThreads : u # t => pc'[u] = pc[u] /\ entering'[u] = entering[u]
          /\ entering'[t] = lock[ClientOf(t)]
      BY <1>0, <2>1 DEF InLock, ThreadType
    <2>3. \A u \in Threads : u \in AllThreads /\ entering'[u] = "first"
      BY <2>1, <2>2 DEF AllThreads
    <2>4. ~forked => ClientOf(t) = "parent"
      BY <2>1 DEF Alive
    <2>5. ~forked => \A u \in ChildThreads : pc'[u] = "idle"
      BY <2>2, <2>4 DEF AllThreads
    <2> QED
      BY <2>1, <2>2, <2>3, <2>5
  <1>3. ASSUME NEW t \in AllThreads, Lock(t) PROVE Holders'
    <2>1. /\ pc' = [pc EXCEPT ![t] = "locked"] /\ pc[t] = "entering"
          /\ holder[ClientOf(t)][entering[t]] = Free
          /\ holder' = [holder EXCEPT ![ClientOf(t)][entering[t]] = t]
          /\ UNCHANGED <<entering, lock, conn, foreign, forked>>
      BY <1>3 DEF Lock
    <2>2. /\ pc[t] \notin InLock /\ pc'[t] \in InLock
          /\ \A u \in AllThreads : u # t => pc'[u] = pc[u]
      BY <1>0, <2>1 DEF InLock, ThreadType
    <2>3. \A c \in Clients, l \in Locks :
             holder'[c][l] = IF c = ClientOf(t) /\ l = entering[t] THEN t ELSE holder[c][l]
      BY <1>0, <2>1 DEF ClientType
    <2>4. \A c \in Clients, l \in Locks, u \in AllThreads :
             holder'[c][l] = u <=> c = ClientOf(u) /\ l = entering[u] /\ pc'[u] \in InLock
      BY <2>1, <2>2, <2>3
    <2>5. ~forked => \A u \in ChildThreads : pc'[u] = "idle"
      BY <2>1, <2>2 DEF AllThreads
    <2> QED
      BY <2>1, <2>4, <2>5
  <1>4. ASSUME NEW t \in AllThreads,
               \/ Refused(t) \/ Unserializable(t) \/ SendFails(t) \/ BytesBeyond(t)
               \/ ReceiveFails(t) \/ Receive(t) \/ Interrupt(t)
        PROVE  Holders'
    <2>1. /\ Release(t) /\ pc' = [pc EXCEPT ![t] = "idle"]
          /\ UNCHANGED <<entering, lock, foreign, forked>>
          /\ conn'["child"] = conn["child"] \/ conn'["child"] = None
      BY <1>4, Leaving DEF Leaves
    <2>2. /\ pc'[t] = "idle" /\ pc'[t] \notin InLock
          /\ \A u \in AllThreads : u # t => pc'[u] = pc[u]
      BY <1>0, <2>1 DEF InLock, ThreadType
    <2>3. \A c \in Clients, l \in Locks :
             holder'[c][l] = IF c = ClientOf(t) /\ l = entering[t] THEN Free ELSE holder[c][l]
      BY <2>1, Released
    <2>4. \A c \in Clients, l \in Locks, u \in AllThreads :
             holder'[c][l] = u <=> c = ClientOf(u) /\ l = entering[u] /\ pc'[u] \in InLock
      <3> SUFFICES ASSUME NEW c \in Clients, NEW l \in Locks, NEW u \in AllThreads
                   PROVE  holder'[c][l] = u <=> c = ClientOf(u) /\ l = entering[u] /\ pc'[u] \in InLock
        OBVIOUS
      <3>1. pc[t] \in InLock
        BY <1>4, Leaving
      <3>2. CASE c = ClientOf(t) /\ l = entering[t]
        BY <2>2, <2>3, <3>1, <3>2
      <3>3. CASE ~(c = ClientOf(t) /\ l = entering[t])
        BY <2>2, <2>3, <3>3
      <3> QED
        BY <3>2, <3>3
    <2>5. ~forked => \A u \in ChildThreads : pc'[u] = "idle"
      BY <2>2 DEF AllThreads
    <2> QED
      BY <2>1, <2>4, <2>5
  <1>5. ASSUME NEW t \in AllThreads, AfterFork(t) \/ Close(t) PROVE Holders'
    <2>1. /\ UNCHANGED <<pc, entering, holder, forked>>
          /\ DropConnection(ClientOf(t))
      BY <1>5 DEF AfterFork, Close
    <2>2. conn'["child"] = conn["child"] \/ conn'["child"] = None
      BY <2>1, Dropped
    <2>3. lock'["parent"] = lock["parent"] /\ ~foreign'["parent"]
      <3>1. CASE AfterFork(t)
        <4>1. /\ ClientOf(t) # "parent" /\ foreign' = [foreign EXCEPT ![ClientOf(t)] = FALSE]
              /\ lock' = [lock EXCEPT ![ClientOf(t)] = "second"]
          BY <3>1 DEF AfterFork
        <4> QED
          BY <1>0, <4>1 DEF ClientType
      <3>2. CASE Close(t)
        BY <3>2 DEF Close
      <3> QED
        BY <1>5, <3>1, <3>2
    <2> QED
      BY <1>1, <2>1, <2>2, <2>3
  <1>6. ASSUME NEW t \in AllThreads, Connect(t) \/ Ensure(t) PROVE Holders'
    <2>1. /\ pc[t] = "locked" /\ pc' = [pc EXCEPT ![t] = "connected"]
          /\ UNCHANGED <<entering, lock, holder, foreign, forked>>
          /\ conn' = conn \/ \E k \in Links : conn' = [conn EXCEPT ![ClientOf(t)] = k]
      BY <1>6 DEF Connect, Ensure
    <2>2. conn'["child"] = conn["child"] \/ forked
      BY <1>0, <2>1 DEF ClientType, AllThreads
    <2> QED
      BY <1>0, <1>1, <2>1, <2>2 DEF ThreadType, InLock
  <1>7. ASSUME NEW t \in AllThreads, Send(t) PROVE Holders'
    <2>1. /\ pc[t] = "connected" /\ pc' = [pc EXCEPT ![t] = "sent"]
          /\ UNCHANGED <<entering, clientVars>>
      BY <1>7 DEF Send
    <2> QED
      BY <1>0, <1>1, <2>1 DEF ThreadType, InLock
  <1>8. ASSUME NEW k \in Links, Worker(k) \/ CloseConnection(k) PROVE Holders'
    BY <1>1, <1>8 DEF Worker, Handle, Respond, WorkerEnds, StopSeen, Finish, CloseConnection
  <1>9. CASE Stop \/ UNCHANGED vars
    BY <1>1, <1>9 DEF Stop, vars
  <1>10. CASE Fork
    <2>1. /\ UNCHANGED <<pc, entering, lock>> /\ ~forked /\ forked'
          /\ foreign' = [foreign EXCEPT !["child"] = TRUE]
          /\ holder' = [holder EXCEPT !["child"]["first"] =
                            IF holder["parent"]["first"] = Free THEN Free ELSE Ghost]
      BY <1>10 DEF Fork
    <2>2. \A c \in Clients, l \in Locks :
             \/ holder'[c][l] = holder[c][l]
             \/ c = "child" /\ holder'[c][l] \in {Free, Ghost}
      BY <1>0, <2>1 DEF ClientType
    <2>3. \A c \in Clients, l \in Locks, u \in AllThreads :
             holder'[c][l] = u <=> c = ClientOf(u) /\ l = entering[u] /\ pc[u] \in InLock
      BY <2>1, <2>2 DEF InLock
    <2>4. ~foreign'["parent"]
      BY <1>0, <2>1 DEF ClientType
    <2> QED
      BY <2>1, <2>3, <2>4
  <1> QED
    BY <1>2, <1>3, <1>4, <1>5, <1>6, <1>7, <1>8, <1>9, <1>10 DEF Next, InRequest

\* One thread of a process has its lock.
LEMMA ParentHolder ==
    ASSUME Holders, NEW t \in Threads, NEW u \in Threads, pc[t] \in InLock, pc[u] \in InLock
    PROVE  t = u
  BY Names DEF Holders, AllThreads

LEMMA OneHolder ==
    ASSUME OneChild, TypeInv, Holders, NEW t \in AllThreads, NEW u \in AllThreads,
           pc[t] \in InLock, pc[u] \in InLock, ClientOf(t) = ClientOf(u)
    PROVE  t = u
  <1>1. CASE t \in Threads
    <2>1. u \in Threads
      BY <1>1, Names
    <2> QED
      BY <1>1, <2>1, ParentHolder
  <1>2. CASE t \in ChildThreads
    <2>1. u \in ChildThreads
      BY <1>2, Names
    <2> QED
      BY <1>2, <2>1 DEF OneChild
  <1> QED
    BY <1>1, <1>2 DEF AllThreads

\* close waits for the lock, and a child that has not used its client since
\* the fork has nobody in it.
LEMMA NobodyInStream ==
    ASSUME OneChild, TypeInv, Holders, Owners, NEW t \in AllThreads,
           \/ Close(t) \/ AfterFork(t) \/ Connect(t) \/ SendFails(t) \/ BytesBeyond(t)
           \/ ReceiveFails(t),
           NEW u \in AllThreads, u # t, pc[u] \in InStream
    PROVE  ClientOf(u) # ClientOf(t)
  <1> SUFFICES ASSUME ClientOf(u) = ClientOf(t) PROVE FALSE
    OBVIOUS
  <1>1. pc[u] \in InLock
    BY DEF InStream, InLock
  <1>2. CASE AfterFork(t) \/ Connect(t) \/ SendFails(t) \/ BytesBeyond(t) \/ ReceiveFails(t)
    <2>1. pc[t] \in InLock
      BY <1>2 DEF AfterFork, Connect, SendFails, BytesBeyond, ReceiveFails, InLock
    <2> QED
      BY <1>1, <2>1, OneHolder
  <1>3. CASE Close(t)
    <2>1. holder[ClientOf(t)][lock[ClientOf(t)]] = Free
      BY <1>3 DEF Close
    <2>2. CASE t \in Threads
      <3>1. u \in Threads /\ ClientOf(u) = "parent"
        BY <2>2, Names
      <3>2. holder["parent"]["first"] = u
        BY <1>1, <3>1, Names DEF Holders
      <3> QED
        BY <2>1, <3>1, <3>2, Names DEF Holders
    <2>3. CASE t \in ChildThreads
      BY <2>3, Names DEF OneChild
    <2> QED
      BY <2>2, <2>3 DEF AllThreads
  <1> QED
    BY <1>2, <1>3

LEMMA NextOwners == OneChild /\ TypeInv /\ Holders /\ Owners /\ [Next]_vars => Owners'
  <1> SUFFICES ASSUME OneChild, TypeInv, Holders, Owners, [Next]_vars PROVE Owners'
    OBVIOUS
  <1>0. ThreadType /\ ClientType /\ LinkType
    BY DEF TypeInv
  <1> USE Names
  <1>1. ASSUME UNCHANGED <<conn, foreign>>,
               \A u \in AllThreads : pc'[u] \in InStream => pc[u] \in InStream /\ using'[u] = using[u],
               \A k \in Links : link'[k].state = "unused" => link[k].state = "unused"
        PROVE  Owners'
    <2>1. \A c \in Clients : conn[c] \in Links \cup {None}
      BY <1>0 DEF ClientType
    <2> QED
      BY <1>1, <2>1 DEF Owners
  <1>2. ASSUME NEW t \in AllThreads,
               Refused(t) \/ Unserializable(t) \/ Receive(t) \/ Interrupt(t)
        PROVE  Owners'
    <2>1. Release(t) /\ pc' = [pc EXCEPT ![t] = "idle"] /\ UNCHANGED <<conn, foreign>>
      BY <1>2 DEF Refused, Unserializable, Receive, Interrupt
    <2>2. \A u \in AllThreads : pc'[u] \in InStream => pc[u] \in InStream /\ using'[u] = using[u]
      BY <1>0, <2>1, Released DEF ThreadType, InStream
    <2>3. \A k \in Links : link'[k].state = "unused" => link[k].state = "unused"
      <3>1. CASE Refused(t) \/ Unserializable(t) \/ Receive(t)
        BY <3>1 DEF Refused, Unserializable, Receive
      <3>2. CASE Interrupt(t)
        BY <1>0, <3>2 DEF Interrupt, LinkType, Link
      <3> QED
        BY <1>2, <3>1, <3>2
    <2> QED
      BY <1>1, <2>1, <2>2, <2>3
  <1>3. ASSUME NEW t \in AllThreads, Call(t) \/ Lock(t) \/ Send(t) PROVE Owners'
    <2>1. UNCHANGED <<using, conn, foreign, link>>
      BY <1>3 DEF Call, Lock, Send
    <2>2. \A u \in AllThreads : pc'[u] \in InStream => pc[u] \in InStream
      BY <1>0, <1>3 DEF Call, Lock, Send, ThreadType, InStream
    <2> QED
      BY <1>1, <2>1, <2>2
  <1>4. ASSUME NEW t \in AllThreads, Ensure(t) PROVE Owners'
    <2>1. /\ pc' = [pc EXCEPT ![t] = "connected"] /\ using' = [using EXCEPT ![t] = conn[ClientOf(t)]]
          /\ conn[ClientOf(t)] # None /\ ~foreign[ClientOf(t)] /\ UNCHANGED <<conn, foreign, link>>
      BY <1>4 DEF Ensure
    <2> QED
      BY <1>0, <2>1 DEF Owners, ThreadType, InStream
  <1>5. ASSUME NEW t \in AllThreads, Connect(t) PROVE Owners'
    <2>1. PICK k \in Links :
             /\ link[k].state = "unused"
             /\ link' = [link EXCEPT ![k].state = "open", ![k].fds = {ClientOf(t)}]
             /\ conn' = [conn EXCEPT ![ClientOf(t)] = k] /\ using' = [using EXCEPT ![t] = k]
      BY <1>5 DEF Connect
    <2>2. /\ pc' = [pc EXCEPT ![t] = "connected"] /\ foreign' = foreign
          /\ ~foreign[ClientOf(t)]
      BY <1>5 DEF Connect
    <2>3. /\ conn'[ClientOf(t)] = k /\ k # None
          /\ \A d \in Clients : d # ClientOf(t) => conn'[d] = conn[d] /\ conn[d] # k
      BY <1>0, <2>1 DEF ClientType, Owners
    <2>4. \A j \in Links : link'[j].state = "unused" => link[j].state = "unused" /\ j # k
      BY <1>0, <2>1 DEF LinkType, Link
    <2>5. /\ using'[t] = k
          /\ \A u \in AllThreads : u # t => pc'[u] = pc[u] /\ using'[u] = using[u]
      BY <1>0, <2>1, <2>2 DEF ThreadType
    <2>6. \A u \in AllThreads : u # t /\ pc[u] \in InStream => ClientOf(u) # ClientOf(t)
      BY <1>5, NobodyInStream
    <2>7. \A u \in AllThreads : pc'[u] \in InStream =>
             /\ using'[u] # None /\ conn'[ClientOf(u)] = using'[u] /\ ~foreign[ClientOf(u)]
      BY <2>2, <2>3, <2>5, <2>6 DEF Owners
    <2>8. \A c \in Clients : conn'[c] # None => link'[conn'[c]].state # "unused"
      BY <1>0, <2>3, <2>4 DEF Owners, ClientType
    <2>9. conn'["parent"] # conn'["child"] \/ conn'["parent"] = None \/ foreign["child"]
      BY <2>3, ClientCases DEF Owners
    <2> QED
      BY <2>2, <2>7, <2>8, <2>9 DEF Owners
  <1>6. ASSUME NEW t \in AllThreads,
               SendFails(t) \/ BytesBeyond(t) \/ ReceiveFails(t) \/ AfterFork(t) \/ Close(t)
        PROVE  Owners'
    <2>1. DropConnection(ClientOf(t))
      BY <1>6 DEF SendFails, BytesBeyond, ReceiveFails, AfterFork, Close
    <2>2. \A u \in AllThreads : u # t /\ pc[u] \in InStream => ClientOf(u) # ClientOf(t)
      BY <1>6, NobodyInStream
    <2>3. /\ pc'[t] \notin InStream
          /\ \A u \in AllThreads : u # t => pc'[u] = pc[u] /\ using'[u] = using[u]
      <3>1. CASE SendFails(t) \/ BytesBeyond(t) \/ ReceiveFails(t)
        <4>1. Release(t) /\ pc' = [pc EXCEPT ![t] = "idle"]
          BY <3>1 DEF SendFails, BytesBeyond, ReceiveFails
        <4> QED
          BY <1>0, <4>1, Released DEF ThreadType, InStream
      <3>2. CASE AfterFork(t) \/ Close(t)
        BY <3>2 DEF AfterFork, Close, InStream
      <3> QED
        BY <1>6, <3>1, <3>2
    <2>4. \A d \in Clients : foreign'[d] => foreign[d]
      BY <1>0, <1>6 DEF SendFails, BytesBeyond, ReceiveFails, AfterFork, Close, ClientType
    <2>5. \A d \in Clients : d # ClientOf(t) => foreign'[d] = foreign[d]
      BY <1>0, <1>6 DEF SendFails, BytesBeyond, ReceiveFails, AfterFork, Close, ClientType
    <2>6. \A u \in AllThreads : pc'[u] \in InStream =>
             /\ using'[u] # None /\ conn'[ClientOf(u)] = using'[u] /\ ~foreign'[ClientOf(u)]
      BY <2>1, <2>2, <2>3, <2>4, Dropped DEF Owners
    <2>7. \A c \in Clients : conn'[c] # None => conn'[c] = conn[c] /\ c # ClientOf(t)
      BY <2>1, Dropped
    <2>8. \A c \in Clients : conn'[c] # None => link'[conn'[c]].state # "unused"
      <3>1. \A k \in Links : link'[k].state = "unused" => link[k].state = "unused"
        BY <2>1, Dropped
      <3>2. \A c \in Clients : conn[c] # None => conn[c] \in Links /\ link[conn[c]].state # "unused"
        BY <1>0 DEF Owners, ClientType
      <3> QED
        BY <2>7, <3>1, <3>2
    <2>9. conn'["parent"] # conn'["child"] \/ conn'["parent"] = None
      BY <2>7, ClientCases
    <2> QED
      BY <2>6, <2>8, <2>9 DEF Owners
  <1>7. ASSUME NEW k \in Links, Worker(k) \/ CloseConnection(k) PROVE Owners'
    <2>1. UNCHANGED <<pc, using, conn, foreign>>
      BY <1>7 DEF Worker, Handle, Respond, WorkerEnds, StopSeen, Finish, CloseConnection
    <2>2. link' = link \/ link' = [link EXCEPT ![k] = Shut(link[k], "server")]
      BY <1>7 DEF Worker, Handle, Respond, WorkerEnds, StopSeen, Finish, CloseConnection
    <2>3. \A j \in Links : link'[j].state = "unused" => link[j].state = "unused"
      BY <1>0, <2>2, ShutLink DEF LinkType
    <2> QED
      BY <1>1, <2>1, <2>3
  <1>8. CASE Fork
    <2>1. /\ UNCHANGED <<pc, using>> /\ ~forked
          /\ conn' = [conn EXCEPT !["child"] = conn["parent"]]
          /\ foreign' = [foreign EXCEPT !["child"] = TRUE]
      BY <1>8 DEF Fork
    <2>2. \A j \in Links : link'[j].state = link[j].state
      BY <1>0, <1>8 DEF Fork, LinkType, Link
    <2>3. \A u \in AllThreads : pc[u] \in InStream => ClientOf(u) = "parent"
      BY <2>1 DEF Holders, InStream, AllThreads
    <2>4. /\ conn'["parent"] = conn["parent"] /\ conn'["child"] = conn["parent"]
          /\ foreign'["parent"] = foreign["parent"] /\ foreign'["child"]
      BY <1>0, <2>1 DEF ClientType
    <2>5. conn["parent"] # None => link'[conn["parent"]].state # "unused"
      BY <1>0, <2>2 DEF ClientType, Owners
    <2>6. \A c \in Clients : conn'[c] # None => link'[conn'[c]].state # "unused"
      BY <2>4, <2>5, ClientCases
    <2> QED
      BY <2>1, <2>3, <2>4, <2>6 DEF Owners
  <1>9. CASE Stop \/ UNCHANGED vars
    BY <1>1, <1>9 DEF Stop, vars
  <1> QED
    BY <1>2, <1>3, <1>4, <1>5, <1>6, <1>7, <1>8, <1>9 DEF Next, InRequest

LEMMA NextInUse == TypeInv /\ InUse /\ [Next]_vars => InUse'
  <1> SUFFICES ASSUME TypeInv, InUse, [Next]_vars PROVE InUse'
    OBVIOUS
  <1>0. ThreadType /\ ClientType
    BY DEF TypeInv
  <1> USE Names DEF InUse, InStream
  <1>1. ASSUME UNCHANGED <<pc, using>> PROVE InUse'
    BY <1>1
  <1>2. ASSUME NEW t \in AllThreads,
               \/ Refused(t) \/ Unserializable(t) \/ SendFails(t) \/ BytesBeyond(t)
               \/ ReceiveFails(t) \/ Receive(t) \/ Interrupt(t)
        PROVE  InUse'
    BY <1>0, <1>2, Leaving, Released DEF Leaves, ThreadType
  <1>3. ASSUME NEW t \in AllThreads, Call(t) \/ Lock(t) \/ Send(t) PROVE InUse'
    BY <1>0, <1>3 DEF Call, Lock, Send, ThreadType
  <1>4. ASSUME NEW t \in AllThreads, Ensure(t) \/ Connect(t) PROVE InUse'
    <2>1. PICK k \in Links : using' = [using EXCEPT ![t] = k]
      BY <1>0, <1>4 DEF Ensure, Connect, ClientType
    <2>2. pc' = [pc EXCEPT ![t] = "connected"] /\ k # None
      BY <1>4 DEF Ensure, Connect
    <2> QED
      BY <1>0, <2>1, <2>2 DEF ThreadType
  <1>5. ASSUME NEW t \in AllThreads, AfterFork(t) \/ Close(t) PROVE InUse'
    BY <1>1, <1>5 DEF AfterFork, Close
  <1>6. ASSUME NEW k \in Links, Worker(k) \/ CloseConnection(k) PROVE InUse'
    BY <1>1, <1>6 DEF Worker, Handle, Respond, WorkerEnds, StopSeen, Finish, CloseConnection
  <1>7. CASE Fork \/ Stop \/ UNCHANGED vars
    BY <1>1, <1>7 DEF Fork, Stop, vars
  <1> QED
    BY <1>2, <1>3, <1>4, <1>5, <1>6, <1>7 DEF Next, InRequest

\* A step that leaves the connections of the two processes theirs.
LEMMA ApartUndisturbed ==
    ASSUME TypeInv, InUse, Apart,
           \A u \in AllThreads : pc'[u] \in InStream =>
               pc[u] \in InStream /\ using'[u] = using[u],
           \A u \in Threads : pc'[u] \in InStream => conn'["parent"] = conn["parent"],
           \A c \in Clients : conn'[c] = conn[c] \/ conn'[c] = None,
           ~foreign'["child"] => ~foreign["child"] \/ conn'["child"] = None,
           foreign'["child"] => foreign["child"],
           \A k \in Links : /\ link'[k].state = "unused" => link[k].state = "unused"
                            /\ link'[k].fds \subseteq link[k].fds
                            /\ "parent" \in link[k].fds /\ k = conn'["parent"] =>
                                  "parent" \in link'[k].fds
    PROVE  Apart'
  <1>0. /\ \A t \in Threads : t \in AllThreads
        /\ \A t \in ChildThreads : t \in AllThreads
        /\ \A c \in Clients : conn[c] \in Links \cup {None}
    BY DEF AllThreads, TypeInv, ClientType
  <1>1. \A t \in Threads : pc'[t] \in InStream => using'[t] = conn'["parent"]
    BY <1>0 DEF Apart
  <1>2. conn'["parent"] # None => /\ link'[conn'["parent"]].state # "unused"
                                 /\ "parent" \in link'[conn'["parent"]].fds
    BY <1>0, Names DEF Apart
  <1>3. foreign'["child"] => \A t \in ChildThreads : pc'[t] \notin InStream
    BY <1>0 DEF Apart
  <1>4. ~foreign'["child"] /\ conn'["child"] # None =>
           /\ link'[conn'["child"]].state # "unused"
           /\ "parent" \notin link'[conn'["child"]].fds
    BY <1>0, Names DEF Apart
  <1>5. ASSUME NEW t \in ChildThreads, pc'[t] \in InStream
        PROVE  /\ link'[using'[t]].state # "unused"
               /\ "parent" \notin link'[using'[t]].fds
    <2>1. pc[t] \in InStream /\ using'[t] = using[t] /\ using[t] \in Links
      BY <1>0, <1>5, UsesALink
    <2> QED
      BY <2>1 DEF Apart
  <1> QED
    BY <1>1, <1>2, <1>3, <1>4, <1>5 DEF Apart

LEMMA NextApart == TypeInv /\ Holders /\ InUse /\ Apart /\ [Next]_vars => Apart'
  <1> SUFFICES ASSUME TypeInv, Holders, InUse, Apart, [Next]_vars PROVE Apart'
    OBVIOUS
  <1>0. ThreadType /\ ClientType /\ LinkType
    BY DEF TypeInv
  <1> USE Names
  <1>1. ASSUME UNCHANGED <<conn, foreign>>,
               \A u \in AllThreads : pc'[u] \in InStream =>
                   pc[u] \in InStream /\ using'[u] = using[u],
               \A k \in Links : /\ link'[k].state = "unused" => link[k].state = "unused"
                                /\ link'[k].fds = link[k].fds
        PROVE  Apart'
    BY <1>1, ApartUndisturbed
  <1>2. ASSUME NEW t \in AllThreads,
               Refused(t) \/ Unserializable(t) \/ Receive(t) \/ Interrupt(t)
        PROVE  Apart'
    <2>1. Release(t) /\ pc' = [pc EXCEPT ![t] = "idle"] /\ UNCHANGED <<conn, foreign>>
      BY <1>2 DEF Refused, Unserializable, Receive, Interrupt
    <2>2. \A u \in AllThreads : pc'[u] \in InStream => pc[u] \in InStream /\ using'[u] = using[u]
      BY <1>0, <2>1, Released DEF ThreadType, InStream
    <2>3. \A k \in Links : /\ link'[k].state = "unused" => link[k].state = "unused"
                           /\ link'[k].fds = link[k].fds
      <3>1. CASE Refused(t) \/ Unserializable(t) \/ Receive(t)
        BY <3>1 DEF Refused, Unserializable, Receive
      <3>2. CASE Interrupt(t)
        BY <1>0, <3>2 DEF Interrupt, LinkType, Link
      <3> QED
        BY <1>2, <3>1, <3>2
    <2> QED
      BY <1>1, <2>1, <2>2, <2>3
  <1>3. ASSUME NEW t \in AllThreads, Call(t) \/ Lock(t) \/ Send(t) PROVE Apart'
    <2>1. UNCHANGED <<using, conn, foreign, link>>
      BY <1>3 DEF Call, Lock, Send
    <2>2. \A u \in AllThreads : pc'[u] \in InStream => pc[u] \in InStream
      BY <1>0, <1>3 DEF Call, Lock, Send, ThreadType, InStream
    <2> QED
      BY <1>1, <2>1, <2>2
  <1>4. ASSUME NEW t \in AllThreads, Ensure(t) PROVE Apart'
    <2>1. /\ pc' = [pc EXCEPT ![t] = "connected"] /\ using' = [using EXCEPT ![t] = conn[ClientOf(t)]]
          /\ conn[ClientOf(t)] # None /\ ~foreign[ClientOf(t)] /\ UNCHANGED <<conn, foreign, link>>
      BY <1>4 DEF Ensure
    <2>2. /\ using'[t] = conn[ClientOf(t)] /\ pc'[t] = "connected"
          /\ \A u \in AllThreads : u # t => pc'[u] = pc[u] /\ using'[u] = using[u]
      BY <1>0, <2>1 DEF ThreadType
    <2> QED
      BY <2>1, <2>2 DEF Apart, AllThreads
  <1>5. ASSUME NEW t \in AllThreads, Connect(t) PROVE Apart'
    <2>1. PICK k \in Links :
             /\ link[k].state = "unused"
             /\ link' = [link EXCEPT ![k].state = "open", ![k].fds = {ClientOf(t)}]
             /\ conn' = [conn EXCEPT ![ClientOf(t)] = k] /\ using' = [using EXCEPT ![t] = k]
      BY <1>5 DEF Connect
    <2>2. /\ pc' = [pc EXCEPT ![t] = "connected"] /\ foreign' = foreign
          /\ ~foreign[ClientOf(t)] /\ conn[ClientOf(t)] = None /\ pc[t] = "locked"
      BY <1>5 DEF Connect
    <2>3. /\ link'[k].state = "open" /\ link'[k].fds = {ClientOf(t)}
          /\ \A j \in Links : j # k => link'[j] = link[j]
      BY <1>0, <2>1 DEF LinkType, Link
    <2>4. /\ conn'[ClientOf(t)] = k /\ k # None
          /\ \A d \in Clients : d # ClientOf(t) => conn'[d] = conn[d]
      BY <1>0, <2>1 DEF ClientType
    <2>5. /\ using'[t] = k /\ pc'[t] \in InStream
          /\ \A u \in AllThreads : u # t => pc'[u] = pc[u] /\ using'[u] = using[u]
      BY <1>0, <2>1, <2>2 DEF ThreadType, InStream
    <2>6. \A c \in Clients : conn[c] \in Links \cup {None}
      BY <1>0 DEF ClientType
    <2>7. \A u \in AllThreads : pc[u] \in InStream => using[u] \in Links
      BY UsesALink
    <2>8. ASSUME NEW u \in ChildThreads, u # t, pc[u] \in InStream
          PROVE  /\ link'[using'[u]].state # "unused"
                 /\ "parent" \notin link'[using'[u]].fds
      <3>1. u \in AllThreads
        BY DEF AllThreads
      <3>2. /\ using[u] \in Links /\ using'[u] = using[u]
            /\ link[using[u]].state # "unused" /\ "parent" \notin link[using[u]].fds
        BY <2>5, <2>7, <2>8, <3>1 DEF Apart
      <3>3. link'[using[u]] = link[using[u]]
        BY <2>1, <2>3, <3>2
      <3> QED
        BY <3>2, <3>3
    <2>9. CASE t \in Threads
      <3>1. ClientOf(t) = "parent" /\ conn'["child"] = conn["child"] /\ conn'["parent"] = k
            /\ t \notin ChildThreads
        BY <2>4, <2>9
      <3>2. \A u \in Threads : u # t => pc[u] \notin InStream
        BY <2>2, <2>9, ParentHolder DEF InStream, InLock
      <3>3. \A u \in Threads : pc'[u] \in InStream => using'[u] = k
        BY <2>5, <3>2 DEF AllThreads
      <3>4. ~foreign["child"] /\ conn["child"] # None =>
               /\ conn["child"] # k /\ link'[conn["child"]].state # "unused"
               /\ "parent" \notin link'[conn["child"]].fds
        BY <2>1, <2>3, <2>6 DEF Apart
      <3>5. \A u \in ChildThreads : pc'[u] = pc[u] /\ u # t
        BY <2>5, <3>1 DEF AllThreads
      <3> QED
        BY <2>2, <2>3, <2>8, <3>1, <3>3, <3>4, <3>5 DEF Apart
    <2>10. CASE t \in ChildThreads
      <3>1. ClientOf(t) = "child" /\ conn'["parent"] = conn["parent"] /\ conn'["child"] = k
            /\ t \notin Threads /\ ~foreign["child"]
        BY <2>2, <2>4, <2>10
      <3>2. \A u \in Threads : pc'[u] = pc[u] /\ using'[u] = using[u]
        BY <2>5, <3>1 DEF AllThreads
      <3>3. conn["parent"] # None => /\ link'[conn["parent"]].state # "unused"
                                    /\ "parent" \in link'[conn["parent"]].fds
        BY <2>1, <2>3, <2>6 DEF Apart
      <3>4. \A u \in ChildThreads : pc'[u] \in InStream =>
               /\ link'[using'[u]].state # "unused"
               /\ "parent" \notin link'[using'[u]].fds
        <4> SUFFICES ASSUME NEW u \in ChildThreads, pc'[u] \in InStream
                     PROVE  /\ link'[using'[u]].state # "unused"
                            /\ "parent" \notin link'[using'[u]].fds
          OBVIOUS
        <4>1. CASE u = t
          BY <2>3, <2>5, <3>1, <4>1
        <4>2. CASE u # t
          BY <2>5, <2>8, <4>2 DEF AllThreads
        <4> QED
          BY <4>1, <4>2
      <3> QED
        BY <2>2, <2>3, <3>1, <3>2, <3>3, <3>4 DEF Apart
    <2> QED
      BY <2>9, <2>10 DEF AllThreads
  <1>6. ASSUME NEW t \in AllThreads,
               SendFails(t) \/ BytesBeyond(t) \/ ReceiveFails(t) \/ AfterFork(t) \/ Close(t)
        PROVE  Apart'
    <2>1. DropConnection(ClientOf(t))
      BY <1>6 DEF SendFails, BytesBeyond, ReceiveFails, AfterFork, Close
    <2>2. /\ pc'[t] \notin InStream
          /\ \A u \in AllThreads : u # t => pc'[u] = pc[u] /\ using'[u] = using[u]
      <3>1. CASE SendFails(t) \/ BytesBeyond(t) \/ ReceiveFails(t)
        <4>1. Release(t) /\ pc' = [pc EXCEPT ![t] = "idle"]
          BY <3>1 DEF SendFails, BytesBeyond, ReceiveFails
        <4> QED
          BY <1>0, <4>1, Released DEF ThreadType, InStream
      <3>2. CASE AfterFork(t) \/ Close(t)
        BY <3>2 DEF AfterFork, Close, InStream
      <3> QED
        BY <1>6, <3>1, <3>2
    <2>3. ASSUME t \in Threads, NEW u \in Threads, u # t PROVE pc[u] \notin InStream
      <3>1. CASE Close(t)
        <4>1. holder["parent"]["first"] = Free
          BY <2>3, <3>1 DEF Close, Holders
        <4> QED
          BY <2>3, <4>1 DEF Holders, InStream, InLock, AllThreads
      <3>2. CASE SendFails(t) \/ BytesBeyond(t) \/ ReceiveFails(t) \/ AfterFork(t)
        <4>1. pc[t] \in InLock
          BY <3>2 DEF SendFails, BytesBeyond, ReceiveFails, AfterFork, InLock
        <4> QED
          BY <2>3, <4>1, ParentHolder DEF InStream, InLock
      <3> QED
        BY <1>6, <3>1, <3>2
    <2>4. foreign' = foreign \/ (AfterFork(t) /\ foreign' = [foreign EXCEPT ![ClientOf(t)] = FALSE])
      BY <1>6 DEF SendFails, BytesBeyond, ReceiveFails, AfterFork, Close
    <2>5. /\ foreign'["child"] => foreign["child"]
          /\ ~foreign'["child"] => ~foreign["child"] \/ ClientOf(t) = "child"
      BY <1>0, <2>4 DEF ClientType
    <2>6. /\ conn'[ClientOf(t)] = None
          /\ \A d \in Clients : d # ClientOf(t) => conn'[d] = conn[d]
      BY <2>1, Dropped
    <2>7. \A u \in Threads : pc'[u] \in InStream => conn'["parent"] = conn["parent"]
      BY <2>2, <2>3, <2>6 DEF AllThreads
    <2>8. \A k \in Links : /\ link'[k].state = "unused" => link[k].state = "unused"
                           /\ link'[k].fds \subseteq link[k].fds
                           /\ "parent" \in link[k].fds /\ k = conn'["parent"] =>
                                 "parent" \in link'[k].fds
      BY <2>1, <2>6, Dropped
    <2> QED
      <3>1. \A u \in AllThreads : pc'[u] \in InStream =>
               pc[u] \in InStream /\ using'[u] = using[u]
        BY <2>2
      <3>2. \A c \in Clients : conn'[c] = conn[c] \/ conn'[c] = None
        BY <2>6
      <3>3. ~foreign'["child"] => ~foreign["child"] \/ conn'["child"] = None
        BY <2>5, <2>6
      <3> QED
        BY <2>5, <2>7, <2>8, <3>1, <3>2, <3>3, ApartUndisturbed
  <1>7. ASSUME NEW k \in Links, Worker(k) \/ CloseConnection(k) PROVE Apart'
    <2>1. UNCHANGED <<pc, using, conn, foreign>>
      BY <1>7 DEF Worker, Handle, Respond, WorkerEnds, StopSeen, Finish, CloseConnection
    <2>2. link' = link \/ link' = [link EXCEPT ![k] = Shut(link[k], "server")]
      BY <1>7 DEF Worker, Handle, Respond, WorkerEnds, StopSeen, Finish, CloseConnection
    <2>3. \A j \in Links : /\ link'[j].state = "unused" => link[j].state = "unused"
                           /\ link'[j].fds = link[j].fds
      <3>1. \A j \in Links : link'[j] \in {link[j], Shut(link[j], "server")}
        BY <1>0, <2>2 DEF LinkType
      <3>2. \A j \in Links : link[j] \in Link
        BY <1>0 DEF LinkType
      <3> QED
        BY <3>1, <3>2, ShutLink
    <2> QED
      BY <1>1, <2>1, <2>3
  <1>8. CASE Fork
    <2>1. /\ UNCHANGED <<pc, using>> /\ ~forked
          /\ conn' = [conn EXCEPT !["child"] = conn["parent"]]
          /\ foreign' = [foreign EXCEPT !["child"] = TRUE]
      BY <1>8 DEF Fork
    <2>2. \A j \in Links : /\ link'[j].state = link[j].state
                           /\ "parent" \in link'[j].fds <=> "parent" \in link[j].fds
      BY <1>0, <1>8 DEF Fork, LinkType, Link
    <2>3. \A u \in ChildThreads : pc[u] \notin InStream
      BY <2>1 DEF Holders, InStream
    <2>4. conn'["parent"] = conn["parent"] /\ foreign'["child"]
      BY <1>0, <2>1 DEF ClientType
    <2>5. conn["parent"] # None => conn["parent"] \in Links
      BY <1>0 DEF ClientType
    <2> QED
      BY <2>1, <2>2, <2>3, <2>4, <2>5 DEF Apart
  <1>9. CASE Stop \/ UNCHANGED vars
    BY <1>1, <1>9 DEF Stop, vars
  <1> QED
    BY <1>2, <1>3, <1>4, <1>5, <1>6, <1>7, <1>8, <1>9 DEF Next, InRequest

----------------------------------------------------------------------------
\* Where a thread of a client is, its connection is nobody else's.
LEMMA InItsStream ==
    ASSUME TypeInv, Owners, NEW t \in AllThreads, pc[t] \in InStream
    PROVE  /\ using[t] \in Links /\ conn[ClientOf(t)] = using[t] /\ ~foreign[ClientOf(t)]
           /\ link[using[t]].state # "unused"
           /\ \A d \in Clients : conn[d] = using[t] /\ ~foreign[d] => d = ClientOf(t)
  <1>1. /\ using[t] \in Links /\ conn[ClientOf(t)] = using[t] /\ ~foreign[ClientOf(t)]
        /\ using[t] # None
    BY Names DEF TypeInv, ThreadType, Owners
  <1>2. link[using[t]].state # "unused"
    BY <1>1, Names DEF Owners
  <1>3. ASSUME NEW d \in Clients, conn[d] = using[t], ~foreign[d] PROVE d = ClientOf(t)
    <2>1. conn["parent"] = conn["child"] /\ conn["parent"] # None => foreign["child"]
      BY DEF Owners
    <2>2. CASE d = "parent" /\ ClientOf(t) = "child"
      BY <1>1, <1>3, <2>1, <2>2
    <2>3. CASE d = "child" /\ ClientOf(t) = "parent"
      BY <1>1, <1>3, <2>1, <2>3
    <2> QED
      BY <2>2, <2>3, ClientCases, Names
  <1> QED
    BY <1>1, <1>2, <1>3

\* A thread of a client that has sent is the one that is in its stream.
LEMMA TheSender ==
    ASSUME OneChild, TypeInv, Holders, Owners, Stream, NEW t \in AllThreads,
           pc[t] \in InStream, ~link[using[t]].torn
    PROVE  Quiet(using[t]) \/ (pc[t] = "sent" /\ Outstanding(using[t], request[t]))
  <1>1. /\ using[t] \in Links /\ conn[ClientOf(t)] = using[t] /\ ~foreign[ClientOf(t)]
        /\ using[t] # None
    BY InItsStream, Names
  <1>2. CASE ~Quiet(using[t])
    <2>1. PICK u \in AllThreads : /\ ClientOf(u) = ClientOf(t) /\ pc[u] = "sent"
                                  /\ Outstanding(using[t], request[u])
      BY <1>1, <1>2, Names DEF Stream
    <2>2. u = t
      BY <2>1, OneHolder DEF InLock, InStream
    <2> QED
      BY <2>1, <2>2
  <1> QED
    BY <1>2

\* A step that leaves what is on the connections alone.
LEMMA StreamUndisturbed ==
    ASSUME TypeInv, Stream, UNCHANGED <<up, down, worker>>,
           \A k \in Links : /\ link'[k].torn = link[k].torn
                            /\ link'[k].state = "unused" => link[k].state = "unused",
           \A c \in Clients : conn'[c] # None /\ ~foreign'[c] =>
                                 conn'[c] = conn[c] /\ ~foreign[c],
           \A u \in AllThreads : pc[u] = "sent" =>
               (pc'[u] = "sent" /\ request'[u] = request[u]) \/ conn'[ClientOf(u)] = None
    PROVE  Stream'
  <1>1. \A k \in Links : Quiet(k)' = Quiet(k)
    BY DEF Quiet, Busy
  <1>2. \A k \in Links : link'[k].state = "unused" => Quiet(k)'
    BY <1>1 DEF Stream
  <1>3. ASSUME NEW c \in Clients, conn'[c] # None, ~foreign'[c], ~link'[conn'[c]].torn
        PROVE  \/ Quiet(conn[c])'
               \/ \E t \in AllThreads : ClientOf(t) = c /\ pc'[t] = "sent"
                                        /\ Outstanding(conn[c], request[t])'
    <2>1. conn'[c] = conn[c] /\ ~foreign[c] /\ conn[c] \in Links /\ ~link[conn[c]].torn
      BY <1>3 DEF TypeInv, ClientType
    <2>2. CASE Quiet(conn[c])
      BY <2>1, <2>2 DEF Quiet, Busy
    <2>3. CASE ~Quiet(conn[c])
      <3>1. PICK t \in AllThreads : /\ ClientOf(t) = c /\ pc[t] = "sent"
                                    /\ Outstanding(conn[c], request[t])
        BY <1>3, <2>1, <2>3 DEF Stream
      <3>2. pc'[t] = "sent" /\ request'[t] = request[t]
        BY <1>3, <3>1
      <3>3. Outstanding(conn[c], request[t])'
        BY <2>1, <3>1, <3>2 DEF Outstanding, Busy
      <3> QED
        BY <3>1, <3>2, <3>3
    <2> QED
      BY <2>2, <2>3
  <1> QED
    BY <1>2, <1>3 DEF Stream

\* A step on one connection.
LEMMA StreamAt ==
    ASSUME TypeInv, Stream, NEW k \in Links, UNCHANGED <<conn, foreign>>,
           \A j \in Links : /\ link'[j].torn = link[j].torn
                            /\ link'[j].state = "unused" => link[j].state = "unused"
                            /\ j # k => /\ up'[j] = up[j] /\ down'[j] = down[j]
                                        /\ worker'[j] = worker[j],
           \A u \in AllThreads : pc[u] = "sent" /\ conn[ClientOf(u)] # k =>
                                    pc'[u] = "sent" /\ request'[u] = request[u],
           link'[k].state = "unused" => Quiet(k)',
           \A c \in Clients : conn[c] = k /\ ~foreign[c] /\ ~link[k].torn =>
               \/ Quiet(k)'
               \/ \E t \in AllThreads : ClientOf(t) = c /\ pc'[t] = "sent"
                                        /\ Outstanding(k, request[t])'
    PROVE  Stream'
  <1>1. \A j \in Links : j # k /\ Quiet(j) => Quiet(j)'
    BY DEF Quiet, Busy
  <1>2. \A j \in Links : link'[j].state = "unused" => Quiet(j)'
    BY <1>1 DEF Stream
  <1>3. ASSUME NEW c \in Clients, conn'[c] # None, ~foreign'[c], ~link'[conn'[c]].torn
        PROVE  \/ Quiet(conn[c])'
               \/ \E t \in AllThreads : ClientOf(t) = c /\ pc'[t] = "sent"
                                        /\ Outstanding(conn[c], request[t])'
    <2>1. conn'[c] = conn[c] /\ ~foreign[c] /\ conn[c] \in Links /\ ~link[conn[c]].torn
      BY <1>3 DEF TypeInv, ClientType
    <2>2. CASE conn[c] = k
      BY <2>1, <2>2
    <2>3. CASE conn[c] # k /\ Quiet(conn[c])
      BY <2>1, <2>3 DEF Quiet, Busy
    <2>4. CASE conn[c] # k /\ ~Quiet(conn[c])
      <3>1. PICK t \in AllThreads : /\ ClientOf(t) = c /\ pc[t] = "sent"
                                    /\ Outstanding(conn[c], request[t])
        BY <1>3, <2>1, <2>4 DEF Stream
      <3>2. pc'[t] = "sent" /\ request'[t] = request[t]
        BY <2>4, <3>1
      <3>3. Outstanding(conn[c], request[t])'
        BY <2>1, <2>4, <3>1, <3>2 DEF Outstanding, Busy
      <3> QED
        BY <3>1, <3>2, <3>3
    <2> QED
      BY <2>2, <2>3, <2>4
  <1> QED
    BY <1>2, <1>3 DEF Stream

LEMMA NextStream ==
    OneChild /\ TypeInv /\ Holders /\ Owners /\ Once /\ Stream /\ [Next]_vars => Stream'
  <1> SUFFICES ASSUME OneChild, TypeInv, Holders, Owners, Once, Stream, [Next]_vars
               PROVE  Stream'
    OBVIOUS
  <1>0. ThreadType /\ ClientType /\ LinkType
    BY DEF TypeInv
  <1> USE Names
  <1>1. ASSUME NEW t \in AllThreads,
               Call(t) \/ Lock(t) \/ Ensure(t) \/ Refused(t) \/ Unserializable(t)
        PROVE  Stream'
    <2>1. UNCHANGED <<up, down, worker, link, conn, foreign>> /\ pc[t] # "sent"
      BY <1>1 DEF Call, Lock, Ensure, Refused, Unserializable
    <2>2. \A u \in AllThreads : u # t => pc'[u] = pc[u] /\ request'[u] = request[u]
      <3>1. CASE Call(t) \/ Lock(t) \/ Ensure(t)
        BY <1>0, <3>1 DEF Call, Lock, Ensure, ThreadType
      <3>2. CASE Refused(t) \/ Unserializable(t)
        BY <1>0, <3>2, Leaving, Released DEF Leaves, ThreadType
      <3> QED
        BY <1>1, <3>1, <3>2
    <2> QED
      BY <2>1, <2>2, StreamUndisturbed
  <1>2. ASSUME NEW t \in AllThreads,
               SendFails(t) \/ BytesBeyond(t) \/ ReceiveFails(t) \/ AfterFork(t) \/ Close(t)
        PROVE  Stream'
    <2>1. DropConnection(ClientOf(t)) /\ UNCHANGED <<up, down, worker>>
      BY <1>2 DEF SendFails, BytesBeyond, ReceiveFails, AfterFork, Close
    <2>2. \A u \in AllThreads : u # t => pc'[u] = pc[u] /\ request'[u] = request[u]
      <3>1. CASE SendFails(t) \/ BytesBeyond(t) \/ ReceiveFails(t)
        BY <1>0, <3>1, Leaving, Released DEF Leaves, ThreadType
      <3>2. CASE AfterFork(t) \/ Close(t)
        BY <3>2 DEF AfterFork, Close
      <3> QED
        BY <1>2, <3>1, <3>2
    <2>3. \A c \in Clients : conn'[c] # None => c # ClientOf(t) /\ conn'[c] = conn[c]
      BY <2>1, Dropped
    <2>4. \A c \in Clients : c # ClientOf(t) => foreign'[c] = foreign[c]
      BY <1>0, <1>2 DEF SendFails, BytesBeyond, ReceiveFails, AfterFork, Close, ClientType
    <2>5. /\ conn'[ClientOf(t)] = None
          /\ \A k \in Links : /\ link'[k].torn = link[k].torn
                              /\ link'[k].state = "unused" => link[k].state = "unused"
      BY <2>1, Dropped
    <2>6. \A c \in Clients : conn'[c] # None /\ ~foreign'[c] => conn'[c] = conn[c] /\ ~foreign[c]
      BY <2>3, <2>4
    <2> QED
      BY <2>1, <2>2, <2>5, <2>6, StreamUndisturbed
  <1>3. ASSUME NEW t \in AllThreads, Connect(t) PROVE Stream'
    <2>1. PICK k \in Links :
             /\ link[k].state = "unused"
             /\ link' = [link EXCEPT ![k].state = "open", ![k].fds = {ClientOf(t)}]
             /\ worker' = [worker EXCEPT ![k] = Idle] /\ conn' = [conn EXCEPT ![ClientOf(t)] = k]
      BY <1>3 DEF Connect
    <2>2. /\ UNCHANGED <<up, down, foreign, request>> /\ pc[t] = "locked"
          /\ pc' = [pc EXCEPT ![t] = "connected"]
      BY <1>3 DEF Connect
    <2>3. \A j \in Links : /\ link'[j].torn = link[j].torn
                           /\ link'[j].state = "unused" => link[j].state = "unused" /\ j # k
      BY <1>0, <2>1 DEF LinkType, Link
    <2>4. \A j \in Links : Quiet(j) => Quiet(j)'
      BY <1>0, <2>1, <2>2 DEF Quiet, Busy, LinkType
    <2>5. Quiet(k)' /\ conn'[ClientOf(t)] = k
      BY <1>0, <2>1, <2>4 DEF Stream, ClientType
    <2>6. ASSUME NEW c \in Clients, conn'[c] # None, ~foreign'[c], ~link'[conn'[c]].torn
          PROVE  \/ Quiet(conn[c])'
                 \/ \E u \in AllThreads : ClientOf(u) = c /\ pc'[u] = "sent"
                                          /\ Outstanding(conn[c], request[u])'
      <3>1. CASE c = ClientOf(t)
        BY <2>5, <3>1 DEF Quiet, Busy
      <3>2. CASE c # ClientOf(t)
        <4>1. /\ conn'[c] = conn[c] /\ ~foreign[c] /\ conn[c] \in Links /\ ~link[conn[c]].torn
              /\ conn[c] # k
          BY <1>0, <2>1, <2>2, <2>3, <2>6, <3>2 DEF ClientType, Owners
        <4>2. CASE Quiet(conn[c])
          <5>1. Quiet(conn[c])'
            BY <1>0, <2>1, <2>2, <4>1, <4>2 DEF Quiet, Busy, LinkType
          <5> QED
            BY <5>1
        <4>3. CASE ~Quiet(conn[c])
          <5>1. PICK u \in AllThreads : /\ ClientOf(u) = c /\ pc[u] = "sent"
                                        /\ Outstanding(conn[c], request[u])
            BY <2>6, <4>1, <4>3 DEF Stream
          <5>2. pc'[u] = "sent" /\ request'[u] = request[u]
            BY <1>0, <2>2, <5>1 DEF ThreadType
          <5>3. worker'[conn[c]] = worker[conn[c]]
            BY <1>0, <2>1, <4>1 DEF LinkType
          <5>4. Outstanding(conn[c], request[u])'
            BY <2>2, <4>1, <5>1, <5>2, <5>3 DEF Outstanding, Busy
          <5> QED
            BY <5>1, <5>2, <5>4
        <4> QED
          BY <4>2, <4>3
      <3> QED
        BY <3>1, <3>2
    <2>7. \A j \in Links : link'[j].state = "unused" => Quiet(j)'
      BY <2>3, <2>4 DEF Stream
    <2> QED
      BY <2>6, <2>7 DEF Stream

  <1>4. ASSUME NEW t \in AllThreads, Send(t) PROVE Stream'
    <2>1. PICK k \in Links : k = using[t]
      BY <1>4, InItsStream DEF Send, InStream
    <2>2. /\ conn[ClientOf(t)] = k /\ link[k].state # "unused"
          /\ \A d \in Clients : conn[d] = k /\ ~foreign[d] => d = ClientOf(t)
      BY <1>4, <2>1, InItsStream DEF Send, InStream
    <2>3. /\ pc[t] = "connected" /\ pc' = [pc EXCEPT ![t] = "sent"]
          /\ up' = [up EXCEPT ![k] = Append(up[k], request[t])]
          /\ UNCHANGED <<request, down, worker, link, conn, foreign>>
      BY <1>4, <2>1 DEF Send
    <2>4. ~link[k].torn => Quiet(k)
      BY <2>1, <2>3, TheSender DEF InStream
    <2>5. ~link[k].torn => Outstanding(k, request[t])'
      <3>1. SUFFICES ASSUME ~link[k].torn PROVE Outstanding(k, request[t])'
        OBVIOUS
      <3>2. up[k] = << >> /\ down[k] = << >> /\ ~Busy(k)
        BY <2>4, <3>1 DEF Quiet
      <3>3. up'[k] = <<request[t]>>
        BY <1>0, <2>3, <3>2 DEF LinkType
      <3> QED
        BY <2>3, <3>2, <3>3 DEF Outstanding, Busy
    <2>6. \A u \in AllThreads : pc[u] = "sent" => pc'[u] = "sent"
      BY <1>0, <2>3 DEF ThreadType
    <2>7. pc'[t] = "sent" /\ \A j \in Links : j # k => up'[j] = up[j]
      BY <1>0, <2>3 DEF ThreadType, LinkType
    <2> QED
      BY <2>2, <2>3, <2>5, <2>6, <2>7, StreamAt
  <1>5. ASSUME NEW t \in AllThreads, Receive(t) PROVE Stream'
    <2>1. PICK k \in Links : k = using[t]
      BY <1>5, InItsStream DEF Receive, InStream
    <2>2. /\ conn[ClientOf(t)] = k /\ link[k].state # "unused"
      BY <1>5, <2>1, InItsStream DEF Receive, InStream
    <2>3. /\ pc[t] = "sent" /\ pc' = [pc EXCEPT ![t] = "idle"] /\ Release(t)
          /\ down[k] # << >> /\ down' = [down EXCEPT ![k] = Tail(down[k])]
          /\ UNCHANGED <<up, worker, link, conn, foreign>>
      BY <1>5, <2>1 DEF Receive
    <2>4. ~link[k].torn => Outstanding(k, request[t])
      BY <2>1, <2>3, TheSender DEF InStream, Quiet
    <2>5. ~link[k].torn => Quiet(k)'
      <3>1. SUFFICES ASSUME ~link[k].torn PROVE Quiet(k)'
        OBVIOUS
      <3>2. PICK r \in Responses : up[k] = << >> /\ ~Busy(k) /\ down[k] = <<r>>
        BY <2>3, <2>4, <3>1 DEF Outstanding
      <3>3. Tail(down[k]) = << >>
        BY <3>2
      <3>4. down'[k] = << >>
        BY <1>0, <2>3, <3>3 DEF LinkType
      <3> QED
        BY <2>3, <3>2, <3>4 DEF Quiet, Busy
    <2>6. \A u \in AllThreads : u # t => pc'[u] = pc[u] /\ request'[u] = request[u]
      BY <1>0, <2>3, Released DEF ThreadType
    <2>7. \A j \in Links : j # k => down'[j] = down[j]
      BY <1>0, <2>3 DEF LinkType
    <2> QED
      BY <2>2, <2>3, <2>5, <2>6, <2>7, StreamAt
  <1>6. ASSUME NEW t \in AllThreads, Interrupt(t) PROVE Stream'
    <2>1. PICK k \in Links : k = using[t]
      BY <1>6, InItsStream DEF Interrupt, InStream
    <2>2. /\ conn[ClientOf(t)] = k /\ link[k].state # "unused"
          /\ \A d \in Clients : conn[d] = k /\ ~foreign[d] => d = ClientOf(t)
      BY <1>6, <2>1, InItsStream DEF Interrupt, InStream
    <2>3. /\ pc' = [pc EXCEPT ![t] = "idle"] /\ Release(t) /\ link' = [link EXCEPT ![k].torn = TRUE]
          /\ UNCHANGED <<up, down, worker, conn, foreign>>
      BY <1>6, <2>1 DEF Interrupt
    <2>4. \A j \in Links : /\ link'[j].state = link[j].state /\ Quiet(j)' = Quiet(j)
                           /\ link'[j].torn = (link[j].torn \/ j = k)
      BY <1>0, <2>3 DEF LinkType, Link, Quiet, Busy
    <2>5. \A u \in AllThreads : u # t => pc'[u] = pc[u] /\ request'[u] = request[u]
      BY <1>0, <2>3, Released DEF ThreadType
    <2>6. ASSUME NEW c \in Clients, conn'[c] # None, ~foreign'[c], ~link'[conn'[c]].torn
          PROVE  \/ Quiet(conn[c])'
                 \/ \E u \in AllThreads : ClientOf(u) = c /\ pc'[u] = "sent"
                                          /\ Outstanding(conn[c], request[u])'
      <3>1. /\ conn'[c] = conn[c] /\ ~foreign[c] /\ conn[c] \in Links /\ ~link[conn[c]].torn
            /\ conn[c] # k
        BY <1>0, <2>3, <2>4, <2>6 DEF ClientType
      <3>2. CASE Quiet(conn[c])
        BY <2>3, <3>1, <3>2 DEF Quiet, Busy
      <3>3. CASE ~Quiet(conn[c])
        <4>1. PICK u \in AllThreads : /\ ClientOf(u) = c /\ pc[u] = "sent"
                                      /\ Outstanding(conn[c], request[u])
          BY <2>6, <3>1, <3>3 DEF Stream
        <4>2. pc'[u] = "sent" /\ request'[u] = request[u]
          BY <2>2, <2>5, <3>1, <4>1
        <4>3. Outstanding(conn[c], request[u])'
          BY <2>3, <3>1, <4>1, <4>2 DEF Outstanding, Busy
        <4> QED
          BY <4>1, <4>2, <4>3
      <3> QED
        BY <3>2, <3>3
    <2>7. \A j \in Links : link'[j].state = "unused" => Quiet(j)'
      BY <2>4 DEF Stream
    <2> QED
      BY <2>6, <2>7 DEF Stream
  <1>7. ASSUME NEW k \in Links, Handle(k) \/ Respond(k) \/ WorkerEnds(k) \/ StopSeen(k)
        PROVE  Stream'
    <2>1. UNCHANGED <<pc, request, conn, foreign>>
      BY <1>7 DEF Handle, Respond, WorkerEnds, StopSeen, Finish
    <2>2. link' = link \/ link' = [link EXCEPT ![k] = Shut(link[k], "server")]
      BY <1>7 DEF Handle, Respond, WorkerEnds, StopSeen, Finish
    <2>3. \A j \in Links : /\ link'[j].torn = link[j].torn
                           /\ link'[j].state = "unused" => link[j].state = "unused"
      BY <1>0, <2>2, ShutLink DEF LinkType
    <2>4. \A j \in Links : j # k => up'[j] = up[j] /\ down'[j] = down[j] /\ worker'[j] = worker[j]
      BY <1>0, <1>7 DEF Handle, Respond, WorkerEnds, StopSeen, Finish, LinkType
    <2>5. ASSUME Quiet(k) PROVE Quiet(k)'
      <3>1. ~Handle(k) /\ ~Respond(k)
        BY <2>5 DEF Handle, Respond, Quiet
      <3> QED
        BY <1>0, <1>7, <2>5, <3>1 DEF WorkerEnds, StopSeen, Finish, Quiet, Busy, LinkType
    <2>6. ASSUME NEW q, Outstanding(k, q) PROVE Quiet(k)' \/ Outstanding(k, q)'
      <3>1. CASE Handle(k)
        <4>1. worker[k] = Idle /\ up[k] # << >> /\ ~Busy(k)
          BY <3>1 DEF Handle, Busy
        <4>2. up[k] = <<q>> /\ down[k] = << >> /\ up[k] \in Seq(Requests)
          BY <1>0, <2>6, <4>1 DEF Outstanding, LinkType
        <4>3. Head(up[k]) = q /\ Tail(up[k]) = << >> /\ q \in Requests
          BY <4>2
        <4>4. PICK ok \in BOOLEAN : worker' = [worker EXCEPT ![k] = [to |-> q, ok |-> ok]]
          BY <3>1, <4>3 DEF Handle
        <4>5. worker'[k] = [to |-> q, ok |-> ok] /\ worker'[k] \in Responses
          BY <1>0, <4>3, <4>4 DEF LinkType, Responses
        <4>6. up'[k] = << >> /\ down'[k] = << >>
          BY <1>0, <3>1, <4>2, <4>3 DEF Handle, LinkType
        <4> QED
          BY <4>5, <4>6 DEF Outstanding, Busy
      <3>2. CASE Respond(k)
        <4>1. up[k] = << >> /\ down[k] = << >> /\ worker[k].to = q /\ worker[k] \in Responses
          BY <2>6, <3>2 DEF Respond, Outstanding, Busy
        <4>2. down'[k] = <<worker[k]>> /\ worker'[k] = Idle /\ up'[k] = << >>
          BY <1>0, <3>2, <4>1 DEF Respond, LinkType
        <4> QED
          BY <4>1, <4>2 DEF Outstanding, Busy
      <3>3. CASE WorkerEnds(k) \/ StopSeen(k)
        <4>1. worker'[k] = Gone /\ up' = up /\ down' = down
          BY <1>0, <3>3 DEF WorkerEnds, StopSeen, Finish, LinkType
        <4> QED
          BY <2>6, <4>1 DEF Outstanding, Quiet, Busy
      <3> QED
        BY <1>7, <3>1, <3>2, <3>3
    <2>7. ASSUME NEW c \in Clients, conn[c] = k, ~foreign[c], ~link[k].torn
          PROVE  \/ Quiet(k)'
                 \/ \E t \in AllThreads : ClientOf(t) = c /\ pc'[t] = "sent"
                                          /\ Outstanding(k, request[t])'
      <3>1. CASE ~Quiet(k)
        <4>1. PICK t \in AllThreads : /\ ClientOf(t) = c /\ pc[t] = "sent"
                                      /\ Outstanding(k, request[t])
          BY <2>7, <3>1 DEF Stream
        <4>2. PICK q \in Requests \cup {None} : q = request[t]
          BY <1>0 DEF ThreadType
        <4>3. Quiet(k)' \/ Outstanding(k, q)'
          BY <2>6, <4>1, <4>2
        <4>4. Outstanding(k, q)' => Outstanding(k, request[t])'
          BY <2>1, <4>2 DEF Outstanding
        <4> QED
          BY <2>1, <4>1, <4>3, <4>4
      <3> QED
        BY <2>5, <3>1
    <2>8. link'[k].state = "unused" => Quiet(k)'
      BY <2>3, <2>5 DEF Stream
    <2> QED
      BY <2>1, <2>3, <2>4, <2>7, <2>8, StreamAt
  <1>8. CASE (\E k \in Links : CloseConnection(k)) \/ Fork \/ Stop \/ UNCHANGED vars
    <2>1. UNCHANGED <<up, down, worker, pc, request>>
      BY <1>8 DEF CloseConnection, Fork, Stop, vars
    <2>2. \A k \in Links : /\ link'[k].torn = link[k].torn
                           /\ link'[k].state = "unused" => link[k].state = "unused"
      <3>1. CASE \E k \in Links : CloseConnection(k)
        BY <1>0, <3>1, ShutLink DEF CloseConnection, LinkType
      <3>2. CASE Fork
        BY <1>0, <3>2 DEF Fork, LinkType, Link
      <3>3. CASE Stop \/ UNCHANGED vars
        BY <3>3 DEF Stop, vars
      <3> QED
        BY <1>8, <3>1, <3>2, <3>3
    <2>3. \A c \in Clients : conn'[c] # None /\ ~foreign'[c] => conn'[c] = conn[c] /\ ~foreign[c]
      <3>1. CASE (\E k \in Links : CloseConnection(k)) \/ Stop \/ UNCHANGED vars
        BY <3>1 DEF CloseConnection, Stop, vars
      <3>2. CASE Fork
        BY <1>0, <3>2, ClientCases DEF Fork, ClientType
      <3> QED
        BY <1>8, <3>1, <3>2
    <2> QED
      BY <2>1, <2>2, <2>3, StreamUndisturbed
  <1> QED
    BY <1>1, <1>2, <1>3, <1>4, <1>5, <1>6, <1>7, <1>8 DEF Next, InRequest, Worker

----------------------------------------------------------------------------
\* A step that sends and handles nothing, and where a call that has not sent
\* keeps its request or ends.
LEMMA OnceUndisturbed ==
    ASSUME TypeInv, Once, UNCHANGED <<up, next, executed>>,
           \A u \in AllThreads :
              \/ request'[u] = request[u] /\ pc'[u] # "idle" /\ pc[u] # "idle"
                 /\ (pc'[u] \in {"entering", "locked", "connected"} =>
                        pc[u] \in {"entering", "locked", "connected"})
              \/ request'[u] = request[u] /\ pc'[u] = pc[u]
              \/ request'[u] = None /\ pc'[u] = "idle"
    PROVE  Once'
  <1>1. None <= next /\ None \notin Requests
    BY Names DEF TypeInv, HistoryType, None
  <1>2. \A u \in AllThreads : request'[u] = request[u] \/ request'[u] = None
    OBVIOUS
  <1>3. \A u \in AllThreads : request'[u] <= next /\ (pc'[u] = "idle" <=> request'[u] = None)
    BY <1>1 DEF Once
  <1>4. \A t, u \in AllThreads : request'[u] = request'[t] /\ request'[t] # None => u = t
    BY <1>2 DEF Once
  <1>5. ASSUME NEW t \in AllThreads, pc'[t] \in {"entering", "locked", "connected"}
        PROVE  /\ executed[request'[t]] = 0
               /\ \A k \in Links : \A i \in DOMAIN up[k] : up[k][i] # request'[t]
    BY <1>5 DEF Once
  <1> QED
    BY <1>3, <1>4, <1>5 DEF Once

LEMMA NextOnce == TypeInv /\ InUse /\ Once /\ [Next]_vars => Once'
  <1> SUFFICES ASSUME TypeInv, InUse, Once, [Next]_vars PROVE Once'
    OBVIOUS
  <1>0. ThreadType /\ ClientType /\ LinkType /\ HistoryType
    BY DEF TypeInv
  <1> USE Names
  <1>1. ASSUME NEW t \in AllThreads,
               Lock(t) \/ Ensure(t) \/ Connect(t)
        PROVE  Once'
    BY <1>0, <1>1, OnceUndisturbed DEF Lock, Ensure, Connect, ThreadType
  <1>2. ASSUME NEW t \in AllThreads,
               \/ Refused(t) \/ Unserializable(t) \/ SendFails(t) \/ BytesBeyond(t)
               \/ ReceiveFails(t) \/ Receive(t) \/ Interrupt(t)
        PROVE  Once'
    <2>1. Leaves(t) /\ UNCHANGED <<next, executed>>
      BY <1>2, Leaving
    <2>2. up' = up
      BY <1>2 DEF Refused, Unserializable, SendFails, BytesBeyond, ReceiveFails, Receive, Interrupt
    <2> QED
      BY <1>0, <2>1, <2>2, Released, OnceUndisturbed DEF Leaves, ThreadType
  <1>3. ASSUME NEW t \in AllThreads, AfterFork(t) \/ Close(t) PROVE Once'
    BY <1>3, OnceUndisturbed DEF AfterFork, Close
  <1>4. ASSUME NEW k \in Links,
               Respond(k) \/ WorkerEnds(k) \/ StopSeen(k) \/ CloseConnection(k)
        PROVE  Once'
    BY <1>4, OnceUndisturbed DEF Respond, WorkerEnds, StopSeen, Finish, CloseConnection
  <1>5. CASE Fork \/ Stop \/ UNCHANGED vars
    BY <1>5, OnceUndisturbed DEF Fork, Stop, vars
  <1>6. ASSUME NEW t \in AllThreads, Call(t) PROVE Once'
    <2>1. /\ next' = next + 1 /\ request' = [request EXCEPT ![t] = next + 1]
          /\ pc' = [pc EXCEPT ![t] = "entering"] /\ UNCHANGED <<up, executed>>
          /\ next < MaxRequests
      BY <1>6 DEF Call
    <2>2. next \in Nat /\ next + 1 \in Requests /\ next + 1 # None
      BY <1>0, <2>1 DEF HistoryType, Requests, None
    <2>3. /\ request'[t] = next + 1 /\ pc'[t] = "entering"
          /\ \A u \in AllThreads : u # t => request'[u] = request[u] /\ pc'[u] = pc[u]
      BY <1>0, <2>1 DEF ThreadType
    <2>4. \A u \in AllThreads : request[u] \in Nat /\ request[u] <= next
      <3>1. \A u \in AllThreads : request[u] \in Requests \cup {0}
        BY <1>0 DEF ThreadType, None
      <3>2. \A u \in AllThreads : request[u] <= next
        BY DEF Once
      <3>3. Requests \cup {0} \subseteq Nat
        BY DEF Requests
      <3> QED
        BY <3>1, <3>2, <3>3
    <2>5. \A u \in AllThreads : request[u] # next + 1 /\ request[u] <= next + 1
      BY <2>2, <2>4
    <2>6. \A j \in Links : \A i \in DOMAIN up[j] : up[j][i] \in Nat /\ up[j][i] <= next
      <3>1. \A j \in Links : up[j] \in Seq(Requests)
        BY <1>0 DEF LinkType
      <3> QED
        BY <3>1 DEF Once, Requests
    <2>7. \A j \in Links : \A i \in DOMAIN up[j] : up[j][i] # next + 1 /\ up[j][i] <= next + 1
      BY <2>2, <2>6
    <2>8. executed[next + 1] = 0
      BY <2>2 DEF Once
    <2>9. \A q \in Requests : q > next + 1 => executed[q] = 0
      BY <2>2 DEF Once, Requests
    <2>10. \A u \in AllThreads :
              request'[u] <= next' /\ (pc'[u] = "idle" <=> request'[u] = None)
      BY <2>1, <2>2, <2>3, <2>5 DEF Once
    <2>11. \A v, u \in AllThreads : request'[u] = request'[v] /\ request'[v] # None => u = v
      BY <2>3, <2>5 DEF Once
    <2>12. \A u \in AllThreads : pc'[u] \in {"entering", "locked", "connected"} =>
              /\ executed[request'[u]] = 0
              /\ \A j \in Links : \A i \in DOMAIN up[j] : up[j][i] # request'[u]
      BY <2>3, <2>7, <2>8 DEF Once
    <2> QED
      BY <2>1, <2>7, <2>9, <2>10, <2>11, <2>12 DEF Once
  <1>7. ASSUME NEW t \in AllThreads, Send(t) PROVE Once'
    <2>1. PICK k \in Links : k = using[t]
      BY <1>0, <1>7, UsesALink DEF Send, InStream
    <2>2. /\ pc[t] = "connected" /\ pc' = [pc EXCEPT ![t] = "sent"]
          /\ up' = [up EXCEPT ![k] = Append(up[k], request[t])]
          /\ UNCHANGED <<request, next, executed>>
      BY <1>7, <2>1 DEF Send
    <2>3. PICK q \in Requests : q = request[t]
      BY <1>0, <2>2 DEF ThreadType, Once
    <2>4. q <= next /\ executed[q] = 0 /\ \A j \in Links : \A i \in DOMAIN up[j] : up[j][i] # q
      BY <2>2, <2>3 DEF Once
    <2>5. /\ up[k] \in Seq(Requests) /\ up'[k] = Append(up[k], q)
          /\ \A j \in Links : j # k => up'[j] = up[j]
      BY <1>0, <2>2, <2>3 DEF LinkType
    <2>6. /\ \A i \in DOMAIN up[k] : i \in DOMAIN up'[k] /\ up'[k][i] = up[k][i]
          /\ \A i \in DOMAIN up'[k] :
                \/ i \in DOMAIN up[k] /\ up'[k][i] = up[k][i]
                \/ i = Len(up[k]) + 1 /\ up'[k][i] = q
      BY <2>5
    <2>7. \A j \in Links : \A i \in DOMAIN up'[j] :
             \/ i \in DOMAIN up[j] /\ up'[j][i] = up[j][i] /\ up'[j][i] # q
             \/ j = k /\ i = Len(up[k]) + 1 /\ up'[j][i] = q
      BY <2>4, <2>5, <2>6
    <2>8. \A u \in AllThreads : u # t => pc'[u] = pc[u] /\ (request[u] = q => FALSE)
      BY <1>0, <2>2, <2>3 DEF Once, ThreadType
    <2>9. /\ pc'[t] = "sent" /\ pc[t] # "idle"
      BY <1>0, <2>2 DEF ThreadType
    <2>10. \A u \in AllThreads : pc'[u] \in {"entering", "locked", "connected"} =>
              /\ executed[request[u]] = 0
              /\ \A j \in Links : \A i \in DOMAIN up'[j] : up'[j][i] # request[u]
      BY <2>7, <2>8, <2>9 DEF Once
    <2>11. \A j \in Links : \A i \in DOMAIN up'[j] :
              up'[j][i] <= next /\ executed[up'[j][i]] = 0
      BY <2>4, <2>7 DEF Once
    <2>12. \A j \in Links : \A i \in DOMAIN up'[j] :
              \A l \in Links : \A m \in DOMAIN up'[l] : up'[l][m] = up'[j][i] => l = j /\ m = i
      BY <2>7 DEF Once
    <2>13. \A u \in AllThreads : request[u] <= next /\ (pc'[u] = "idle" <=> request[u] = None)
      BY <2>2, <2>8, <2>9 DEF Once
    <2> QED
      BY <2>2, <2>10, <2>11, <2>12, <2>13 DEF Once
  <1>8. ASSUME NEW k \in Links, Handle(k) PROVE Once'
    <2>1. up[k] \in Seq(Requests) /\ up[k] # << >>
      BY <1>0, <1>8 DEF Handle, LinkType
    <2>2. PICK q \in Requests : q = Head(up[k])
      <3>1. Head(up[k]) \in Requests
        BY <2>1
      <3> QED
        BY <3>1
    <2>3. PICK done \in BOOLEAN : executed' = [executed EXCEPT ![q] = IF done THEN @ + 1 ELSE @]
      BY <1>8, <2>2 DEF Handle
    <2>4. /\ UNCHANGED <<pc, request, next>> /\ up' = [up EXCEPT ![k] = Tail(up[k])]
      BY <1>8 DEF Handle
    <2>5. 1 \in DOMAIN up[k] /\ up[k][1] = q /\ q <= next /\ executed[q] = 0
      BY <2>1, <2>2 DEF Once
    <2>6. executed'[q] \in {0, 1} /\ \A r \in Requests : r # q => executed'[r] = executed[r]
      BY <1>0, <2>3, <2>5 DEF HistoryType
    <2>7. up'[k] = Tail(up[k]) /\ \A j \in Links : j # k => up'[j] = up[j]
      BY <1>0, <2>4 DEF LinkType
    <2>8. \A i \in DOMAIN up'[k] :
             i \in Nat /\ i + 1 \in DOMAIN up[k] /\ i + 1 # 1 /\ up'[k][i] = up[k][i + 1]
      BY <2>1, <2>7
    <2>9. \A j \in Links : \A i \in DOMAIN up'[j] : \E m \in DOMAIN up[j] :
             up'[j][i] = up[j][m] /\ m = (IF j = k THEN i + 1 ELSE i) /\ (j = k => m # 1)
      BY <2>7, <2>8
    <2>10. \A j \in Links : \A i \in DOMAIN up'[j] :
              up'[j][i] \in Requests /\ up'[j][i] # q /\ up'[j][i] <= next
              /\ executed[up'[j][i]] = 0
      <3>1. \A j \in Links : \A m \in DOMAIN up[j] : up[j][m] \in Requests
        BY <1>0 DEF LinkType
      <3>2. \A j \in Links : \A m \in DOMAIN up[j] :
               up[j][m] <= next /\ executed[up[j][m]] = 0 /\ (up[j][m] = q => j = k /\ m = 1)
        BY <2>5 DEF Once
      <3> QED
        BY <2>9, <3>1, <3>2
    <2>11. \A j, l \in Links : \A i \in DOMAIN up'[j], m \in DOMAIN up'[l] :
              up'[l][m] = up'[j][i] => l = j /\ m = i
      <3> SUFFICES ASSUME NEW j \in Links, NEW l \in Links, NEW i \in DOMAIN up'[j],
                          NEW m \in DOMAIN up'[l], up'[l][m] = up'[j][i]
                   PROVE  l = j /\ m = i
        OBVIOUS
      <3>1. PICK x \in DOMAIN up[j] : up'[j][i] = up[j][x] /\ x = (IF j = k THEN i + 1 ELSE i)
        BY <2>9
      <3>2. PICK y \in DOMAIN up[l] : up'[l][m] = up[l][y] /\ y = (IF l = k THEN m + 1 ELSE m)
        BY <2>9
      <3>3. l = j /\ x = y
        BY <3>1, <3>2 DEF Once
      <3>4. CASE j = k
        BY <2>8, <3>1, <3>2, <3>3, <3>4
      <3>5. CASE j # k
        BY <3>1, <3>2, <3>3, <3>5
      <3> QED
        BY <3>3, <3>4, <3>5
    <2>12. \A u \in AllThreads : pc[u] \in {"entering", "locked", "connected"} =>
              /\ executed'[request[u]] = 0
              /\ \A j \in Links : \A i \in DOMAIN up'[j] : up'[j][i] # request[u]
      <3> SUFFICES ASSUME NEW u \in AllThreads, pc[u] \in {"entering", "locked", "connected"}
                   PROVE  /\ executed'[request[u]] = 0
                          /\ \A j \in Links : \A i \in DOMAIN up'[j] : up'[j][i] # request[u]
        OBVIOUS
      <3>1. /\ executed[request[u]] = 0
            /\ \A j \in Links : \A m \in DOMAIN up[j] : up[j][m] # request[u]
        BY DEF Once
      <3>2. request[u] \in Requests
        BY <1>0 DEF Once, ThreadType
      <3>3. request[u] # q
        BY <2>5, <3>1
      <3>4. executed'[request[u]] = 0
        BY <2>6, <3>1, <3>2, <3>3
      <3>5. \A j \in Links : \A i \in DOMAIN up'[j] : up'[j][i] # request[u]
        BY <2>9, <3>1
      <3> QED
        BY <3>4, <3>5
    <2>13. \A r \in Requests : executed'[r] <= 1 /\ (r > next => executed'[r] = 0)
      <3>1. next \in Nat
        BY <1>0 DEF HistoryType
      <3>2. ~(q > next)
        BY <2>5, <3>1 DEF Requests
      <3>3. \A r \in Requests : executed[r] <= 1 /\ (r > next => executed[r] = 0)
        BY DEF Once
      <3>4. executed'[q] <= 1
        BY <2>6
      <3>5. \A r \in Requests : r # q => executed'[r] <= 1 /\ (r > next => executed'[r] = 0)
        BY <2>6, <3>3
      <3> QED
        BY <3>2, <3>4, <3>5
    <2>14. \A j \in Links : \A i \in DOMAIN up'[j] :
              up'[j][i] <= next /\ executed'[up'[j][i]] = 0
      BY <2>6, <2>10
    <2> QED
      BY <2>4, <2>11, <2>12, <2>13, <2>14 DEF Once
  <1> QED
    BY <1>1, <1>2, <1>3, <1>4, <1>5, <1>6, <1>7, <1>8 DEF Next, InRequest, Worker


LEMMA NextTruth == TypeInv /\ InUse /\ Once /\ Truth /\ [Next]_vars => Truth'
  <1> SUFFICES ASSUME TypeInv, InUse, Once, Truth, [Next]_vars PROVE Truth'
    OBVIOUS
  <1>0. LinkType /\ HistoryType
    BY DEF TypeInv
  <1> USE Names
  <1>1. ASSUME UNCHANGED <<worker, down, answer, executed>> PROVE Truth'
    BY <1>1 DEF Truth, Busy
  <1>2. ASSUME NEW t \in AllThreads,
               \/ Call(t) \/ Lock(t) \/ AfterFork(t) \/ Ensure(t) \/ Refused(t) \/ Send(t)
               \/ SendFails(t) \/ BytesBeyond(t) \/ ReceiveFails(t) \/ Unserializable(t)
               \/ Interrupt(t) \/ Close(t)
        PROVE  Truth'
    BY <1>1, <1>2
    DEF Call, Lock, AfterFork, Ensure, Refused, Send, SendFails, BytesBeyond, ReceiveFails,
        Unserializable, Interrupt, Close
  <1>3. ASSUME NEW t \in AllThreads, Connect(t) PROVE Truth'
    <2>1. PICK k \in Links : worker' = [worker EXCEPT ![k] = Idle]
      BY <1>3 DEF Connect
    <2>2. UNCHANGED <<down, answer, executed>>
      BY <1>3 DEF Connect
    <2> QED
      BY <1>0, <2>1, <2>2 DEF Truth, Busy, LinkType
  <1>4. ASSUME NEW t \in AllThreads, Receive(t) PROVE Truth'
    <2>1. PICK k \in Links : k = using[t]
      BY <1>0, <1>4, UsesALink DEF Receive, InStream
    <2>2. request[t] \in Requests /\ down[k] \in Seq(Responses) /\ down[k] # << >>
      BY <1>0, <1>4, <2>1 DEF Receive, TypeInv, ThreadType, LinkType, Once
    <2>3. /\ answer' = [answer EXCEPT ![request[t]] = Head(down[k])]
          /\ down' = [down EXCEPT ![k] = Tail(down[k])] /\ UNCHANGED <<worker, executed>>
      BY <1>4, <2>1 DEF Receive
    <2>4. Head(down[k]) = down[k][1] /\ 1 \in DOMAIN down[k]
      BY <2>2
    <2>5. \A i \in DOMAIN Tail(down[k]) :
             i + 1 \in DOMAIN down[k] /\ Tail(down[k])[i] = down[k][i + 1]
      BY <2>2
    <2>6. \A q \in Requests : answer'[q] = answer[q] \/ answer'[q] = down[k][1]
      BY <1>0, <2>2, <2>3, <2>4 DEF HistoryType
    <2>7. \A q \in Requests : answer'[q].ok => executed[answer'[q].to] = 1
      BY <2>4, <2>6 DEF Truth
    <2>8. down'[k] = Tail(down[k]) /\ \A j \in Links : j # k => down'[j] = down[j]
      BY <1>0, <2>3 DEF LinkType
    <2>9. \A j \in Links : \A i \in DOMAIN down'[j] : \E m \in DOMAIN down[j] :
             down'[j][i] = down[j][m]
      BY <2>5, <2>8
    <2>10. \A j \in Links : \A i \in DOMAIN down'[j] :
              down'[j][i].ok => executed[down'[j][i].to] = 1
      BY <2>9 DEF Truth
    <2> QED
      BY <2>3, <2>7, <2>10 DEF Truth, Busy
  <1>5. ASSUME NEW k \in Links, Handle(k) PROVE Truth'
    <2>1. up[k] \in Seq(Requests) /\ up[k] # << >>
      BY <1>0, <1>5 DEF Handle, LinkType
    <2>2. PICK q \in Requests : q = Head(up[k])
      <3>1. Head(up[k]) \in Requests
        BY <2>1
      <3> QED
        BY <3>1
    <2>3. 1 \in DOMAIN up[k] /\ up[k][1] = q
      BY <2>1, <2>2
    <2>4. executed[q] = 0
      BY <2>3 DEF Once
    <2>5. PICK done \in BOOLEAN, ok \in BOOLEAN :
             /\ ok => done
             /\ worker' = [worker EXCEPT ![k] = [to |-> q, ok |-> ok]]
             /\ executed' = [executed EXCEPT ![q] = IF done THEN @ + 1 ELSE @]
      BY <1>5, <2>2 DEF Handle
    <2>6. UNCHANGED <<down, answer>>
      BY <1>5 DEF Handle
    <2>7. /\ done => executed'[q] = 1
          /\ \A r : executed[r] = 1 => executed'[r] = 1
      BY <1>0, <2>4, <2>5 DEF HistoryType
    <2>8. \A j \in Links : Busy(j)' /\ worker'[j].ok => executed'[worker'[j].to] = 1
      <3> SUFFICES ASSUME NEW j \in Links, Busy(j)', worker'[j].ok
                   PROVE  executed'[worker'[j].to] = 1
        OBVIOUS
      <3>1. CASE j = k
        <4>1. worker'[k] = [to |-> q, ok |-> ok]
          BY <1>0, <2>5 DEF LinkType
        <4> QED
          BY <2>5, <2>7, <3>1, <4>1
      <3>2. CASE j # k
        <4>1. worker'[j] = worker[j]
          BY <1>0, <2>5, <3>2 DEF LinkType
        <4>2. executed[worker[j].to] = 1
          BY <4>1 DEF Truth, Busy
        <4> QED
          BY <2>7, <4>1, <4>2
      <3> QED
        BY <3>1, <3>2
    <2> QED
      BY <2>6, <2>7, <2>8 DEF Truth
  <1>6. ASSUME NEW k \in Links, Respond(k) PROVE Truth'
    <2>1. /\ Busy(k) /\ worker[k] \in Responses /\ down[k] \in Seq(Responses)
          /\ UNCHANGED <<answer, executed>>
      BY <1>0, <1>6 DEF Respond, Busy, LinkType
    <2>2. /\ worker'[k] = Idle /\ down'[k] = Append(down[k], worker[k])
          /\ \A j \in Links : j # k => worker'[j] = worker[j] /\ down'[j] = down[j]
      BY <1>0, <1>6 DEF Respond, LinkType
    <2>3. \A i \in DOMAIN down'[k] :
             (i \in DOMAIN down[k] /\ down'[k][i] = down[k][i]) \/ down'[k][i] = worker[k]
      BY <2>1, <2>2
    <2>4. \A j \in Links : Busy(j)' /\ worker'[j].ok => executed[worker'[j].to] = 1
      BY <2>2 DEF Truth, Busy
    <2>5. \A j \in Links : \A i \in DOMAIN down'[j] :
             down'[j][i].ok => executed[down'[j][i].to] = 1
      BY <2>1, <2>2, <2>3 DEF Truth
    <2> QED
      BY <2>1, <2>4, <2>5 DEF Truth
  <1>7. ASSUME NEW k \in Links, WorkerEnds(k) \/ StopSeen(k) PROVE Truth'
    <2>1. worker' = [worker EXCEPT ![k] = Gone] /\ UNCHANGED <<down, answer, executed>>
      BY <1>7 DEF WorkerEnds, StopSeen, Finish
    <2> QED
      BY <1>0, <2>1 DEF Truth, Busy, LinkType
  <1>8. CASE (\E k \in Links : CloseConnection(k)) \/ Fork \/ Stop \/ UNCHANGED vars
    BY <1>1, <1>8 DEF CloseConnection, Fork, Stop, vars
  <1> QED
    BY <1>2, <1>3, <1>4, <1>5, <1>6, <1>7, <1>8 DEF Next, InRequest, Worker
----------------------------------------------------------------------------
LEMMA BaseInductive == Spec => []BaseInv
  <1>1. Init => BaseInv
    BY InitInv DEF Inv
  <1>2. BaseInv /\ [Next]_vars => BaseInv'
    BY NextThreadType, NextClientType, NextLinkType, NextHistoryType, NextHolders, NextInUse,
       NextApart, NextOnce, NextTruth
    DEF BaseInv, TypeInv
  <1> QED
    BY <1>1, <1>2, PTL DEF Spec

LEMMA Inductive == OneChild => (Spec => []Inv)
  <1> SUFFICES ASSUME OneChild PROVE Spec => []Inv
    OBVIOUS
  <1>1. Inv /\ [Next]_vars => Inv'
    <2> SUFFICES ASSUME Inv, [Next]_vars PROVE Inv'
      OBVIOUS
    <2>1. BaseInv'
      BY NextThreadType, NextClientType, NextLinkType, NextHistoryType, NextHolders, NextInUse,
         NextApart, NextOnce, NextTruth
      DEF Inv, BaseInv, TypeInv
    <2>2. Owners' /\ Stream'
      BY NextOwners, NextStream DEF Inv, BaseInv
    <2> QED
      BY <2>1, <2>2 DEF Inv
  <1> QED
    BY InitInv, <1>1, PTL DEF Spec

LEMMA Typed == BaseInv => TypeOK
  BY Names DEF BaseInv, TypeInv, ThreadType, ClientType, LinkType, HistoryType, TypeOK,
     Holders, Holder, Link, InLock

\* Client._request holds the lock of its process from before the frame is
\* sent until the response is read, and a child drops what it inherited: no
\* thread uses a connection on which a thread of the parent is in the middle
\* of a request, and no thread of a child uses its parent's, whoever else
\* times out, closes or forks.  The child may have any number of threads.
THEOREM OneInTheStream == Spec => []StreamsApart
  <1>1. BaseInv => StreamsApart
    <2> SUFFICES ASSUME BaseInv PROVE StreamsApart
      OBVIOUS
    <2>1. TypeInv /\ Holders /\ InUse /\ Apart
      BY DEF BaseInv
    <2>2. ASSUME NEW u \in ChildThreads, using[u] # None PROVE using[u] # conn["parent"]
      <3>1. u \in AllThreads /\ pc[u] \in InStream
        BY <2>1, <2>2 DEF InUse, AllThreads
      <3>2. using[u] \in Links
        BY <2>1, <3>1, UsesALink
      <3> QED
        BY <2>1, <2>2, <3>1, <3>2 DEF Apart
    <2>3. ASSUME NEW t \in Threads, NEW u \in AllThreads, t # u, using[t] # None
          PROVE  using[u] # using[t]
      <3>1. t \in AllThreads /\ pc[t] \in InStream /\ using[t] = conn["parent"]
        BY <2>1, <2>3 DEF InUse, Apart, AllThreads
      <3>2. CASE u \in ChildThreads
        BY <2>2, <2>3, <3>1, <3>2
      <3>3. CASE u \in Threads
        <4>1. SUFFICES ASSUME using[u] # None PROVE FALSE
          BY <2>3
        <4>2. pc[u] \in InStream
          BY <2>1, <4>1 DEF InUse
        <4> QED
          BY <2>1, <2>3, <3>1, <3>3, <4>2, ParentHolder DEF InStream, InLock
      <3> QED
        BY <3>2, <3>3 DEF AllThreads
    <2> QED
      BY <2>2, <2>3, Typed DEF StreamsApart
  <1> QED
    BY BaseInductive, <1>1, PTL

\* The frame a thread finds on the connection of its client answers its own
\* request, although frames carry no number: every failure drops the
\* connection with what is still on it.  The child has one thread.
THEOREM AnswersItsRequest == OneChild => (Spec => []OwnAnswer)
  <1> SUFFICES ASSUME OneChild PROVE Spec => []OwnAnswer
    OBVIOUS
  <1>1. Inv => OwnAnswer
    <2> SUFFICES ASSUME Inv, NEW t \in AllThreads, pc[t] = "sent",
                        down[using[t]] # << >>, ~link[using[t]].torn
                 PROVE  Head(down[using[t]]).to = request[t]
      BY DEF OwnAnswer
    <2>1. Outstanding(using[t], request[t])
      BY TheSender DEF Inv, BaseInv, InStream, Quiet
    <2> QED
      BY <2>1 DEF Outstanding
  <1> QED
    BY Inductive, <1>1, PTL

\* The daemon carries a request out at most once, and did so where its caller
\* has read a success: a failed request is not sent again.
THEOREM CarriedOutOnce == Spec => []ExecutedOnce
  <1>1. BaseInv => ExecutedOnce
    BY DEF BaseInv, Once, Truth, ExecutedOnce
  <1> QED
    BY BaseInductive, <1>1, PTL
=============================================================================
