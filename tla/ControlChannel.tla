--------------------------- MODULE ControlChannel ---------------------------
(***************************************************************************)
(* The persistent control connection between a Client and the mstore       *)
(* daemon (client.py _request, transport.py, protocol.py, server.py        *)
(* _serve_connection).  Application threads take the client's lock, send a *)
(* request and read one frame; requests and responses carry no number.  A  *)
(* worker of the daemon serves one connection.  Reads time out, the daemon *)
(* stops, a signal interrupts a read, and the process forks with the       *)
(* client, its lock and its connection copied into the child.              *)
(***************************************************************************)
EXTENDS Integers, Sequences

CONSTANTS
    Threads,          \* threads of the process that made the client
    ChildThreads,     \* threads of a process forked from it
    MaxRequests,      \* bound: requests of all threads
    MaxLinks          \* bound: connections

ASSUME ChannelAssumption ==
    /\ Threads \cap ChildThreads = {}
    /\ {"free", "ghost"} \cap (Threads \cup ChildThreads) = {}
    /\ MaxRequests \in Nat /\ MaxLinks \in Nat

Clients == {"parent", "child"}
AllThreads == Threads \cup ChildThreads
ClientOf(t) == IF t \in Threads THEN "parent" ELSE "child"
Requests == 1 .. MaxRequests
Links == 1 .. MaxLinks
None == 0
\* _request_lock of a client: the one it has, and the one that replaces it
\* after a fork.
Locks == {"first", "second"}
Free == "free"
Ghost == "ghost"      \* a holder that does not exist in the child

\* pc: idle, entering (has read self._request_lock), locked, connected
\* (_ensure_connection returned), sent.
VARIABLES
    pc, entering, request, using,    \* per thread
    lock, holder, conn, closed,      \* per client
    foreign,      \* per client: _pid is another process's
    forked, stopping,
    link,         \* per connection: state, who shut it, who has its socket,
                  \* whether a signal interrupted a read on it (history)
    up, down,     \* frames on their way to the daemon and to the client
    worker,       \* per connection: idle, the response to send, or gone
    next,         \* requests made
    executed,     \* per request: how often the daemon carried it out
    answer        \* per request: the response that was returned for it

vars == <<pc, entering, request, using, lock, holder, conn, closed, foreign, forked,
          stopping, link, up, down, worker, next, executed, answer>>
threadVars == <<pc, entering, request, using>>
clientVars == <<lock, holder, conn, closed, foreign, forked>>
serverVars == <<stopping, worker>>
history == <<next, executed, answer>>

Responses == [to : Requests, ok : BOOLEAN]
NoResponse == [to |-> None, ok |-> FALSE]
Idle == [to |-> None, ok |-> TRUE]
Gone == [to |-> MaxRequests + 1, ok |-> FALSE]

Init ==
    /\ pc = [t \in AllThreads |-> "idle"]
    /\ entering = [t \in AllThreads |-> "first"]
    /\ request = [t \in AllThreads |-> None]
    /\ using = [t \in AllThreads |-> None]
    /\ lock = [c \in Clients |-> "first"]
    /\ holder = [c \in Clients |-> [l \in Locks |-> Free]]
    /\ conn = [c \in Clients |-> None]
    /\ closed = [c \in Clients |-> FALSE]
    /\ foreign = [c \in Clients |-> FALSE]
    /\ forked = FALSE
    /\ stopping = FALSE
    /\ link = [k \in Links |-> [state |-> "unused", by |-> "nobody", fds |-> {},
                           torn |-> FALSE]]
    /\ up = [k \in Links |-> << >>]
    /\ down = [k \in Links |-> << >>]
    /\ worker = [k \in Links |-> Gone]
    /\ next = 0
    /\ executed = [q \in Requests |-> 0]
    /\ answer = [q \in Requests |-> NoResponse]

----------------------------------------------------------------------------
\* SocketControlConnection.close: shutdown, which every process that shares
\* the socket sees, then close.  A mutant only closes the descriptor.
Shut(l, who) ==
    IF l.state = "open" THEN [l EXCEPT !.state = "shut", !.by = who] ELSE l
CloseOnly(l, who) ==
    IF l.fds \subseteq {who} THEN [Shut(l, who) EXCEPT !.fds = {}]
    ELSE [l EXCEPT !.fds = @ \ {who}]
Closed(l, who) == [Shut(l, who) EXCEPT !.fds = @ \ {who}]

\* _drop_connection
DropConnection(c) ==
    /\ conn' = [conn EXCEPT ![c] = None]
    /\ link' = IF conn[c] = None THEN link
               ELSE [link EXCEPT ![conn[c]] = Closed(@, c)]

\* The end of the with block.
Release(t) ==
    /\ holder' = [holder EXCEPT ![ClientOf(t)][entering[t]] = Free]
    /\ using' = [using EXCEPT ![t] = None]
    /\ request' = [request EXCEPT ![t] = None]

\* Where a failed request goes: out, with a ProtocolError.  A mutant retries.
Retry == "locked"
AfterFailure == "idle"

\* `except (EOFError, OSError, ConnectionError, ProtocolError)'
Fails(t) ==
    /\ DropConnection(ClientOf(t))
    /\ pc' = [pc EXCEPT ![t] = AfterFailure]
    /\ IF AfterFailure = "idle"
       THEN Release(t)
       ELSE UNCHANGED <<holder, using, request>>
    /\ UNCHANGED <<entering, lock, closed, foreign, forked>>

Alive(t) == ClientOf(t) = "parent" \/ forked

\* A thread calls a method of the client and reads self._request_lock.
Call(t) ==
    /\ Alive(t) /\ pc[t] = "idle" /\ next < MaxRequests
    /\ next' = next + 1
    /\ request' = [request EXCEPT ![t] = next + 1]
    /\ entering' = [entering EXCEPT ![t] = lock[ClientOf(t)]]
    /\ pc' = [pc EXCEPT ![t] = "entering"]
    /\ UNCHANGED <<using, clientVars, serverVars, link, up, down, executed, answer>>

Always(c, l) == TRUE
Available(c, l) == holder[c][l] = Free

Lock(t) ==
    /\ pc[t] = "entering" /\ Available(ClientOf(t), entering[t])
    /\ holder' = [holder EXCEPT ![ClientOf(t)][entering[t]] = t]
    /\ pc' = [pc EXCEPT ![t] = "locked"]
    /\ UNCHANGED <<entering, request, using, lock, conn, closed, foreign, forked,
                   serverVars, link, up, down, history>>

\* _after_fork_if_needed in the child: the inherited connection is closed
\* and the lock replaced, the old one being held by this thread.  One step: a
\* second thread of the child that enters before _pid is set repeats it, on
\* connections of the child alone.
AfterFork(t) ==
    LET c == ClientOf(t)
    IN  /\ pc[t] = "locked" /\ foreign[c]
        /\ foreign' = [foreign EXCEPT ![c] = FALSE]
        /\ closed' = [closed EXCEPT ![c] = FALSE]
        /\ lock' = [lock EXCEPT ![c] = "second"]
        /\ DropConnection(c)
        /\ UNCHANGED <<threadVars, holder, forked, serverVars, up, down, history>>

\* _ensure_connection: the one it has, or connect_control.
Ensure(t) ==
    /\ pc[t] = "locked" /\ ~foreign[ClientOf(t)] /\ ~closed[ClientOf(t)]
    /\ conn[ClientOf(t)] # None
    /\ using' = [using EXCEPT ![t] = conn[ClientOf(t)]]
    /\ pc' = [pc EXCEPT ![t] = "connected"]
    /\ UNCHANGED <<entering, request, clientVars, serverVars, link, up, down, history>>

Connect(t) ==
    LET c == ClientOf(t)
    IN  /\ pc[t] = "locked" /\ ~foreign[c] /\ ~closed[c]
        /\ conn[c] = None /\ ~stopping
        /\ \E k \in Links :
              /\ link[k].state = "unused" /\ \A j \in 1 .. k - 1 : link[j].state # "unused"
              /\ link' = [link EXCEPT ![k].state = "open", ![k].fds = {c}]
              /\ worker' = [worker EXCEPT ![k] = Idle]
              /\ conn' = [conn EXCEPT ![c] = k]
              /\ using' = [using EXCEPT ![t] = k]
        /\ pc' = [pc EXCEPT ![t] = "connected"]
        /\ UNCHANGED <<entering, request, lock, holder, closed, foreign, forked, stopping,
                       up, down, history>>

\* `client is closed', or nobody listens (a stopped daemon, or the bound
\* MaxLinks); neither is within the try.
Refused(t) ==
    LET c == ClientOf(t)
    IN  /\ pc[t] = "locked" /\ ~foreign[c]
        /\ closed[c] \/ (conn[c] = None
                         /\ (stopping \/ \A k \in Links : link[k].state # "unused"))
        /\ Release(t)
        /\ pc' = [pc EXCEPT ![t] = "idle"]
        /\ UNCHANGED <<entering, lock, conn, closed, foreign, forked, serverVars, link, up,
                       down, history>>

Send(t) ==
    /\ pc[t] = "connected" /\ link[using[t]].state = "open"
    /\ up' = [up EXCEPT ![using[t]] = Append(@, request[t])]
    /\ pc' = [pc EXCEPT ![t] = "sent"]
    /\ UNCHANGED <<entering, request, using, clientVars, serverVars, link, down, history>>

\* The peer has gone, or the frame exceeds MAX_FRAME.
SendFails(t) ==
    /\ pc[t] = "connected"
    /\ Fails(t)
    /\ UNCHANGED <<serverVars, up, down, history>>

\* json.dumps refuses the arguments: the connection is as before.
Unserializable(t) ==
    /\ pc[t] = "connected"
    /\ Release(t)
    /\ pc' = [pc EXCEPT ![t] = "idle"]
    /\ UNCHANGED <<entering, lock, conn, closed, foreign, forked, serverVars, link, up,
                   down, history>>

\* recv_frame_with_optional_fd reads the first frame there is.
Receive(t) ==
    /\ pc[t] = "sent" /\ down[using[t]] # << >>
    /\ answer' = [answer EXCEPT ![request[t]] = Head(down[using[t]])]
    /\ down' = [down EXCEPT ![using[t]] = Tail(@)]
    /\ Release(t)
    /\ pc' = [pc EXCEPT ![t] = "idle"]
    /\ UNCHANGED <<entering, lock, conn, closed, foreign, forked, serverVars, link, up,
                   next, executed>>

\* One recvmsg returned the bytes of two frames.
BytesBeyond(t) ==
    /\ pc[t] = "sent" /\ Len(down[using[t]]) > 1
    /\ Fails(t)
    /\ UNCHANGED <<serverVars, up, down, history>>

\* End of file, or the timeout of the socket.  A mutant keeps the connection.
KeepsConnection(t) ==
    /\ Release(t)
    /\ pc' = [pc EXCEPT ![t] = "idle"]
    /\ UNCHANGED <<entering, lock, conn, closed, foreign, forked, link>>
GivesUp(t) == Fails(t)

Unbounded(t) == FALSE
TimedOut(t) == TRUE

ReceiveFails(t) ==
    /\ pc[t] = "sent" /\ down[using[t]] = << >>
    /\ link[using[t]].state = "shut" \/ TimedOut(t)
    /\ GivesUp(t)
    /\ UNCHANGED <<serverVars, up, down, history>>

\* KeyboardInterrupt, or what another signal handler raises, is none of the
\* exceptions caught.
Interrupt(t) ==
    /\ pc[t] = "sent"
    /\ Release(t)
    /\ pc' = [pc EXCEPT ![t] = "idle"]
    /\ link' = [link EXCEPT ![using[t]].torn = TRUE]
    /\ UNCHANGED <<entering, lock, conn, closed, foreign, forked, serverVars, up, down,
                   history>>

\* Client.close, also in a child that never made a request.
Close(t) ==
    LET c == ClientOf(t)
    IN  /\ Alive(t) /\ pc[t] = "idle" /\ ~closed[c] /\ holder[c][lock[c]] = Free
        /\ DropConnection(c)
        /\ closed' = [closed EXCEPT ![c] = TRUE]
        /\ UNCHANGED <<threadVars, lock, holder, foreign, forked, serverVars, up, down,
                       history>>

\* os.fork, in a thread outside the client, while another may hold the lock.
Fork ==
    /\ ~forked /\ ChildThreads # {}
    /\ \E t \in Threads : pc[t] = "idle"
    /\ forked' = TRUE
    /\ foreign' = [foreign EXCEPT !["child"] = TRUE]
    /\ closed' = [closed EXCEPT !["child"] = closed["parent"]]
    /\ conn' = [conn EXCEPT !["child"] = conn["parent"]]
    /\ holder' = [holder EXCEPT !["child"]["first"] =
                      IF holder["parent"]["first"] = Free THEN Free ELSE Ghost]
    /\ link' = [k \in Links |-> IF "parent" \in link[k].fds
                                THEN [link[k] EXCEPT !.fds = @ \cup {"child"}]
                                ELSE link[k]]
    /\ UNCHANGED <<threadVars, lock, serverVars, up, down, history>>

----------------------------------------------------------------------------
\* The worker of a connection reads a request and carries it out, refuses it,
\* or carries it out and cannot encode the result.
Handle(k) ==
    /\ worker[k] = Idle /\ up[k] # << >>
    /\ \E done, ok \in BOOLEAN :
          /\ ok => done
          /\ worker' = [worker EXCEPT ![k] = [to |-> Head(up[k]), ok |-> ok]]
          /\ executed' = [executed EXCEPT ![Head(up[k])] = IF done THEN @ + 1 ELSE @]
    /\ up' = [up EXCEPT ![k] = Tail(@)]
    /\ UNCHANGED <<threadVars, clientVars, stopping, link, down, next, answer>>

Busy(k) == worker[k] \in Responses

Respond(k) ==
    /\ Busy(k) /\ link[k].state = "open"
    /\ down' = [down EXCEPT ![k] = Append(@, worker[k])]
    /\ worker' = [worker EXCEPT ![k] = Idle]
    /\ UNCHANGED <<threadVars, clientVars, stopping, link, up, history>>

\* The worker's `finally': it closes its end of the connection.
Finish(k) ==
    /\ worker' = [worker EXCEPT ![k] = Gone]
    /\ link' = [link EXCEPT ![k] = Shut(@, "server")]
    /\ UNCHANGED <<threadVars, clientVars, stopping, up, down, history>>

\* End of file, or a failed send.
WorkerEnds(k) ==
    /\ link[k].state = "shut"
    /\ Busy(k) \/ (worker[k] = Idle /\ up[k] = << >>)
    /\ Finish(k)

\* Between two requests the worker may see _stop.
StopSeen(k) ==
    /\ worker[k] = Idle /\ stopping
    /\ Finish(k)

\* MStoreServer.shutdown, and the connections it closes.
Stop ==
    /\ ~stopping
    /\ stopping' = TRUE
    /\ UNCHANGED <<threadVars, clientVars, link, up, down, worker, history>>

CloseConnection(k) ==
    /\ stopping /\ link[k].state = "open"
    /\ link' = [link EXCEPT ![k] = Shut(@, "server")]
    /\ UNCHANGED <<threadVars, clientVars, serverVars, up, down, history>>

InRequest(t) ==
    Lock(t) \/ AfterFork(t) \/ Ensure(t) \/ Connect(t) \/ Refused(t)
    \/ Send(t) \/ SendFails(t) \/ Receive(t) \/ BytesBeyond(t) \/ ReceiveFails(t)

Worker(k) == Handle(k) \/ Respond(k) \/ WorkerEnds(k) \/ StopSeen(k)

Next ==
    \/ \E t \in AllThreads :
          Call(t) \/ InRequest(t) \/ Unserializable(t) \/ Interrupt(t) \/ Close(t)
    \/ \E k \in Links : Worker(k) \/ CloseConnection(k)
    \/ Fork \/ Stop

Spec == Init /\ [][Next]_vars

\* Threads run, a read of the client returns or times out (settimeout bounds
\* it), and the daemon's threads read what was sent; nothing says that they
\* ever answer.
Fairness ==
    /\ \A t \in AllThreads : WF_vars(InRequest(t))
    /\ \A k \in Links : WF_vars(Handle(k)) /\ WF_vars(WorkerEnds(k))

FairSpec == Spec /\ Fairness

----------------------------------------------------------------------------
\* The type invariant, with who holds a lock.
TypeOK ==
    /\ pc \in [AllThreads -> {"idle", "entering", "locked", "connected", "sent"}]
    /\ entering \in [AllThreads -> Locks]
    /\ request \in [AllThreads -> Requests \cup {None}]
    /\ using \in [AllThreads -> Links \cup {None}]
    /\ \A t \in AllThreads :
          holder[ClientOf(t)][entering[t]] = t <=> pc[t] \in {"locked", "connected", "sent"}
    /\ lock \in [Clients -> Locks]
    /\ holder \in [Clients -> [Locks -> AllThreads \cup {Free, Ghost}]]
    /\ conn \in [Clients -> Links \cup {None}]
    /\ closed \in [Clients -> BOOLEAN] /\ foreign \in [Clients -> BOOLEAN]
    /\ forked \in BOOLEAN /\ stopping \in BOOLEAN
    /\ link \in [Links -> [state : {"unused", "open", "shut"},
                           by : Clients \cup {"nobody", "server"}, fds : SUBSET Clients,
                           torn : BOOLEAN]]
    /\ up \in [Links -> Seq(Requests)] /\ down \in [Links -> Seq(Responses)]
    /\ worker \in [Links -> Responses \cup {Idle, Gone}]
    /\ next \in 0 .. MaxRequests
    /\ executed \in [Requests -> Nat]
    /\ answer \in [Requests -> Responses \cup {NoResponse}]

\* The response a thread is about to read is the one to its own request,
\* although responses carry no number and reads time out, connections are
\* closed under a request, daemons stop and processes fork.  Excepted is a
\* connection on which a signal handler ended a read.
OwnAnswer ==
    \A t \in AllThreads :
        pc[t] = "sent" /\ down[using[t]] # << >> /\ ~link[using[t]].torn =>
            Head(down[using[t]]).to = request[t]

\* "A single persistent connection is a strict request/response stream"
\* (client.py:243): a request returns its own response or none.
StrictStream == \A q \in Requests : answer[q].to \in {q, None}

\* A request is carried out once at most, also when its caller was told that
\* it failed; its success was carried out.
ExecutedOnce ==
    \A q \in Requests :
        executed[q] <= 1 /\ (answer[q] = [to |-> q, ok |-> TRUE] => executed[q] = 1)

\* "Serialize access so one Client can safely be shared by multiple
\* application threads" (client.py:243): while a thread of the process that
\* made the client is between its send and its recv, no other thread uses that
\* connection.  "Never share a request/response stream across fork boundaries"
\* (client.py:212): nor does a thread of a child ever use the connection of
\* its parent.  Threads of one child are not kept apart: the lock is replaced
\* while the first of them holds it (client.py:220).
StreamsApart ==
    /\ TypeOK
    /\ \A t \in Threads, u \in AllThreads :
          t # u /\ using[t] # None => using[u] # using[t]
    /\ \A u \in ChildThreads : using[u] # None => using[u] # conn["parent"]

\* "Closing the child's inherited descriptor does not affect the parent's
\* descriptor" (client.py:212): a child that has not called close has not shut
\* the connection of its parent down.
ParentUndisturbed ==
    ~closed["child"] /\ conn["parent"] # None => link[conn["parent"]].by # "child"

\* A call of the client returns, whatever becomes of the daemon, unless the
\* lock was copied by a fork while another thread held it.
CallReturns ==
    \A t \in AllThreads :
        (pc[t] # "idle" /\ holder[ClientOf(t)][entering[t]] # Ghost) ~> pc[t] = "idle"

\* The daemon's worker for a connection its client dropped ends, also when a
\* forked child still has the socket (transport.py:37-45 shuts it down).
WorkersEnd ==
    \A k \in Links :
        link[k].state # "unused" /\ (\A c \in Clients : conn[c] = k => foreign[c])
            ~> worker[k] = Gone
=============================================================================
