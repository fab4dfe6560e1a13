------------------------------ MODULE Registry ------------------------------
(***************************************************************************)
(* The mstore daemon: objects, tokens and shared-memory regions            *)
(* (mstore/registry.py and backend.py), used by the worker threads of      *)
(* server.py, one per connection.  A method that holds the registry lock   *)
(* is one step.  The work on a region's descriptor happens outside the     *)
(* lock, one system call at a time, while other workers open and close     *)
(* descriptors; the kernel always hands out the lowest free number.        *)
(***************************************************************************)
EXTENDS Integers, FiniteSets

CONSTANTS
    Workers,
    Objects, Tokens,   \* the object ids and tokens that may be drawn
    MaxFd,             \* descriptors the process may have for memory
    MaxTime,           \* horizon of the clock
    Requests           \* permission sets clients ask for

Fds == 1 .. MaxFd
Time == 0 .. MaxTime
Never == MaxTime + 1   \* expires_at = None
NaN == -1              \* expires_in was NaN, which JSON carries and "<= 0" passes
Permissions == {"read", "write", "grant", "delete", "info"}

ASSUME RegistryAssumption ==
    /\ Objects # {} /\ "free" \notin Objects
    /\ MaxFd \in Nat /\ MaxTime \in Nat
    /\ Requests \subseteq SUBSET Permissions

VARIABLES
    objects,           \* Registry._objects
    region,            \* per object: fd of its LinuxMemfdRegion, or -1
    status,            \* per token: free, listed in _tokens, or dropped
    token,             \* per token: its TokenRecord
    ancestors,         \* per token: those it was delegated from (history)
    known,             \* tokens some client was told
    now,               \* time.time()
    table,             \* the process's descriptor table: fd to its memory
    pc, call,          \* per worker: step and locals of the request it handles
    stopped,           \* Registry.close has run its locked part
    todo, shutting     \* objects it has still to close; the one it is closing

tokenVars == <<status, token, ancestors, known>>
serverVars == <<stopped, todo, shutting>>
vars == <<objects, region, tokenVars, now, table, pc, call, serverVars>>

NoFd == -1
Free == "free"         \* an unused descriptor
SomeObject == CHOOSE o \in Objects : TRUE
NoCall == [object |-> SomeObject, create |-> FALSE, fd |-> NoFd]
NoToken == [object |-> SomeObject, permissions |-> {}, expires |-> 0,
            revoked |-> FALSE]

Init ==
    /\ objects = {}
    /\ region = [o \in Objects |-> NoFd]
    /\ status = [k \in Tokens |-> "free"]
    /\ token = [k \in Tokens |-> NoToken]
    /\ ancestors = [k \in Tokens |-> {}]
    /\ known = {}
    /\ now \in Time
    /\ table = [n \in Fds |-> Free]
    /\ pc = [w \in Workers |-> "idle"]
    /\ call = [w \in Workers |-> NoCall]
    /\ stopped = FALSE /\ todo = {} /\ shutting = {}

Go(w, from, to) == pc[w] = from /\ pc' = [pc EXCEPT ![w] = to]
Return(w, from) == Go(w, from, "idle") /\ call' = [call EXCEPT ![w] = NoCall]

\* normalize_permissions
Normalized(p) ==
    LET q == IF "write" \in p THEN p \cup {"read"} ELSE p
    IN  IF q # {} THEN q \cup {"info"} ELSE q

\* Comparisons of floats: none holds of a NaN.
Before(s, t) == s # NaN /\ t # NaN /\ s < t
Expired(k) == token[k].expires # NaN /\ now >= token[k].expires

\* validate
Valid(k, required) ==
    /\ k \in known /\ status[k] = "listed"
    /\ token[k].object \in objects
    /\ ~token[k].revoked
    /\ ~Expired(k)
    /\ required \in token[k].permissions

\* _issue_locked with a fresh token.
FreshToken == CHOOSE k \in Tokens : status[k] = "free"
Issue(o, permissions, expires, from) ==
    /\ \E k \in Tokens : status[k] = "free"
    /\ status' = [status EXCEPT ![FreshToken] = "listed"]
    /\ token' = [token EXCEPT ![FreshToken] =
                    [object |-> o, permissions |-> permissions,
                     expires |-> expires, revoked |-> FALSE]]
    /\ ancestors' = [ancestors EXCEPT ![FreshToken] = from]

\* Bound: a create that has begun will find a token to draw.
TokenLeft ==
    Cardinality({k \in Tokens : status[k] = "free"}) >
        Cardinality({w \in Workers : pc[w] = "register"})

\* The tokens of the objects in O leave _tokens; the mutant forgets them.
DropNothing(O) == status' = status
Drop(O) ==
    status' = [k \in Tokens |->
                  IF status[k] = "listed" /\ token[k].object \in O
                  THEN "dropped" ELSE status[k]]

\* The number the next system call that opens a descriptor returns.
FreeFds == {n \in Fds : table[n] = Free}
LowestFree == CHOOSE n \in FreeFds : \A m \in FreeFds : n <= m

\* os.close
Released(n) == IF n \in Fds THEN [table EXCEPT ![n] = Free] ELSE table
-----------------------------------------------------------------------------
\* The worker reads a request; _cleanup closes the connections before it
\* closes the registry.
Receive(w) ==
    /\ ~stopped
    /\ Go(w, "idle", "ready")
    /\ UNCHANGED <<objects, region, tokenVars, now, table, call, serverVars>>

\* info, ping, and every request that raises before it changes anything.
Answer(w) ==
    /\ Return(w, "ready")
    /\ UNCHANGED <<objects, region, tokenVars, now, table, serverVars>>

\* create_object, before the lock: uuid4 and memfd_create.
CreateRegion(w, o) ==
    /\ Go(w, "ready", "register")
    /\ TokenLeft
    /\ \A k \in Tokens : status[k] # "free" => token[k].object # o
    /\ \A u \in Workers : pc[u] = "register" => call[u].object # o
    /\ FreeFds # {}
    /\ table' = [table EXCEPT ![LowestFree] = o]
    /\ region' = [region EXCEPT ![o] = LowestFree]
    /\ call' = [call EXCEPT ![w] = [object |-> o, create |-> TRUE, fd |-> NoFd]]
    /\ UNCHANGED <<objects, tokenVars, now, serverVars>>

\* create_object, under the lock: the object and its first token.
Register(w) ==
    /\ Go(w, "register", "map")
    /\ objects' = objects \cup {call[w].object}
    /\ Issue(call[w].object, Permissions, Never, {})
    /\ UNCHANGED <<region, known, now, table, call, serverVars>>

\* open: validate for the mode, then leave the lock.
Open(w, k) ==
    /\ \E mode \in {"read", "write"} : Valid(k, mode)
    /\ Go(w, "ready", "map")
    /\ call' = [call EXCEPT ![w].object = token[k].object]
    /\ UNCHANGED <<objects, region, tokenVars, now, table, serverVars>>

\* client_mapping reads self.fd, then enters os.dup, or os.open of its path.
ReadFd(w) ==
    /\ Go(w, "map", "dup")
    /\ call' = [call EXCEPT ![w].fd = region[call[w].object]]
    /\ UNCHANGED <<objects, region, tokenVars, now, table, serverVars>>

\* A mutant of Dup: the region's own descriptor is sent.
SendOwnFd(w) ==
    /\ Go(w, "dup", "send")
    /\ call[w].fd \in Fds \ FreeFds
    /\ UNCHANGED <<objects, region, tokenVars, now, table, call, serverVars>>

Dup(w) ==
    /\ Go(w, "dup", "send")
    /\ call[w].fd \in Fds \ FreeFds
    /\ FreeFds # {}
    /\ table' = [table EXCEPT ![LowestFree] = table[call[w].fd]]
    /\ call' = [call EXCEPT ![w].fd = LowestFree]
    /\ UNCHANGED <<objects, region, tokenVars, now, serverVars>>

\* The descriptor is closed by now, or the table is full.
DupFails(w) ==
    /\ Return(w, "dup")
    /\ call[w].fd \notin Fds \ FreeFds \/ FreeFds = {}
    /\ UNCHANGED <<objects, region, tokenVars, now, table, serverVars>>

\* The descriptors after an answer is sent; the mutant keeps its copy.
KeepCopy(w) == table
AfterSend(w) == Released(call[w].fd)

\* The answer carries the descriptor and, for create, the token; then the
\* worker closes its copy.  The client may be gone: nobody learns the token.
Send(w) ==
    /\ Return(w, "send")
    /\ table' = AfterSend(w)
    /\ \/ known' = known
       \/ /\ call[w].create
          /\ known' = known \cup {k \in Tokens : status[k] = "listed"
                                      /\ token[k].object = call[w].object}
    /\ UNCHANGED <<objects, region, status, token, ancestors, now, serverVars>>
-----------------------------------------------------------------------------
\* min(expires_at, issuer.expires_at), which keeps a NaN on the left and
\* passes over one on the right; the issuer's for None.  The mutant takes the
\* requested deadline as it is.
RequestedDeadline(deadline, issuer) == deadline
Deadline(deadline, issuer) ==
    IF deadline = Never \/ Before(issuer.expires, deadline)
    THEN issuer.expires ELSE deadline

\* The permissions of the new token.
Granted(requested) == Normalized(requested)

\* issue_token: "cannot delegate permissions it doesn't itself possess".  The
\* deadline is now + expires_in, rounded, or Never for None and Infinity.
Grant(w, k, requested, deadline) ==
    /\ pc[w] = "ready"
    /\ Valid(k, "grant")
    /\ Return(w, "ready")
    /\ Normalized(requested) \subseteq token[k].permissions
    /\ deadline = NaN \/ deadline >= now
    /\ TokenLeft
    /\ Issue(token[k].object, Granted(requested),
             Deadline(deadline, token[k]), ancestors[k] \cup {k})
    /\ known' = known \cup {FreshToken}
    /\ UNCHANGED <<objects, region, now, table, serverVars>>

\* revoke_token
Revoke(w, k, target) ==
    /\ Valid(k, "grant")
    /\ Return(w, "ready")
    /\ status[target] = "listed" /\ target \in known
    /\ token[target].object = token[k].object
    /\ ~(token[target].permissions = Permissions /\ target = k)
    /\ token' = [token EXCEPT ![target].revoked = TRUE]
    /\ UNCHANGED <<objects, region, status, ancestors, known, now, table,
                   serverVars>>

\* delete_object under the lock; the mutant leaves the record.
KeepRecord(o) == objects
Unregistered(o) == objects \ {o}

Delete(w, k) ==
    /\ Valid(k, "delete")
    /\ Go(w, "ready", "close")
    /\ objects' = Unregistered(token[k].object)
    /\ Drop({token[k].object})
    /\ call' = [call EXCEPT ![w].object = token[k].object]
    /\ UNCHANGED <<region, token, ancestors, known, now, table, serverVars>>

\* region.close, outside the lock: os.close, then self.fd = -1.
CloseFd(w) ==
    /\ Go(w, "close", "clear")
    /\ table' = Released(region[call[w].object])
    /\ UNCHANGED <<objects, region, tokenVars, now, call, serverVars>>

ClearFd(w) ==
    /\ Return(w, "clear")
    /\ region' = [region EXCEPT ![call[w].object] = NoFd]
    /\ UNCHANGED <<objects, tokenVars, now, table, serverVars>>

\* Registry.close, on the server's thread: take everything under the lock,
\* then close the regions one by one.  The mutant lists the objects too late.
TakenAfterClear == {}
Taken == objects

Shutdown ==
    /\ ~stopped
    /\ stopped' = TRUE
    /\ todo' = Taken
    /\ objects' = {}
    /\ Drop(Objects)
    /\ UNCHANGED <<region, token, ancestors, known, now, table, pc, call, shutting>>

ShutRegion(o) ==
    /\ o \in todo /\ shutting = {}
    /\ table' = Released(region[o])
    /\ todo' = todo \ {o} /\ shutting' = {o}
    /\ UNCHANGED <<objects, region, tokenVars, now, pc, call, stopped>>

ForgetRegion(o) ==
    /\ o \in shutting
    /\ region' = [region EXCEPT ![o] = NoFd]
    /\ shutting' = {}
    /\ UNCHANGED <<objects, tokenVars, now, table, pc, call, stopped, todo>>

\* The wall clock moves, and may be set back.
Clock ==
    /\ now' \in Time \ {now}
    /\ UNCHANGED <<objects, region, tokenVars, table, pc, call, serverVars>>

\* What a worker does with a request it has.
Handle(w) ==
    \/ Answer(w)
    \/ (\E o \in Objects : CreateRegion(w, o)) \/ Register(w)
    \/ (\E k \in Tokens : Open(w, k)) \/ ReadFd(w) \/ Dup(w) \/ DupFails(w) \/ Send(w)
    \/ \E k \in Tokens, p \in Requests, d \in Time \cup {Never, NaN} :
          Grant(w, k, p, d)
    \/ \E k, target \in Tokens : Revoke(w, k, target)
    \/ (\E k \in Tokens : Delete(w, k)) \/ CloseFd(w) \/ ClearFd(w)

Closer == \E o \in Objects : ShutRegion(o) \/ ForgetRegion(o)

Next ==
    \/ \E w \in Workers : Receive(w) \/ Handle(w)
    \/ Shutdown \/ Closer
    \/ Clock

Spec == Init /\ [][Next]_vars

\* The daemon's threads go on with what cannot block.  Clients need not send
\* or read anything, and the clock need not move.
Finish(w) == Register(w) \/ CloseFd(w) \/ ClearFd(w)
FairSpec == Spec /\ WF_vars(Closer) /\ \A w \in Workers : WF_vars(Finish(w))
-----------------------------------------------------------------------------
TokenRecords ==
    [object : Objects, permissions : SUBSET Permissions,
     expires : Time \cup {Never, NaN}, revoked : BOOLEAN]

\* Type invariant; permission sets stay closed under normalize_permissions.
TypeOK ==
    /\ objects \subseteq Objects
    /\ region \in [Objects -> Fds \cup {NoFd}]
    /\ status \in [Tokens -> {"free", "listed", "dropped"}]
    /\ token \in [Tokens -> TokenRecords]
    /\ \A k \in Tokens : token[k].permissions = Normalized(token[k].permissions)
    /\ ancestors \in [Tokens -> SUBSET Tokens]
    /\ known \subseteq Tokens
    /\ now \in Time
    /\ table \in [Fds -> Objects \cup {Free}]
    /\ pc \in [Workers -> {"idle", "ready", "register", "map", "dup", "send",
                           "close", "clear"}]
    /\ call \in [Workers -> [object : Objects, create : BOOLEAN, fd : Fds \cup {NoFd}]]
    /\ stopped \in BOOLEAN /\ todo \subseteq Objects /\ shutting \subseteq Objects

\* Token k, or one between a and k, was granted with a NaN.
Endless(k, a) ==
    \E b \in {k} \cup ancestors[k] : a \in ancestors[b] /\ token[b].expires = NaN

\* Along a chain of grants of any length permissions only shrink, and at any
\* time of the clock, even one set back, a token is expired when one it comes
\* from is (issue_token, registry.py:143-158); expires_in = NaN anywhere
\* between the two lifts the deadline.  Revoking a token does not reach those
\* it issued (registry.py:160-168), so nothing is said of it.
DelegationBounded ==
    \A k \in Tokens : \A a \in ancestors[k] :
        /\ token[k].permissions \subseteq token[a].permissions
        /\ Expired(a) => Expired(k) \/ Endless(k, a)

\* _tokens has no token of an object that is gone (delete_object and close
\* against issue_token in other workers, registry.py:136-190).
TokensHaveObjects ==
    \A k \in Tokens : status[k] = "listed" => token[k].object \in objects

\* Objects whose region is being closed by somebody.
Leaving ==
    todo \cup shutting
    \cup {call[w].object : w \in {u \in Workers : pc[u] \in {"close", "clear"}}}

\* The descriptor of a registered object is its own memory: nobody closes it
\* under another object's number, although deletes run outside the lock and
\* numbers are reused (registry.py:178-190, backend.py:48-51).
OwnDescriptor ==
    \A o \in objects : region[o] \in Fds /\ table[region[o]] = o

\* Every open descriptor belongs to an object that is registered, on its way
\* in or out, or to an answer being sent (server.py:246-260).  (With the type
\* invariant.)
NoDescriptorLeak ==
    /\ TypeOK
    /\ \A n \in Fds : table[n] # Free =>
          \/ \E o \in objects \cup Leaving : region[o] = n
          \/ \E w \in Workers : pc[w] = "register" /\ region[call[w].object] = n
          \/ \E w \in Workers : pc[w] = "send" /\ call[w].fd = n

\* The memory an answer carries is the object's, unless the object was deleted
\* after the token was checked: its descriptor's number may then belong to
\* another object (server.py:301-303 against registry.py:178-179).
AnswersOwnMemory ==
    \A w \in Workers :
        pc[w] = "send" /\ call[w].object \in objects =>
            table[call[w].fd] = call[w].object

\* The memory of an object that leaves the registry is released, also when
\* the daemon stops in the middle (registry.py:170-190).
MemoryReleased ==
    \A o \in Objects :
        (region[o] # NoFd /\ o \notin objects) ~> (region[o] = NoFd \/ o \in objects)
=============================================================================
