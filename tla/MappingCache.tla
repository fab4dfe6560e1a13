---------------------------- MODULE MappingCache ---------------------------
(***************************************************************************)
(* The mapping cache of an mstore Client and the SharedObjects it hands    *)
(* out (examples/zeromq_mutable_shm_chain/mstore/client.py), used by       *)
(* several threads of one process.  A step is what a thread does inside    *)
(* one lock: the cache lock, a mapping's lock, or the request lock (with   *)
(* the daemon's answer).  Between two steps any other thread may run.      *)
(*                                                                         *)
(* Inside the cache lock the code takes the locks of single mappings; the  *)
(* steps of other threads that fit in between touch leases only, and       *)
(* set_cached and release commute: whichever comes last closes.            *)
(***************************************************************************)
EXTENDS Naturals, FiniteSets, Sequences, SequencesExt

CONSTANTS
    Threads,
    Objects,      \* shared-memory objects of the daemon
    Modes,        \* part of the cache key, like the token
    Mappings,     \* the _MappingState instances the process may create
    Handles,      \* the SharedObject instances it may create
    Capacity,     \* cache_size
    Views         \* whether threads export NumPy views

Keys == Objects \X Modes

ASSUME MappingCacheAssumption ==
    /\ Keys # {} /\ Mappings # {} /\ Handles # {}
    /\ IsFiniteSet(Handles)
    /\ Capacity \in Nat
    /\ Views \in BOOLEAN

VARIABLES
    pc, arg,                  \* per thread: step and locals of the call it is in
    phase, leases, cached,    \* per mapping: mmap, _leases, _cached
    keyOf,                    \* per mapping: the key it was opened for
    viewed,                   \* mappings with an exported view
    pinned,                   \* mappings close() failed on (history)
    cache,                    \* Client._cache, least recently used first
    handle, of,               \* per SharedObject: _released, _state
    live,                     \* objects the daemon still has
    shut                      \* Client._closed

threadVars == <<pc, arg>>
mapVars == <<phase, leases, cached, keyOf, viewed, pinned>>
handleVars == <<handle, of>>
vars == <<threadVars, mapVars, cache, handleVars, live, shut>>

\* Any value: what a variable is before its first use.
SomeKey == CHOOSE k \in Keys : TRUE
SomeMapping == CHOOSE s \in Mappings : TRUE
SomeHandle == CHOOSE h \in Handles : TRUE

\* The locals of a thread that is in no call.
NoCall == [key |-> SomeKey, caching |-> FALSE, found |-> SomeMapping,
           closing |-> SomeHandle]

Init ==
    /\ pc = [t \in Threads |-> "idle"]
    /\ arg = [t \in Threads |-> NoCall]
    /\ phase = [s \in Mappings |-> "unused"]
    /\ leases = [s \in Mappings |-> 0]
    /\ cached = [s \in Mappings |-> FALSE]
    /\ keyOf = [s \in Mappings |-> SomeKey]
    /\ viewed = {} /\ pinned = {}
    /\ cache = << >>
    /\ handle = [h \in Handles |-> "unused"]
    /\ of = [h \in Handles |-> SomeMapping]
    /\ live = Objects
    /\ shut = FALSE

Go(t, from, to) == pc[t] = from /\ pc' = [pc EXCEPT ![t] = to]
Return(t, from) == Go(t, from, "idle") /\ arg' = [arg EXCEPT ![t] = NoCall]

\* Mutants of Idle: a mapping is closed under its leases or under its cache
\* entry.
IdleIfUncached(S, ls, ca) == {s \in S : phase[s] = "open" /\ ~ca[s]}
IdleIfUnleased(S, ls, ca) == {s \in S : phase[s] = "open" /\ ls[s] = 0}

\* _maybe_close_locked for the mappings of S, with the given leases and
\* flags: mmap.close() raises BufferError while a view is exported.
Idle(S, ls, ca) == {s \in S : phase[s] = "open" /\ ls[s] = 0 /\ ~ca[s]}
MaybeClose(S, ls, ca) ==
    LET idle == Idle(S, ls, ca)
    IN  /\ phase' = [s \in Mappings |->
                        IF s \in idle \ viewed THEN "closed" ELSE phase[s]]
        /\ pinned' = pinned \cup (idle \cap viewed)

\* set_cached(False) on the mappings of S, set_cached(True) on those of T.
SetCached(S, T) ==
    /\ cached' = [s \in Mappings |-> IF s \in T THEN TRUE ELSE s \notin S /\ cached[s]]
    /\ MaybeClose(S \cup T, leases, cached')
    /\ UNCHANGED <<leases, viewed>>

\* The entries of q that are not in S, in their order.
Increasing(K) ==
    CHOOSE f \in [1 .. Cardinality(K) -> K] : \A m, n \in DOMAIN f : m < n => f[m] < f[n]
Without(q, S) ==
    LET kept == {i \in DOMAIN q : q[i] \notin S}
    IN  [n \in 1 .. Cardinality(kept) |-> q[Increasing(kept)[n]]]
Cached(k) == {s \in Mappings : s \in ToSet(cache) /\ keyOf[s] = k}
-----------------------------------------------------------------------------
\* Client.open(object_id, token, mode=..., cache=c).  Client.create goes the
\* way of an open without cache, for an object of its own.
Open(t, k, c) ==
    /\ Go(t, "idle", IF c THEN "get" ELSE "request")
    /\ arg' = [arg EXCEPT ![t].key = k, ![t].caching = c]
    /\ UNCHANGED <<mapVars, cache, handleVars, live, shut>>

\* _cache_get: a hit moves the entry to the end.  An entry whose mapping is
\* closed is dropped.
CacheHit(t) ==
    /\ Go(t, "get", "lease")
    /\ \E s \in Cached(arg[t].key) :
          /\ phase[s] = "open"
          /\ cache' = Append(Without(cache, {s}), s)
          /\ arg' = [arg EXCEPT ![t].found = s]
    /\ UNCHANGED <<mapVars, handleVars, live, shut>>

CacheMiss(t) ==
    /\ Go(t, "get", "request")
    /\ LET dead == Cached(arg[t].key)
       IN  /\ \A s \in dead : phase[s] # "open"
           /\ cache' = Without(cache, dead)
           /\ SetCached(dead, {})
    /\ UNCHANGED <<arg, keyOf, handleVars, live, shut>>

\* _request("open") answers with a new mapping for an object the daemon has.
Request(t) ==
    /\ ~shut /\ arg[t].key[1] \in live
    /\ Go(t, "request", IF arg[t].caching /\ Capacity # 0 THEN "put" ELSE "lease")
    /\ \E s \in Mappings : phase[s] = "unused"
    /\ LET s == CHOOSE new \in Mappings : phase[new] = "unused"
       IN /\ phase' = [phase EXCEPT ![s] = "open"]
          /\ keyOf' = [keyOf EXCEPT ![s] = arg[t].key]
          /\ arg' = [arg EXCEPT ![t].found = s]
    /\ UNCHANGED <<leases, cached, viewed, pinned, cache,
                   handleVars, live, shut>>

\* It raises on a closed client, for an object that is gone, and whenever the
\* connection fails.
RequestFails(t) ==
    /\ Return(t, "request")
    /\ UNCHANGED <<mapVars, cache, handleVars, live, shut>>

\* A mutant of Evicted: the loop stops one entry too late.
EvictedLate(entries) ==
    {entries[i] : i \in {n \in DOMAIN entries : n + Capacity < Len(entries)}}

\* _cache_put: replaces an entry of the same key, evicts the oldest ones.
Evicted(entries) ==
    {entries[i] : i \in {n \in DOMAIN entries : n + Capacity <= Len(entries)}}

\* The mappings that leave the cache; the mutant forgets the replaced one.
LeavingOnlyEvicted(old, evicted) == evicted
Leaving(old, evicted) == old \cup evicted

CachePut(t) ==
    /\ Go(t, "put", "lease")
    /\ LET s == arg[t].found
           old == Cached(arg[t].key)
           entries == Append(Without(cache, old), s)
           evicted == Evicted(entries)
       IN  /\ cache' = Without(entries, evicted)
           /\ SetCached(Leaving(old, evicted), {s})
    /\ UNCHANGED <<arg, keyOf, handleVars, live, shut>>

\* SharedObject.__init__ acquires a lease; the mapping may have been closed
\* since open found or created it.
Acquire(t) ==
    /\ phase[arg[t].found] = "open"
    /\ Return(t, "lease")
    /\ \E h \in Handles : handle[h] = "unused"
    /\ LET h == CHOOSE new \in Handles : handle[new] = "unused"
       IN /\ handle' = [handle EXCEPT ![h] = "live"]
          /\ of' = [of EXCEPT ![h] = arg[t].found]
    /\ leases' = [leases EXCEPT ![arg[t].found] = @ + 1]
    /\ UNCHANGED <<phase, cached, keyOf, viewed,
                   pinned, cache, live, shut>>

AcquireFails(t) ==
    /\ phase[arg[t].found] # "open"
    /\ Go(t, "lease", "raised")
    /\ UNCHANGED <<arg, mapVars, cache, handleVars, live, shut>>

\* The application handles the RuntimeError.
Recover(t) ==
    /\ Return(t, "raised")
    /\ UNCHANGED <<mapVars, cache, handleVars, live, shut>>
-----------------------------------------------------------------------------
\* SharedObject.numpy() exports the mapping's buffer until the array dies.
TakeView(h) ==
    /\ Views
    /\ handle[h] = "live" /\ phase[of[h]] = "open"
    /\ viewed' = viewed \cup {of[h]}
    /\ UNCHANGED <<threadVars, phase, leases, cached, keyOf, pinned, cache,
                   handleVars, live, shut>>

DropViews(s) ==
    /\ s \in viewed
    /\ viewed' = viewed \ {s}
    /\ UNCHANGED <<threadVars, phase, leases, cached, keyOf, pinned, cache,
                   handleVars, live, shut>>

\* SharedObject.close: look at _released, then set it and release the lease.
\* No two threads close one SharedObject at the same time.
CloseBegin(t, h) ==
    /\ handle[h] = "live" /\ \A u \in Threads : pc[u] = "release" => arg[u].closing # h
    /\ Go(t, "idle", "release")
    /\ arg' = [arg EXCEPT ![t].closing = h]
    /\ UNCHANGED <<mapVars, cache, handleVars, live, shut>>

\* release(); its mutant keeps the last lease.
ReleasedOne(n) == IF n > 1 THEN n - 1 ELSE n
Released(n) == IF n > 0 THEN n - 1 ELSE n

CloseEnd(t) ==
    /\ Return(t, "release")
    /\ handle' = [handle EXCEPT ![arg[t].closing] = "closed"]
    /\ LET s == of[arg[t].closing]
       IN  /\ leases' = [leases EXCEPT ![s] = Released(@)]
           /\ MaybeClose({s}, leases', cached)
    /\ UNCHANGED <<cached, keyOf, viewed, cache, of, live, shut>>

\* clear_cache for the entries of the objects in O.
Clear(O) ==
    LET S == {s \in ToSet(cache) : keyOf[s][1] \in O}
    IN  cache' = Without(cache, S) /\ SetCached(S, {})

ClearCache(t) ==
    /\ pc[t] = "idle"
    /\ \E O \in {Objects} \cup {{o} : o \in Objects} : Clear(O)
    /\ UNCHANGED <<threadVars, keyOf, handleVars, live, shut>>

\* Client.delete: the daemon forgets the object, then its entries are dropped.
Delete(t, o) ==
    /\ ~shut /\ o \in live
    /\ Go(t, "idle", "purge")
    /\ arg' = [arg EXCEPT ![t].key = <<o, @[2]>>]
    /\ live' = live \ {o}
    /\ UNCHANGED <<mapVars, cache, handleVars, shut>>

\* The daemon deleted the object but the connection failed before the answer:
\* delete raises and drops nothing.
DeleteUnanswered(t, o) ==
    /\ ~shut /\ o \in live /\ pc[t] = "idle"
    /\ live' = live \ {o}
    /\ UNCHANGED <<threadVars, mapVars, cache, handleVars, shut>>

Purge(t) ==
    /\ Return(t, "purge")
    /\ Clear({arg[t].key[1]})
    /\ UNCHANGED <<keyOf, handleVars, live, shut>>

\* Client.close: clear the cache, then drop the connection.
Close(t) ==
    /\ ~shut
    /\ Go(t, "idle", "shut")
    /\ Clear(Objects)
    /\ UNCHANGED <<arg, keyOf, handleVars, live, shut>>

Shut(t) ==
    /\ Return(t, "shut")
    /\ shut' = TRUE
    /\ UNCHANGED <<mapVars, cache, handleVars, live>>

Thread(t) ==
    \/ \E k \in Keys, c \in BOOLEAN : Open(t, k, c)
    \/ CacheHit(t) \/ CacheMiss(t) \/ Request(t) \/ RequestFails(t) \/ CachePut(t)
    \/ Acquire(t) \/ AcquireFails(t) \/ Recover(t)
    \/ (\E h \in Handles : CloseBegin(t, h)) \/ CloseEnd(t)
    \/ ClearCache(t) \/ (\E o \in Objects : Delete(t, o) \/ DeleteUnanswered(t, o))
    \/ Purge(t)
    \/ Close(t) \/ Shut(t)

Next ==
    \/ \E t \in Threads : Thread(t)
    \/ \E h \in Handles : TakeView(h)
    \/ \E s \in Mappings : DropViews(s)

Spec == Init /\ [][Next]_vars
-----------------------------------------------------------------------------
\* Type invariant; in particular a lease count never exceeds the number of
\* SharedObjects that were made (acquire and release, client.py:25-35).
TypeOK ==
    /\ pc \in [Threads -> {"idle", "get", "request", "put", "lease", "raised",
                           "release", "purge", "shut"}]
    /\ phase \in [Mappings -> {"unused", "open", "closed"}]
    /\ cached \in [Mappings -> BOOLEAN]
    /\ cache \in Seq(Mappings)
    /\ handle \in [Handles -> {"unused", "live", "closed"}]
    /\ \A s \in Mappings :
          leases[s] \in 0 .. Cardinality({h \in Handles : handle[h] # "unused"})

\* A SharedObject that is not closed has its mapping, whatever the other
\* threads evict, clear, delete or close in the meantime.
LeaseSafety ==
    \A h \in Handles : handle[h] = "live" => phase[of[h]] = "open"

\* The lease count of a mapping is the number of SharedObjects using it.
LeaseCount ==
    \A s \in Mappings :
        leases[s] = Cardinality({h \in Handles : handle[h] = "live" /\ of[h] = s})

\* The _cached flags say what is in the dict, of which every entry is an open
\* mapping; there is one entry per key and never more than cache_size.  (With
\* the type invariant.)
CacheAgrees ==
    /\ TypeOK
    /\ \A s \in Mappings : cached[s] <=> s \in ToSet(cache)
    /\ \A s \in ToSet(cache) : phase[s] = "open"
    /\ \A m, n \in DOMAIN cache : keyOf[cache[m]] = keyOf[cache[n]] => m = n
    /\ Len(cache) <= Capacity

\* A mapping some thread is about to put into the cache or to lease.
InFlight(s) == \E t \in Threads : arg[t].found = s /\ pc[t] \in {"put", "lease"}

\* No mapping is left attached without a user, except where an exported view
\* made mmap.close() fail.
NoOrphan ==
    \A s \in Mappings :
        phase[s] = "open" /\ s \notin pinned =>
            s \in ToSet(cache) \/ leases[s] > 0 \/ InFlight(s)

\* The cache and the leases together implement the lifetime of a mapping.
UsersOf(s) ==
    {h \in Handles : handle[h] = "live" /\ of[h] = s}
    \cup (IF s \in ToSet(cache) THEN {"cache"} ELSE {})

Lifetime == INSTANCE MappingLifetime
    WITH Users <- Handles \cup {"cache"}, users <- [s \in Mappings |-> UsersOf(s)]

LifetimeSpec == Lifetime!Spec

\* "Serialize access so one Client can safely be shared by multiple
\* application threads" (client.py:243): open() of an object the daemon still
\* has does not fail with "shared-memory mapping is closed".
NoSpuriousFailure == \A t \in Threads : pc[t] # "raised"
=============================================================================
