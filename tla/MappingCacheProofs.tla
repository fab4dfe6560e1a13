------------------------- MODULE MappingCacheProofs -------------------------
(***************************************************************************)
(* For every number of threads, objects, mappings and SharedObjects: the   *)
(* lease count of a mapping is exact and a live SharedObject has its       *)
(* mapping.  The two need each other: a mapping is closed at count zero,   *)
(* and a count of zero means that no SharedObject is live only while the   *)
(* count is exact.  Exactness in turn needs that a SharedObject on its way *)
(* through close() is live and is closed by one thread only.               *)
(***************************************************************************)
EXTENDS MappingCache, FiniteSetTheorems, TLAPS

USE DEF Released, Idle

Steps == {"idle", "get", "request", "put", "lease", "raised", "release",
          "purge", "shut"}

Calls == [key : Keys, caching : BOOLEAN, found : Mappings, closing : Handles]

TypeInv ==
    /\ pc \in [Threads -> Steps]
    /\ arg \in [Threads -> Calls]
    /\ phase \in [Mappings -> {"unused", "open", "closed"}]
    /\ leases \in [Mappings -> Nat]
    /\ handle \in [Handles -> {"unused", "live", "closed"}]
    /\ of \in [Handles -> Mappings]

\* A SharedObject inside close() is live and has one closer.
Closing ==
    \A t \in Threads :
        pc[t] = "release" =>
            /\ handle[arg[t].closing] = "live"
            /\ \A u \in Threads :
                  pc[u] = "release" /\ arg[u].closing = arg[t].closing => u = t

\* The SharedObjects that hold a lease of s.
Holders(s) == {h \in Handles : handle[h] = "live" /\ of[h] = s}

Counted == \A s \in Mappings : leases[s] = Cardinality(Holders(s))

Inv == TypeInv /\ Closing /\ Counted /\ LeaseSafety
-----------------------------------------------------------------------------
LEMMA HoldersFinite ==
    \A s \in Mappings : IsFiniteSet(Holders(s)) /\ Cardinality(Holders(s)) \in Nat
<1> TAKE s \in Mappings
<1>1. IsFiniteSet(Handles)
  BY MappingCacheAssumption
<1>2. Holders(s) \subseteq Handles
  BY DEF Holders
<1>3. IsFiniteSet(Holders(s))
  BY <1>1, <1>2, FS_Subset
<1> QED
  BY <1>3, FS_CardinalityType

\* A mapping with a live SharedObject has a lease.
LEMMA LiveIsLeased ==
    ASSUME Counted, TypeInv, NEW h \in Handles, handle[h] = "live"
    PROVE  leases[of[h]] # 0
<1>1. of[h] \in Mappings /\ h \in Holders(of[h])
  BY DEF Holders, TypeInv
<1>2. Cardinality(Holders(of[h])) # 0
  BY <1>1, HoldersFinite, FS_EmptySet
<1> QED
  BY <1>1, <1>2 DEF Counted

\* Typing and invariant of the initial state.
LEMMA InitInv == Init => Inv
<1> SUFFICES ASSUME Init PROVE Inv
  OBVIOUS
<1>1. SomeKey \in Keys /\ SomeMapping \in Mappings /\ SomeHandle \in Handles
  BY MappingCacheAssumption DEF SomeKey, SomeMapping, SomeHandle
<1>2. TypeInv
  BY <1>1 DEF Init, TypeInv, Steps, Calls, NoCall
<1>3. Closing
  BY DEF Init, Closing
<1>4. \A s \in Mappings : Holders(s) = {}
  BY DEF Init, Holders
<1>5. Counted
  BY <1>4, FS_EmptySet DEF Init, Counted
<1>6. LeaseSafety
  BY DEF Init, LeaseSafety
<1> QED
  BY <1>2, <1>3, <1>5, <1>6 DEF Inv
-----------------------------------------------------------------------------
\* Steps that leave SharedObjects and leases alone.  Of such a step only two
\* things matter: no leased mapping closes, and a thread enters close() only
\* through CloseBegin.
LEMMA QuietStep ==
    ASSUME Inv, TypeInv',
           UNCHANGED <<leases, handle, of>>,
           \A s \in Mappings :
               phase[s] = "open" /\ leases[s] # 0 => phase'[s] = "open",
           Closing'
    PROVE  Inv'
<1>1. \A s \in Mappings : Holders(s)' = Holders(s)
  BY DEF Holders
<1>2. Counted'
  BY <1>1 DEF Counted, Inv
<1>3. LeaseSafety'
  <2> SUFFICES ASSUME NEW h \in Handles, handle'[h] = "live"
               PROVE  phase'[of'[h]] = "open"
    BY DEF LeaseSafety
  <2>1. leases[of[h]] # 0 /\ of[h] \in Mappings
    BY LiveIsLeased DEF Inv, TypeInv
  <2>2. phase[of[h]] = "open"
    BY DEF Inv, LeaseSafety
  <2> QED
    BY <2>1, <2>2
<1> QED
  BY <1>2, <1>3 DEF Inv

\* No thread enters or leaves close().
LEMMA QuietClosing ==
    ASSUME Inv, handle' = handle,
           \A u \in Threads : pc'[u] = "release" =>
               pc[u] = "release" /\ arg'[u].closing = arg[u].closing
    PROVE  Closing'
  BY DEF Inv, Closing

\* The mappings set_cached touches keep their phase while they are leased.
LEMMA SetCachedStep ==
    ASSUME Inv, NEW S, NEW T, SetCached(S, T)
    PROVE  /\ phase' \in [Mappings -> {"unused", "open", "closed"}]
           /\ UNCHANGED leases
           /\ \A s \in Mappings : phase[s] = "open" /\ leases[s] # 0 => phase'[s] = "open"
  BY DEF SetCached, MaybeClose, Inv, TypeInv
-----------------------------------------------------------------------------
LEMMA StepInv ==
    ASSUME Inv, NEW t \in Threads, Thread(t)
    PROVE  Inv'
<1> USE DEF Steps, Calls, Go, Return, NoCall
<1> DEFINE Quiet ==
        /\ TypeInv'
        /\ UNCHANGED <<leases, handle, of>>
        /\ \A s \in Mappings :
               phase[s] = "open" /\ leases[s] # 0 => phase'[s] = "open"
        /\ \A u \in Threads : pc'[u] = "release" =>
               pc[u] = "release" /\ arg'[u].closing = arg[u].closing
<1>0. ASSUME Quiet PROVE Inv'
  BY <1>0, QuietStep, QuietClosing DEF Inv
<1>1. SomeKey \in Keys /\ SomeMapping \in Mappings /\ SomeHandle \in Handles
  BY MappingCacheAssumption DEF SomeKey, SomeMapping, SomeHandle
<1>2. TypeInv
  BY DEF Inv
<1>3. ASSUME NEW k \in Keys, NEW c \in BOOLEAN, Open(t, k, c) PROVE Inv'
  <2>1. Quiet
    BY <1>1, <1>2, <1>3 DEF Open, TypeInv, mapVars, handleVars
  <2> QED
    BY <1>0, <2>1
<1>4. CASE CacheHit(t)
  <2>1. Quiet
    <3> PICK s \in Mappings : arg' = [arg EXCEPT ![t].found = s]
      BY <1>4 DEF CacheHit, Cached
    <3> QED
      BY <1>1, <1>2, <1>4, ZenonT(30) DEF CacheHit, TypeInv, mapVars, handleVars
  <2> QED
    BY <1>0, <2>1
<1>5. CASE RequestFails(t)
  <2>1. Quiet
    BY <1>1, <1>2, <1>5 DEF RequestFails, TypeInv, mapVars, handleVars
  <2> QED
    BY <1>0, <2>1
<1>6. CASE AcquireFails(t)
  <2>1. Quiet
    BY <1>1, <1>2, <1>6 DEF AcquireFails, TypeInv, mapVars, handleVars
  <2> QED
    BY <1>0, <2>1
<1>7. CASE Recover(t)
  <2>1. Quiet
    BY <1>1, <1>2, <1>7 DEF Recover, TypeInv, mapVars, handleVars
  <2> QED
    BY <1>0, <2>1
<1>8. ASSUME NEW o \in Objects, Delete(t, o) PROVE Inv'
  <2>1. Quiet
    BY <1>1, <1>2, <1>8 DEF Delete, TypeInv, Keys, mapVars, handleVars
  <2> QED
    BY <1>0, <2>1
<1>9. ASSUME NEW o \in Objects, DeleteUnanswered(t, o) PROVE Inv'
  <2>1. Quiet
    BY <1>1, <1>2, <1>9 DEF DeleteUnanswered, TypeInv, threadVars, mapVars, handleVars
  <2> QED
    BY <1>0, <2>1
<1>10. CASE Shut(t)
  <2>1. Quiet
    BY <1>1, <1>2, <1>10 DEF Shut, TypeInv, mapVars, handleVars
  <2> QED
    BY <1>0, <2>1
<1>11. CASE CacheMiss(t)
  <2>1. \E S, T : SetCached(S, T)
    BY <1>11 DEF CacheMiss
  <2>2. Quiet
    BY <1>1, <1>2, <1>11, <2>1, SetCachedStep DEF CacheMiss, TypeInv, handleVars, threadVars
  <2> QED
    BY <1>0, <2>2
<1>12. CASE CachePut(t)
  <2>1. \E S, T : SetCached(S, T)
    BY <1>12 DEF CachePut
  <2>2. Quiet
    BY <1>1, <1>2, <1>12, <2>1, SetCachedStep DEF CachePut, TypeInv, handleVars, threadVars
  <2> QED
    BY <1>0, <2>2
<1>13. CASE ClearCache(t)
  <2>1. \E S, T : SetCached(S, T)
    BY <1>13 DEF ClearCache, Clear
  <2>2. Quiet
    BY <1>1, <1>2, <1>13, <2>1, SetCachedStep DEF ClearCache, TypeInv, handleVars, threadVars
  <2> QED
    BY <1>0, <2>2
<1>14. CASE Purge(t)
  <2>1. \E S, T : SetCached(S, T)
    BY <1>14 DEF Purge, Clear
  <2>2. Quiet
    BY <1>1, <1>2, <1>14, <2>1, SetCachedStep DEF Purge, TypeInv, handleVars, threadVars
  <2> QED
    BY <1>0, <2>2
<1>15. CASE Close(t)
  <2>1. \E S, T : SetCached(S, T)
    BY <1>15 DEF Close, Clear
  <2>2. Quiet
    BY <1>1, <1>2, <1>15, <2>1, SetCachedStep DEF Close, TypeInv, handleVars, threadVars
  <2> QED
    BY <1>0, <2>2
<1>16. CASE Request(t)
  <2> DEFINE s == CHOOSE new \in Mappings : phase[new] = "unused"
  <2>1. s \in Mappings /\ phase[s] = "unused"
    BY <1>16 DEF Request
  <2>2. Quiet
    BY <1>1, <1>2, <1>16, <2>1 DEF Request, TypeInv, handleVars
  <2> QED
    BY <1>0, <2>2
<1>17. CASE Acquire(t)
  <2>1. PICK h \in Handles :
            /\ handle[h] = "unused"
            /\ handle' = [handle EXCEPT ![h] = "live"]
            /\ of' = [of EXCEPT ![h] = arg[t].found]
    BY <1>17 DEF Acquire
  <2>2. PICK s \in Mappings : s = arg[t].found /\ phase[s] = "open"
    BY <1>2, <1>17 DEF Acquire, TypeInv
  <2>3. TypeInv'
    BY <1>1, <1>2, <1>17, <2>1, <2>2 DEF Acquire, TypeInv
  <2>4. Closing'
    BY <1>2, <1>17, <2>1 DEF Acquire, TypeInv, Inv, Closing
  <2>5. LeaseSafety'
    BY <1>2, <1>17, <2>1, <2>2 DEF Acquire, TypeInv, Inv, LeaseSafety
  <2>6. Holders(s)' = Holders(s) \cup {h} /\ h \notin Holders(s)
    <3>1. /\ handle \in [Handles -> {"unused", "live", "closed"}]
          /\ of \in [Handles -> Mappings]
          /\ of' = [of EXCEPT ![h] = s]
      BY <1>2, <2>1, <2>2 DEF TypeInv
    <3> QED
      BY <2>1, <3>1 DEF Holders
  <2>7. \A r \in Mappings : r # s => Holders(r)' = Holders(r)
    BY <1>2, <1>17, <2>1, <2>2 DEF Acquire, TypeInv, Holders
  <2>8. Cardinality(Holders(s)') = Cardinality(Holders(s)) + 1
    BY <2>2, <2>6, HoldersFinite, FS_AddElement
  <2>9. \A r \in Mappings : leases'[r] = IF r = s THEN leases[s] + 1 ELSE leases[r]
    BY <1>2, <1>17, <2>2 DEF Acquire, TypeInv
  <2>10. Counted'
    BY <2>2, <2>7, <2>8, <2>9 DEF Inv, Counted
  <2> QED
    BY <2>3, <2>4, <2>5, <2>10 DEF Inv
<1>18. ASSUME NEW h \in Handles, CloseBegin(t, h) PROVE Inv'
  <2>1. TypeInv'
    BY <1>2, <1>18 DEF CloseBegin, TypeInv, mapVars, handleVars
  <2>2. UNCHANGED <<leases, handle, of, phase>>
    BY <1>18 DEF CloseBegin, mapVars, handleVars
  <2>3. /\ pc'[t] = "release" /\ arg'[t].closing = h
        /\ \A u \in Threads : u # t => pc'[u] = pc[u] /\ arg'[u] = arg[u]
    BY <1>2, <1>18 DEF CloseBegin, TypeInv
  <2>4. /\ handle[h] = "live"
        /\ \A u \in Threads : pc[u] = "release" => arg[u].closing # h
    BY <1>18 DEF CloseBegin
  <2>5. Closing'
    BY <2>2, <2>3, <2>4 DEF Inv, Closing
  <2> QED
    BY <2>1, <2>2, <2>5, QuietStep
<1>19. CASE CloseEnd(t)
  <2>0. pc[t] = "release" /\ arg[t].closing \in Handles
    BY <1>2, <1>19 DEF CloseEnd, TypeInv
  <2>1. PICK h \in Handles, s \in Mappings : h = arg[t].closing /\ s = of[h]
    BY <1>2, <2>0 DEF TypeInv
  <2>2. handle[h] = "live"
    BY <2>0, <2>1 DEF Inv, Closing
  <2>3. leases[s] # 0
    BY <2>1, <2>2, LiveIsLeased, <1>2 DEF Inv
  <2>4. /\ handle' = [handle EXCEPT ![h] = "closed"] /\ of' = of
        /\ leases' = [leases EXCEPT ![s] = leases[s] - 1]
        /\ MaybeClose({s}, leases', cached)
    <3>1. leases \in [Mappings -> Nat]
      BY <1>2 DEF TypeInv
    <3>2. /\ handle' = [handle EXCEPT ![h] = "closed"] /\ of' = of
          /\ leases' = [leases EXCEPT ![s] = Released(leases[s])]
          /\ MaybeClose({s}, leases', cached)
      BY <1>19, <2>1 DEF CloseEnd
    <3>3. Released(leases[s]) = leases[s] - 1
      BY <2>1, <2>3, <3>1
    <3> QED
      BY <3>2, <3>3, Zenon
  <2>5. TypeInv'
    <3>1. pc' \in [Threads -> Steps] /\ arg' \in [Threads -> Calls]
      BY <1>1, <1>2, <1>19 DEF CloseEnd, TypeInv
    <3>2. leases' \in [Mappings -> Nat]
      <4>1. leases \in [Mappings -> Nat] /\ s \in Mappings
        BY <1>2, <2>1 DEF TypeInv
      <4>2. leases[s] - 1 \in Nat
        BY <2>3, <4>1
      <4>3. leases' = [leases EXCEPT ![s] = leases[s] - 1]
        BY <2>4
      <4> QED
        BY <4>1, <4>2, <4>3, Zenon
    <3>3. phase' \in [Mappings -> {"unused", "open", "closed"}]
      BY <1>2, <2>4 DEF TypeInv, MaybeClose
    <3>4. handle' \in [Handles -> {"unused", "live", "closed"}] /\ of' \in [Handles -> Mappings]
      BY <1>2, <2>4 DEF TypeInv
    <3> QED
      BY <3>1, <3>2, <3>3, <3>4 DEF TypeInv
  <2>6. Closing'
    BY <1>2, <1>19, <2>1, <2>4 DEF CloseEnd, TypeInv, Inv, Closing
  <2>7. Holders(s)' = Holders(s) \ {h} /\ h \in Holders(s)
    BY <1>2, <2>1, <2>2, <2>4 DEF TypeInv, Holders
  <2>8. \A r \in Mappings : r # s => Holders(r)' = Holders(r)
    BY <1>2, <2>1, <2>4 DEF TypeInv, Holders
  <2>9. Cardinality(Holders(s)') = Cardinality(Holders(s)) - 1
    <3>1. IsFiniteSet(Holders(s))
      BY HoldersFinite
    <3> QED
      BY <2>7, <3>1, FS_RemoveElement
  <2>10. \A r \in Mappings : leases'[r] = IF r = s THEN leases[s] - 1 ELSE leases[r]
    BY <1>2, <2>1, <2>4 DEF TypeInv
  <2>11. Counted'
    BY <2>1, <2>8, <2>9, <2>10 DEF Inv, Counted
  <2>12. LeaseSafety'
    <3> SUFFICES ASSUME NEW g \in Handles, handle'[g] = "live"
                 PROVE  phase'[of'[g]] = "open"
      BY DEF LeaseSafety
    <3>1. handle[g] = "live" /\ of'[g] = of[g] /\ of[g] \in Mappings
      BY <1>2, <2>1, <2>4 DEF TypeInv
    <3>2. phase[of[g]] = "open"
      BY <3>1 DEF Inv, LeaseSafety
    <3>3. leases'[of[g]] # 0
      <4>1. CASE of[g] = s
        <5>1. g # h
          BY <1>2, <2>1, <2>4 DEF TypeInv
        <5>2. g \in Holders(s) \ {h}
          BY <3>1, <4>1, <5>1 DEF Holders
        <5>3. Cardinality(Holders(s)') # 0
          BY <2>7, <5>2, HoldersFinite, FS_Subset, FS_EmptySet
        <5> QED
          BY <2>11, <4>1, <5>3 DEF Counted
      <4>2. CASE of[g] # s
        BY <2>10, <3>1, <4>2, LiveIsLeased DEF Inv
      <4> QED
        BY <4>1, <4>2
    <3> QED
      BY <1>2, <2>1, <2>4, <3>1, <3>2, <3>3 DEF MaybeClose, TypeInv
  <2> QED
    BY <2>5, <2>6, <2>11, <2>12 DEF Inv
<1> QED
  BY <1>3, <1>4, <1>5, <1>6, <1>7, <1>8, <1>9, <1>10, <1>11, <1>12, <1>13,
     <1>14, <1>15, <1>16, <1>17, <1>18, <1>19
  DEF Thread
-----------------------------------------------------------------------------
LEMMA NextInv == Inv /\ [Next]_vars => Inv'
<1> SUFFICES ASSUME Inv, [Next]_vars PROVE Inv'
  OBVIOUS
<1>1. ASSUME NEW t \in Threads, Thread(t) PROVE Inv'
  BY <1>1, StepInv
<1>2. ASSUME UNCHANGED <<pc, arg, phase, leases, handle, of>> PROVE Inv'
  <2>1. TypeInv' /\ Closing'
    BY <1>2 DEF Inv, TypeInv, Closing
  <2> QED
    BY <1>2, <2>1, QuietStep
<1>3. ASSUME NEW h \in Handles, TakeView(h) PROVE Inv'
  BY <1>2, <1>3 DEF TakeView, threadVars, handleVars
<1>4. ASSUME NEW s \in Mappings, DropViews(s) PROVE Inv'
  BY <1>2, <1>4 DEF DropViews, threadVars, handleVars
<1>5. CASE UNCHANGED vars
  BY <1>2, <1>5 DEF vars, threadVars, mapVars, handleVars
<1> QED
  BY <1>1, <1>3, <1>4, <1>5 DEF Next

LEMMA Invariance == Spec => []Inv
<1> QED
  BY InitInv, NextInv, PTL DEF Spec

\* A SharedObject that is not closed has its mapping (LeaseSafety: acquire,
\* release and set_cached of _MappingState, client.py:25-50).
THEOREM LiveObjectsAreMapped == Spec => []LeaseSafety
<1>1. Inv => LeaseSafety
  BY DEF Inv
<1> QED
  BY <1>1, Invariance, PTL

\* The lease count of a mapping is the number of SharedObjects using it
\* (LeaseCount: _leases, client.py:25-35, and SharedObject.close, 154-158).
THEOREM LeasesAreCounted == Spec => []LeaseCount
<1>1. Inv => LeaseCount
  BY DEF Inv, Counted, Holders, LeaseCount
<1> QED
  BY <1>1, Invariance, PTL
-----------------------------------------------------------------------------
\* A finite set of numbers has an enumeration in increasing order: the one
\* that inverts the rank, the number of elements up to a given one.
LEMMA IncreasingExists ==
    ASSUME NEW K \in SUBSET Nat, IsFiniteSet(K)
    PROVE  \E f \in [1 .. Cardinality(K) -> K] :
              \A m, n \in DOMAIN f : m < n => f[m] < f[n]
<1> DEFINE upTo(i) == {j \in K : j <= i}
           c == Cardinality(K)
           rank == [i \in K |-> Cardinality(upTo(i))]
<1>1. c \in Nat
  BY FS_CardinalityType
<1>2. ASSUME NEW i \in K
      PROVE  IsFiniteSet(upTo(i)) /\ rank[i] \in 1 .. c
  <2>1. IsFiniteSet(upTo(i)) /\ Cardinality(upTo(i)) <= c
    BY FS_Subset
  <2>2. i \in upTo(i)
    OBVIOUS
  <2>3. Cardinality(upTo(i)) \in Nat /\ Cardinality(upTo(i)) # 0
    BY <2>1, <2>2, FS_CardinalityType, FS_EmptySet
  <2> QED
    BY <1>1, <2>1, <2>3
<1>3. ASSUME NEW i \in K, NEW h \in K, i < h
      PROVE  rank[i] < rank[h]
  <2>0. i \in Nat /\ h \in Nat /\ \A j \in K : j \in Nat
    OBVIOUS
  <2>a. h <= h /\ ~(h <= i) /\ \A j \in K : j <= i => j <= h
    BY <1>3, <2>0
  <2>1. upTo(i) \in SUBSET upTo(h) /\ h \in upTo(h) /\ h \notin upTo(i)
    BY <2>a, Zenon
  <2>2. upTo(i) # upTo(h)
    BY <2>1
  <2>3. /\ Cardinality(upTo(i)) <= Cardinality(upTo(h))
        /\ Cardinality(upTo(h)) = Cardinality(upTo(i)) => upTo(h) = upTo(i)
    BY <1>2, <2>1, FS_Subset
  <2> QED
    BY <1>1, <1>2, <2>2, <2>3
<1>4. rank \in [K -> 1 .. c]
  BY <1>2
<1> HIDE DEF rank
<1>5. rank \in Injection(K, 1 .. c)
  <2>1. ASSUME NEW i \in K, NEW h \in K, rank[i] = rank[h]
        PROVE  i = h
    <3>1. ~(i < h) /\ ~(h < i)
      BY <1>1, <1>3, <1>4, <2>1
    <3> QED
      BY <3>1
  <2> QED
    BY <1>4, <2>1 DEF Injection, IsInjective
<1>6. IsFiniteSet(1 .. c) /\ Cardinality(1 .. c) = c
  BY <1>1, FS_Interval
<1>7. rank \in Surjection(K, 1 .. c)
  BY <1>5, <1>6, FS_Injection
<1>8. \A n \in 1 .. c : \E i \in K : rank[i] = n
  BY <1>7 DEF Surjection
<1> DEFINE f == [n \in 1 .. c |-> CHOOSE i \in K : rank[i] = n]
<1>9. \A n \in 1 .. c : f[n] \in K /\ rank[f[n]] = n
  BY <1>8
<1>10. f \in [1 .. c -> K] /\ DOMAIN f = 1 .. c
  BY <1>9
<1> HIDE DEF f
<1>11. ASSUME NEW m \in 1 .. c, NEW n \in 1 .. c, m < n
       PROVE  f[m] < f[n]
  <2>0. /\ f[m] \in K /\ f[n] \in K /\ rank[f[m]] = m /\ rank[f[n]] = n
        /\ ~(n < m) /\ m # n
    BY <1>1, <1>9, <1>11
  <2>1. ~(f[n] < f[m]) /\ f[n] # f[m]
    BY <1>3, <2>0
  <2>2. f[n] \in Nat /\ f[m] \in Nat
    BY <1>9
  <2> QED
    BY <2>1, <2>2
<1> QED
  BY <1>10, <1>11

\* Increasing enumerates all of its set.
LEMMA IncreasingFacts ==
    ASSUME NEW K \in SUBSET Nat, IsFiniteSet(K)
    PROVE  /\ Increasing(K) \in [1 .. Cardinality(K) -> K]
           /\ \A m, n \in 1 .. Cardinality(K) :
                 m < n => Increasing(K)[m] < Increasing(K)[n]
           /\ \A i \in K : \E n \in 1 .. Cardinality(K) : Increasing(K)[n] = i
<1> DEFINE c == Cardinality(K)
           f == Increasing(K)
<1>1. f \in [1 .. c -> K] /\ \A m, n \in DOMAIN f : m < n => f[m] < f[n]
  BY IncreasingExists DEF Increasing
<1>2. c \in Nat /\ IsFiniteSet(1 .. c) /\ Cardinality(1 .. c) = c
  BY FS_CardinalityType, FS_Interval
<1> HIDE DEF f
<1>3. f \in Injection(1 .. c, K)
  <2>1. ASSUME NEW m \in 1 .. c, NEW n \in 1 .. c, f[m] = f[n]
        PROVE  m = n
    <3>1. f[m] \in Nat /\ f[n] \in Nat
      BY <1>1
    <3>2. ~(f[m] < f[n]) /\ ~(f[n] < f[m])
      BY <2>1, <3>1
    <3>3. ~(m < n) /\ ~(n < m)
      BY <1>1, <3>2
    <3> QED
      BY <1>2, <3>3
  <2> QED
    BY <1>1, <2>1 DEF Injection, IsInjective
<1>4. f \in Surjection(1 .. c, K)
  BY <1>2, <1>3, FS_Injection
<1>5. \A i \in K : \E n \in 1 .. c : f[n] = i
  BY <1>4 DEF Surjection
<1> QED
  BY <1>1, <1>5 DEF f

\* Without drops the entries of S and nothing else, and keeps the order.
LEMMA WithoutOrder ==
    ASSUME NEW T, NEW q \in Seq(T), NEW S
    PROVE  /\ Without(q, S) \in Seq(T)
           /\ ToSet(Without(q, S)) = ToSet(q) \ S
           /\ Len(Without(q, S)) = Cardinality({i \in DOMAIN q : q[i] \notin S})
           /\ \E f \in [DOMAIN Without(q, S) -> DOMAIN q] :
                 /\ \A n \in DOMAIN Without(q, S) : Without(q, S)[n] = q[f[n]]
                 /\ \A m, n \in DOMAIN Without(q, S) : m < n => f[m] < f[n]
<1> DEFINE K == {i \in DOMAIN q : q[i] \notin S}
           c == Cardinality(K)
           f == Increasing(K)
           w == Without(q, S)
<1>1. IsFiniteSet(K) /\ K \in SUBSET Nat
  <2>1. IsFiniteSet(1 .. Len(q))
    BY FS_Interval
  <2> QED
    BY <2>1, FS_Subset
<1>2. c \in Nat
  BY <1>1, FS_CardinalityType
<1>3. /\ f \in [1 .. c -> K]
      /\ \A m, n \in 1 .. c : m < n => f[m] < f[n]
      /\ \A i \in K : \E n \in 1 .. c : f[n] = i
  BY <1>1, IncreasingFacts
<1>4. w = [n \in 1 .. c |-> q[f[n]]]
  BY DEF Without
<1> HIDE DEF f, w, c
<1>5. \A n \in 1 .. c : f[n] \in DOMAIN q /\ q[f[n]] \in T /\ q[f[n]] \notin S
  BY <1>3
<1>6. w \in Seq(T) /\ DOMAIN w = 1 .. c /\ Len(w) = c
  BY <1>2, <1>4, <1>5
<1>7. ToSet(w) = ToSet(q) \ S
  <2>1. ASSUME NEW x \in ToSet(w) PROVE x \in ToSet(q) \ S
    <3>1. PICK n \in 1 .. c : x = w[n]
      BY <1>6 DEF ToSet
    <3> QED
      BY <1>4, <1>5, <3>1 DEF ToSet
  <2>2. ASSUME NEW x \in ToSet(q) \ S PROVE x \in ToSet(w)
    <3>1. PICK i \in DOMAIN q : x = q[i]
      BY DEF ToSet
    <3>2. i \in K
      BY <2>2, <3>1
    <3>3. PICK n \in 1 .. c : f[n] = i
      BY <1>3, <3>2
    <3> QED
      BY <1>4, <1>6, <3>1, <3>3 DEF ToSet
  <2> QED
    BY <2>1, <2>2
<1>8. f \in [DOMAIN w -> DOMAIN q] /\ \A n \in DOMAIN w : w[n] = q[f[n]]
  BY <1>3, <1>4, <1>6
<1> QED
  BY <1>3, <1>6, <1>7, <1>8 DEF w, c

\* Its elements, and its length.
LEMMA WithoutFacts ==
    ASSUME NEW T, NEW q \in Seq(T), NEW S
    PROVE  /\ Without(q, S) \in Seq(T)
           /\ \A x : x \in ToSet(Without(q, S)) <=> x \in ToSet(q) /\ x \notin S
<1>1. ToSet(Without(q, S)) = ToSet(q) \ S /\ Without(q, S) \in Seq(T)
  BY WithoutOrder
<1> QED
  BY <1>1

LEMMA WithoutLength ==
    ASSUME NEW T, NEW q \in Seq(T), NEW S, NEW K, K = {i \in DOMAIN q : q[i] \notin S}
    PROVE  Len(Without(q, S)) = Cardinality(K)
  BY WithoutOrder

\* Without keeps one entry per key, and never makes the cache longer.
LEMMA WithoutKeeps ==
    ASSUME NEW T, NEW q \in Seq(T), NEW S, NEW key,
           \A m, n \in DOMAIN q : key[q[m]] = key[q[n]] => m = n
    PROVE  /\ \A m, n \in DOMAIN Without(q, S) :
                 key[Without(q, S)[m]] = key[Without(q, S)[n]] => m = n
           /\ Len(Without(q, S)) <= Len(q)
<1> DEFINE w == Without(q, S)
           K == {i \in DOMAIN q : q[i] \notin S}
<1>1. w \in Seq(T) /\ Len(w) = Cardinality(K)
  BY WithoutOrder
<1>2. PICK f \in [DOMAIN w -> DOMAIN q] :
         /\ \A n \in DOMAIN w : w[n] = q[f[n]]
         /\ \A m, n \in DOMAIN w : m < n => f[m] < f[n]
  BY WithoutOrder
<1>3. Cardinality(K) <= Len(q)
  <2>1. IsFiniteSet(1 .. Len(q)) /\ Cardinality(1 .. Len(q)) = Len(q)
    <3>1. PICK n \in Nat : n = Len(q)
      OBVIOUS
    <3>2. IsFiniteSet(1 .. n) /\ Cardinality(1 .. n) = IF 1 > n THEN 0 ELSE n - 1 + 1
      BY FS_Interval
    <3> HIDE DEF K, w
    <3>3. Cardinality(1 .. n) = n
      BY <3>1, <3>2
    <3> QED
      BY <3>1, <3>2, <3>3
  <2>2. K \in SUBSET (1 .. Len(q))
    OBVIOUS
  <2> QED
    BY <2>1, <2>2, FS_Subset
<1> HIDE DEF w
<1>4. ASSUME NEW m \in DOMAIN w, NEW n \in DOMAIN w, key[w[m]] = key[w[n]]
      PROVE  m = n
  <2>1. f[m] = f[n] /\ f[m] \in Nat
    BY <1>2, <1>4
  <2>2. ~(m < n) /\ ~(n < m)
    BY <1>2, <2>1
  <2> QED
    BY <1>1, <2>2
<1> QED
  BY <1>1, <1>3, <1>4 DEF w

\* What the cache and the flags say of each other.
CacheInv ==
    /\ cache \in Seq(Mappings)
    /\ cached \in [Mappings -> BOOLEAN]
    /\ keyOf \in [Mappings -> Keys]
    /\ \A s \in Mappings : cached[s] <=> s \in ToSet(cache)
    /\ \A s \in ToSet(cache) : phase[s] = "open"
    /\ \A m, n \in DOMAIN cache : keyOf[cache[m]] = keyOf[cache[n]] => m = n
    /\ Len(cache) <= Capacity

\* A mapping on its way into the cache is open and known to nobody else.
InHand ==
    \A t \in Threads :
        LET s == arg[t].found
        IN  /\ pc[t] \in {"put", "lease"} => phase[s] # "unused"
            /\ pc[t] = "put" =>
                  /\ Capacity # 0
                  /\ phase[s] = "open" /\ leases[s] = 0
                  /\ s \notin ToSet(cache) /\ keyOf[s] = arg[t].key
                  /\ \A u \in Threads :
                        u # t /\ pc[u] \in {"put", "lease"} => arg[u].found # s

FullInv == Inv /\ CacheInv /\ InHand /\ NoOrphan

LEMMA FullInit == Init => FullInv
<1> SUFFICES ASSUME Init PROVE FullInv
  OBVIOUS
<1>1. SomeKey \in Keys
  BY MappingCacheAssumption DEF SomeKey
<1>2. ToSet(cache) = {}
  BY DEF Init, ToSet
<1>3. CacheInv
  BY <1>1, <1>2, MappingCacheAssumption DEF Init, CacheInv
<1>4. InHand /\ NoOrphan
  BY DEF Init, InHand, NoOrphan
<1> QED
  BY <1>3, <1>4, InitInv DEF FullInv

\* Nobody takes or drops a mapping that is still open.
Steady ==
    \A u \in Threads :
        \/ pc'[u] = pc[u] /\ arg'[u] = arg[u]
        \/ /\ pc'[u] \notin {"put", "lease"}
           /\ pc[u] \in {"put", "lease"} => phase[arg[u].found] # "open"

\* SetCached for one mapping.
LEMMA SetCachedEffect ==
    ASSUME Inv, CacheInv, NEW S, NEW T, SetCached(S, T)
    PROVE  \A s \in Mappings :
              /\ cached'[s] <=> s \in T \/ (s \notin S /\ cached[s])
              /\ phase'[s] # phase[s] =>
                    /\ s \in S \cup T /\ ~cached'[s] /\ leases[s] = 0
                    /\ phase[s] = "open" /\ phase'[s] = "closed"
              /\ s \in S \ T /\ phase'[s] = "open" =>
                    s \in pinned' \/ leases[s] > 0
              /\ s \in pinned => s \in pinned'
<1> SUFFICES ASSUME NEW s \in Mappings
             PROVE  /\ cached'[s] <=> s \in T \/ (s \notin S /\ cached[s])
                    /\ phase'[s] # phase[s] =>
                          /\ s \in S \cup T /\ ~cached'[s] /\ leases[s] = 0
                          /\ phase[s] = "open" /\ phase'[s] = "closed"
                    /\ s \in S \ T /\ phase'[s] = "open" =>
                          s \in pinned' \/ leases[s] > 0
                    /\ s \in pinned => s \in pinned'
  OBVIOUS
<1> DEFINE idle == Idle(S \cup T, leases, cached')
<1>1. cached'[s] <=> s \in T \/ (s \notin S /\ cached[s])
  BY DEF SetCached, CacheInv
<1>2. /\ phase'[s] = IF s \in idle \ viewed THEN "closed" ELSE phase[s]
      /\ pinned' = pinned \cup (idle \cap viewed)
  BY DEF SetCached, MaybeClose
<1>3. s \in idle <=> s \in S \cup T /\ phase[s] = "open" /\ leases[s] = 0 /\ ~cached'[s]
  OBVIOUS
<1>4. leases[s] \in Nat
  BY DEF Inv, TypeInv
<1> HIDE DEF idle
<1>5. s \in S \ T => ~cached'[s]
  BY <1>1
<1>6. /\ phase'[s] # phase[s] => s \in idle \ viewed /\ phase'[s] = "closed"
      /\ s \in idle /\ phase'[s] = "open" => s \in pinned'
      /\ phase'[s] = "open" => phase[s] = "open"
  BY <1>2
<1> QED
  BY <1>1, <1>2, <1>3, <1>4, <1>5, <1>6

\* Entries leave the cache.
LEMMA RemovalStep ==
    ASSUME FullInv, Inv', NEW S \in SUBSET ToSet(cache),
           cache' = Without(cache, S), SetCached(S, {}),
           UNCHANGED keyOf, Steady
    PROVE  FullInv'
<1>1. Inv /\ CacheInv /\ InHand /\ NoOrphan
  BY DEF FullInv
<1>2. UNCHANGED leases /\ cached' \in [Mappings -> BOOLEAN]
  BY <1>1 DEF SetCached, CacheInv
<1>3. ToSet(cache) \subseteq Mappings /\ \A t \in Threads : arg[t].found \in Mappings
  <2>1. ToSet(cache) \subseteq Mappings
    BY <1>1 DEF CacheInv, ToSet
  <2>2. arg \in [Threads -> Calls]
    BY <1>1 DEF Inv, TypeInv
  <2>3. \A c \in Calls : c.found \in Mappings
    BY DEF Calls
  <2> QED
    BY <2>1, <2>2, <2>3
<1>4. /\ cache' \in Seq(Mappings)
      /\ ToSet(cache') = ToSet(cache) \ S
      /\ Len(cache') <= Len(cache)
      /\ \A m, n \in DOMAIN cache' : keyOf[cache'[m]] = keyOf[cache'[n]] => m = n
  <2>1. /\ cache \in Seq(Mappings)
        /\ \A m, n \in DOMAIN cache : keyOf[cache[m]] = keyOf[cache[n]] => m = n
    BY <1>1 DEF CacheInv
  <2> DEFINE w == Without(cache, S)
  <2>2. w \in Seq(Mappings) /\ ToSet(w) = ToSet(cache) \ S
    <3>1. w \in Seq(Mappings) /\ \A x : x \in ToSet(w) <=> x \in ToSet(cache) /\ x \notin S
      BY <2>1, WithoutFacts
    <3> QED
      BY <3>1
  <2>3. /\ \A m, n \in DOMAIN w : keyOf[w[m]] = keyOf[w[n]] => m = n
        /\ Len(w) <= Len(cache)
    BY <2>1, WithoutKeeps
  <2> HIDE DEF w
  <2>4. cache' = w
    BY DEF w
  <2> QED
    BY <2>2, <2>3, <2>4
<1>5. \A s \in Mappings :
         /\ cached'[s] <=> s \notin S /\ cached[s]
         /\ phase'[s] # phase[s] =>
               /\ s \in S /\ leases[s] = 0
               /\ phase[s] = "open" /\ phase'[s] = "closed"
         /\ s \in S /\ phase'[s] = "open" => s \in pinned' \/ leases[s] > 0
         /\ s \in pinned => s \in pinned'
  BY <1>1, SetCachedEffect
<1>6. CacheInv'
  <2>1. Len(cache') <= Capacity
    BY <1>1, <1>4, MappingCacheAssumption DEF CacheInv
  <2>2. \A s \in Mappings : cached'[s] <=> s \in ToSet(cache')
    BY <1>1, <1>4, <1>5 DEF CacheInv
  <2>3. \A s \in ToSet(cache') : phase'[s] = "open"
    BY <1>1, <1>3, <1>4, <1>5 DEF CacheInv
  <2> QED
    BY <1>1, <1>2, <1>4, <2>1, <2>2, <2>3 DEF CacheInv
<1>7. InHand'
  <2>1. ASSUME NEW t \in Threads, pc'[t] \in {"put", "lease"}
        PROVE  pc'[t] = pc[t] /\ arg'[t] = arg[t]
    BY <2>1 DEF Steady
  <2>2. ASSUME NEW t \in Threads, pc[t] \in {"put", "lease"}
        PROVE  phase'[arg[t].found] # "unused"
    BY <1>1, <1>3, <1>5, <2>2 DEF InHand
  <2>3. ASSUME NEW t \in Threads, pc[t] = "put"
        PROVE  phase'[arg[t].found] = "open" /\ arg[t].found \notin ToSet(cache')
    BY <1>1, <1>3, <1>4, <1>5, <2>3 DEF InHand
  <2> QED
    BY <1>1, <1>2, <2>1, <2>2, <2>3 DEF InHand
<1>8. NoOrphan'
  <2> SUFFICES ASSUME NEW s \in Mappings, phase'[s] = "open", s \notin pinned'
               PROVE  s \in ToSet(cache') \/ leases'[s] > 0 \/ InFlight(s)'
    BY DEF NoOrphan
  <2>1. phase[s] = "open" /\ s \notin pinned
    BY <1>5
  <2>2. CASE s \in ToSet(cache) \/ leases[s] > 0
    BY <1>2, <1>4, <1>5, <2>2
  <2>3. CASE InFlight(s)
    <3>1. PICK t \in Threads : arg[t].found = s /\ pc[t] \in {"put", "lease"}
      BY <2>3 DEF InFlight
    <3>2. pc'[t] = pc[t] /\ arg'[t] = arg[t]
      BY <2>1, <3>1 DEF Steady
    <3> QED
      BY <3>1, <3>2 DEF InFlight
  <2> QED
    BY <1>1, <2>1, <2>2, <2>3 DEF NoOrphan
<1> QED
  BY <1>6, <1>7, <1>8 DEF FullInv

\* A step that touches neither mappings nor the cache.
LEMMA ElsewhereStep ==
    ASSUME FullInv, Inv', UNCHANGED <<phase, leases, cached, keyOf, pinned, cache>>, Steady
    PROVE  FullInv'
<1>1. Inv /\ CacheInv /\ InHand /\ NoOrphan
  BY DEF FullInv
<1>2. CacheInv'
  BY <1>1 DEF CacheInv
<1>3. InHand'
  BY <1>1 DEF InHand, Steady
<1>4. NoOrphan'
  <2>1. ASSUME NEW s \in Mappings, phase[s] = "open", InFlight(s)
        PROVE  InFlight(s)'
    BY <2>1 DEF InFlight, Steady
  <2> QED
    BY <1>1, <2>1 DEF NoOrphan
<1> QED
  BY <1>2, <1>3, <1>4 DEF FullInv

\* A hit: the entry moves to the end.
LEMMA HitStep ==
    ASSUME FullInv, Inv', NEW t \in Threads, CacheHit(t)
    PROVE  FullInv'
<1>1. Inv /\ CacheInv /\ InHand /\ NoOrphan
  BY DEF FullInv
<1>2. PICK s \in Cached(arg[t].key) :
         /\ phase[s] = "open"
         /\ cache' = Append(Without(cache, {s}), s)
         /\ arg' = [arg EXCEPT ![t].found = s]
  BY DEF CacheHit
<1>3. /\ pc[t] = "get" /\ pc' = [pc EXCEPT ![t] = "lease"]
      /\ UNCHANGED <<phase, leases, cached, keyOf, pinned>>
  BY DEF CacheHit, Go, mapVars
<1>4. s \in Mappings /\ s \in ToSet(cache)
  BY DEF Cached
<1>5. cache \in Seq(Mappings) /\ \A m, n \in DOMAIN cache : keyOf[cache[m]] = keyOf[cache[n]] => m = n
  BY <1>1 DEF CacheInv
<1> DEFINE w == Without(cache, {s})
           K == {i \in DOMAIN cache : cache[i] \notin {s}}
<1>6. w \in Seq(Mappings) /\ ToSet(w) = ToSet(cache) \ {s} /\ Len(w) = Cardinality(K)
  <2>1. w \in Seq(Mappings) /\ \A x : x \in ToSet(w) <=> x \in ToSet(cache) /\ x \notin {s}
    BY <1>5, WithoutFacts
  <2>2. Len(w) = Cardinality(K)
    BY <1>5, WithoutLength
  <2> QED
    BY <2>1, <2>2
<1>7. \A m, n \in DOMAIN w : keyOf[w[m]] = keyOf[w[n]] => m = n
  BY <1>5, WithoutKeeps
<1>8. Len(w) + 1 <= Len(cache)
  <2>1. PICK i \in 1 .. Len(cache) : cache[i] = s
    BY <1>4, <1>5 DEF ToSet
  <2>2. IsFiniteSet(1 .. Len(cache)) /\ Cardinality(1 .. Len(cache)) = Len(cache)
    BY <1>5, FS_Interval
  <2>3. /\ IsFiniteSet((1 .. Len(cache)) \ {i})
        /\ Cardinality((1 .. Len(cache)) \ {i}) = Len(cache) - 1
    BY <2>1, <2>2, FS_RemoveElement
  <2>4. K \in SUBSET ((1 .. Len(cache)) \ {i})
    BY <1>5, <2>1
  <2>5. Cardinality(K) <= Len(cache) - 1
    BY <2>3, <2>4, FS_Subset
  <2>6. Len(w) \in Nat /\ Len(cache) \in Nat
    BY <1>5, <1>6
  <2> QED
    BY <1>6, <2>5, <2>6
<1> HIDE DEF w
<1>9. /\ cache' \in Seq(Mappings) /\ Len(cache') = Len(w) + 1
      /\ \A n \in DOMAIN w : cache'[n] = w[n]
      /\ cache'[Len(w) + 1] = s
      /\ DOMAIN cache' = DOMAIN w \cup {Len(w) + 1}
  <2>1. cache' = Append(w, s)
    BY <1>2 DEF w
  <2>2. w \in Seq(Mappings) /\ s \in Mappings
    BY <1>4, <1>6
  <2> HIDE DEF K
  <2> QED
    BY <2>1, <2>2
<1>10. ToSet(cache') = ToSet(cache)
  <2>1. ToSet(cache') = ToSet(w) \cup {s}
    BY <1>9 DEF ToSet
  <2> QED
    BY <1>4, <1>6, <2>1
<1>11. \A n \in DOMAIN w : keyOf[w[n]] # keyOf[s]
  <2> SUFFICES ASSUME NEW n \in DOMAIN w, keyOf[w[n]] = keyOf[s] PROVE FALSE
    OBVIOUS
  <2>1. w[n] \in ToSet(cache) /\ w[n] # s
    BY <1>6 DEF ToSet
  <2>2. PICK i \in DOMAIN cache, h \in DOMAIN cache : cache[i] = w[n] /\ cache[h] = s
    BY <1>4, <2>1 DEF ToSet
  <2> QED
    BY <1>5, <2>1, <2>2
<1>12. CacheInv'
  <2>1. \A m, n \in DOMAIN cache' : keyOf[cache'[m]] = keyOf[cache'[n]] => m = n
    BY <1>7, <1>9, <1>11
  <2>2. Len(cache') <= Capacity
    BY <1>1, <1>8, <1>9, MappingCacheAssumption DEF CacheInv
  <2> QED
    BY <1>1, <1>3, <1>9, <1>10, <2>1, <2>2 DEF CacheInv
<1>13. /\ \A u \in Threads : u # t => pc'[u] = pc[u] /\ arg'[u] = arg[u]
       /\ pc'[t] = "lease" /\ arg'[t].found = s
  BY <1>1, <1>2, <1>3 DEF Inv, TypeInv, Calls
<1>14. InHand'
  BY <1>1, <1>2, <1>3, <1>4, <1>10, <1>13 DEF InHand
<1>15. NoOrphan'
  BY <1>1, <1>3, <1>10, <1>13 DEF NoOrphan, InFlight
<1> QED
  BY <1>12, <1>14, <1>15 DEF FullInv

\* A lease belongs to a live SharedObject, so its mapping is open.
LEMMA LeasedIsOpen ==
    ASSUME Inv, NEW s \in Mappings, leases[s] # 0
    PROVE  phase[s] = "open"
<1>1. Holders(s) # {}
  BY FS_EmptySet DEF Inv, Counted
<1> QED
  BY <1>1 DEF Inv, LeaseSafety, Holders

\* A new mapping is in the hand of the thread that opened it.
LEMMA RequestStep ==
    ASSUME FullInv, Inv', NEW t \in Threads, Request(t)
    PROVE  FullInv'
<1>1. Inv /\ CacheInv /\ InHand /\ NoOrphan
  BY DEF FullInv
<1>2. PICK s \in Mappings :
         phase[s] = "unused" /\ s = CHOOSE new \in Mappings : phase[new] = "unused"
  BY DEF Request
<1>3. /\ phase' = [phase EXCEPT ![s] = "open"]
      /\ keyOf' = [keyOf EXCEPT ![s] = arg[t].key]
      /\ arg' = [arg EXCEPT ![t].found = s]
      /\ pc[t] = "request"
      /\ pc' = [pc EXCEPT ![t] = IF arg[t].caching /\ Capacity # 0 THEN "put" ELSE "lease"]
      /\ UNCHANGED <<leases, cached, pinned, cache>>
  BY <1>2 DEF Request, Go
<1>4. leases[s] = 0 /\ s \notin ToSet(cache)
  BY <1>1, <1>2, LeasedIsOpen DEF CacheInv
<1>5. /\ arg[t].key \in Keys
      /\ \A r \in Mappings : r # s => phase'[r] = phase[r] /\ keyOf'[r] = keyOf[r]
      /\ phase'[s] = "open" /\ keyOf'[s] = arg[t].key /\ keyOf' \in [Mappings -> Keys]
      /\ \A u \in Threads : u # t => pc'[u] = pc[u] /\ arg'[u] = arg[u]
      /\ arg'[t].found = s /\ arg'[t].key = arg[t].key
      /\ pc'[t] \in {"put", "lease"} /\ (pc'[t] = "put" => Capacity # 0)
      /\ \A u \in Threads : arg[u].found \in Mappings
  BY <1>1, <1>2, <1>3 DEF Inv, TypeInv, Calls, CacheInv
<1>6. CacheInv'
  <2>1. \A n \in DOMAIN cache : cache[n] \in Mappings /\ cache[n] # s
    BY <1>1, <1>4 DEF CacheInv, ToSet
  <2>2. \A m, n \in DOMAIN cache : keyOf'[cache[m]] = keyOf'[cache[n]] => m = n
    BY <1>1, <1>5, <2>1 DEF CacheInv
  <2>3. \A r \in ToSet(cache) : phase'[r] = "open"
    BY <1>1, <1>5, <2>1 DEF CacheInv, ToSet
  <2> QED
    BY <1>1, <1>3, <1>5, <2>2, <2>3 DEF CacheInv
<1>7. \A u \in Threads : u # t /\ pc[u] \in {"put", "lease"} => arg[u].found # s
  BY <1>1, <1>2 DEF InHand
<1>8. InHand'
  <2>1. ASSUME NEW u \in Threads, u # t
        PROVE  LET r == arg'[u].found
               IN  /\ pc'[u] \in {"put", "lease"} => phase'[r] # "unused"
                   /\ pc'[u] = "put" =>
                         /\ Capacity # 0
                         /\ phase'[r] = "open" /\ leases'[r] = 0
                         /\ r \notin ToSet(cache') /\ keyOf'[r] = arg'[u].key
                         /\ \A v \in Threads :
                               v # u /\ pc'[v] \in {"put", "lease"} => arg'[v].found # r
    BY <1>1, <1>3, <1>5, <1>7, <2>1 DEF InHand
  <2>2. \A v \in Threads : v # t /\ pc'[v] \in {"put", "lease"} => arg'[v].found # s
    BY <1>5, <1>7
  <2> QED
    BY <1>3, <1>4, <1>5, <2>1, <2>2 DEF InHand
<1>9. NoOrphan'
  <2>1. InFlight(s)'
    BY <1>5 DEF InFlight
  <2>2. ASSUME NEW r \in Mappings, r # s, InFlight(r) PROVE InFlight(r)'
    BY <1>3, <1>5, <2>2 DEF InFlight
  <2> QED
    BY <1>1, <1>3, <1>5, <2>1, <2>2 DEF NoOrphan
<1> QED
  BY <1>6, <1>8, <1>9 DEF FullInv

\* A lease takes the mapping out of the thread's hand.
LEMMA AcquireStep ==
    ASSUME FullInv, Inv', NEW t \in Threads, Acquire(t)
    PROVE  FullInv'
<1>1. Inv /\ CacheInv /\ InHand /\ NoOrphan
  BY DEF FullInv
<1> DEFINE s == arg[t].found
<1>2. /\ s \in Mappings /\ pc[t] = "lease"
      /\ leases' = [leases EXCEPT ![s] = @ + 1]
      /\ UNCHANGED <<phase, cached, keyOf, pinned, cache>>
  BY <1>1 DEF Acquire, Return, Go, Inv, TypeInv, Calls
<1>3. /\ \A u \in Threads : u # t => pc'[u] = pc[u] /\ arg'[u] = arg[u]
      /\ pc'[t] = "idle"
  BY <1>1 DEF Acquire, Return, Go, Inv, TypeInv
<1>4. /\ \A r \in Mappings : r # s => leases'[r] = leases[r]
      /\ leases'[s] > 0
  BY <1>1, <1>2 DEF Inv, TypeInv
<1> HIDE DEF s
<1>5. CacheInv'
  BY <1>1, <1>2 DEF CacheInv
<1>6. \A u \in Threads : u # t /\ pc[u] = "put" => arg[u].found # s /\ arg[u].found \in Mappings
  BY <1>1, <1>2 DEF InHand, Inv, TypeInv, Calls, s
<1>7. InHand'
  BY <1>1, <1>2, <1>3, <1>4, <1>6 DEF InHand
<1>8. NoOrphan'
  <2>1. ASSUME NEW r \in Mappings, r # s, InFlight(r) PROVE InFlight(r)'
    BY <1>3, <2>1 DEF InFlight, s
  <2> QED
    BY <1>1, <1>2, <1>4, <2>1 DEF NoOrphan
<1> QED
  BY <1>5, <1>7, <1>8 DEF FullInv

\* The end of close(): the last lease closes a mapping that is not cached.
LEMMA CloseEndStep ==
    ASSUME FullInv, Inv', NEW t \in Threads, CloseEnd(t)
    PROVE  FullInv'
<1>1. Inv /\ CacheInv /\ InHand /\ NoOrphan
  BY DEF FullInv
<1>2. PICK s \in Mappings : s = of[arg[t].closing]
  BY <1>1 DEF Inv, TypeInv, Calls
<1>3. /\ pc[t] = "release"
      /\ leases' = [leases EXCEPT ![s] = Released(@)]
      /\ MaybeClose({s}, leases', cached)
      /\ UNCHANGED <<cached, keyOf, cache>>
  BY <1>2 DEF CloseEnd, Return, Go
<1>4. /\ \A u \in Threads : u # t => pc'[u] = pc[u] /\ arg'[u] = arg[u]
      /\ pc'[t] = "idle"
  BY <1>1 DEF CloseEnd, Return, Go, Inv, TypeInv
<1>5. leases[s] # 0
  <2>1. arg[t].closing \in Handles /\ handle[arg[t].closing] = "live"
    BY <1>1, <1>3 DEF Inv, TypeInv, Calls, Closing
  <2> QED
    BY <1>1, <1>2, <2>1, LiveIsLeased DEF Inv
<1>6. \A r \in Mappings : r # s => leases'[r] = leases[r]
  BY <1>1, <1>3 DEF Inv, TypeInv
<1>7. \A r \in Mappings :
         /\ phase'[r] # phase[r] =>
               /\ r = s /\ ~cached[r] /\ phase[r] = "open" /\ phase'[r] = "closed"
         /\ r = s /\ leases'[r] = 0 /\ ~cached[r] /\ phase'[r] = "open" => r \in pinned'
         /\ r \in pinned => r \in pinned'
  <2> DEFINE idle == Idle({s}, leases', cached)
  <2>1. /\ phase' = [r \in Mappings |-> IF r \in idle \ viewed THEN "closed" ELSE phase[r]]
        /\ pinned' = pinned \cup (idle \cap viewed)
    BY <1>3 DEF MaybeClose
  <2>2. \A r : r \in idle <=> r = s /\ phase[r] = "open" /\ leases'[r] = 0 /\ ~cached[r]
    OBVIOUS
  <2> HIDE DEF idle
  <2> QED
    BY <2>1, <2>2
<1>8. \A r \in ToSet(cache) : r \in Mappings /\ cached[r]
  BY <1>1 DEF CacheInv, ToSet
<1>9. CacheInv'
  BY <1>1, <1>3, <1>7, <1>8 DEF CacheInv
<1>10. \A u \in Threads : arg[u].found \in Mappings
  BY <1>1 DEF Inv, TypeInv, Calls
<1>11. \A u \in Threads : pc[u] = "put" => arg[u].found # s
  BY <1>1, <1>5 DEF InHand
<1>12. InHand'
  BY <1>1, <1>3, <1>4, <1>6, <1>7, <1>10, <1>11 DEF InHand
<1>13. NoOrphan'
  <2> SUFFICES ASSUME NEW r \in Mappings, phase'[r] = "open", r \notin pinned'
               PROVE  r \in ToSet(cache) \/ leases'[r] > 0 \/ InFlight(r)'
    BY <1>3 DEF NoOrphan
  <2>1. phase[r] = "open" /\ r \notin pinned
    BY <1>7
  <2>2. InFlight(r) => InFlight(r)'
    BY <1>3, <1>4 DEF InFlight
  <2>3. CASE r = s
    <3>1. leases'[r] \in Nat
      BY DEF Inv, TypeInv
    <3>2. cached[r] => r \in ToSet(cache)
      BY <1>1 DEF CacheInv
    <3> QED
      BY <1>7, <2>3, <3>1, <3>2
  <2>4. CASE r # s
    BY <1>1, <1>6, <2>1, <2>2, <2>4 DEF NoOrphan
  <2> QED
    BY <2>3, <2>4
<1> QED
  BY <1>9, <1>12, <1>13 DEF FullInv

\* _cache_put: the entry of the same key and the oldest entries leave, the new
\* mapping stays.
LEMMA PutStep ==
    ASSUME FullInv, Inv', NEW t \in Threads, CachePut(t)
    PROVE  FullInv'
<1>1. Inv /\ CacheInv /\ InHand /\ NoOrphan
  BY DEF FullInv
<1>2. PICK s \in Mappings, old \in SUBSET Mappings :
         s = arg[t].found /\ old = Cached(arg[t].key)
  BY <1>1 DEF Inv, TypeInv, Calls, Cached
<1> DEFINE q == Without(cache, old)
           entries == Append(q, s)
<1>3. PICK evicted \in SUBSET Mappings : evicted = Evicted(entries)
  <2>1. cache \in Seq(Mappings)
    BY <1>1 DEF CacheInv
  <2>2. q \in Seq(Mappings)
    BY <2>1, WithoutFacts
  <2>3. entries \in Seq(Mappings)
    BY <2>2
  <2> HIDE DEF entries
  <2>4. \A i \in DOMAIN entries : entries[i] \in Mappings
    BY <2>3
  <2>5. Evicted(entries) \in SUBSET Mappings
    BY <2>4 DEF Evicted
  <2> QED
    BY <2>5
<1>4. /\ pc[t] = "put" /\ pc' = [pc EXCEPT ![t] = "lease"]
      /\ cache' = Without(entries, evicted)
      /\ SetCached(old \cup evicted, {s})
      /\ UNCHANGED <<arg, keyOf>>
  BY <1>2, <1>3 DEF CachePut, Go, Leaving
<1>5. /\ Capacity \in Nat /\ Capacity # 0
      /\ phase[s] = "open" /\ leases[s] = 0
      /\ s \notin ToSet(cache) /\ keyOf[s] = arg[t].key
      /\ \A u \in Threads : u # t /\ pc[u] \in {"put", "lease"} => arg[u].found # s
  BY <1>1, <1>2, <1>4, MappingCacheAssumption DEF InHand
<1>6. /\ cache \in Seq(Mappings)
      /\ \A m, n \in DOMAIN cache : keyOf[cache[m]] = keyOf[cache[n]] => m = n
      /\ \A x \in ToSet(cache) : x \in Mappings
      /\ \A u \in Threads : arg[u].found \in Mappings
  <2>1. /\ cache \in Seq(Mappings)
        /\ \A m, n \in DOMAIN cache : keyOf[cache[m]] = keyOf[cache[n]] => m = n
    BY <1>1 DEF CacheInv
  <2>2. \A x \in ToSet(cache) : x \in Mappings
    BY <2>1 DEF ToSet
  <2>3. \A u \in Threads : arg[u].found \in Mappings
    BY <1>1 DEF Inv, TypeInv, Calls
  <2> QED
    BY <2>1, <2>2, <2>3
<1>7. q \in Seq(Mappings) /\ \A x : x \in ToSet(q) <=> x \in ToSet(cache) /\ x \notin old
  BY <1>6, WithoutFacts
<1>8. \A m, n \in DOMAIN q : keyOf[q[m]] = keyOf[q[n]] => m = n
  BY <1>6, WithoutKeeps
<1> HIDE DEF q
<1>9. /\ entries \in Seq(Mappings) /\ Len(entries) = Len(q) + 1
      /\ \A n \in DOMAIN q : entries[n] = q[n]
      /\ entries[Len(q) + 1] = s
      /\ DOMAIN entries = DOMAIN q \cup {Len(q) + 1}
      /\ DOMAIN entries = 1 .. Len(entries) /\ DOMAIN q = 1 .. Len(q) /\ Len(q) \in Nat
  BY <1>7
<1> HIDE DEF entries
<1>10. \A x : x \in ToSet(entries) <=> x \in ToSet(q) \/ x = s
  BY <1>9 DEF ToSet
<1>11. \A n \in DOMAIN q : keyOf[q[n]] # keyOf[s] /\ q[n] # s
  <2> TAKE n \in DOMAIN q
  <2>1. q[n] \in ToSet(cache) /\ q[n] \notin old /\ q[n] \in Mappings
    BY <1>6, <1>7 DEF ToSet
  <2> QED
    BY <1>2, <1>5, <2>1 DEF Cached
<1>12. \A m, n \in DOMAIN entries : keyOf[entries[m]] = keyOf[entries[n]] => m = n
  BY <1>8, <1>9, <1>11
\* The new entry is the last one and not evicted.
<1>13. s \notin evicted
  <2> SUFFICES ASSUME NEW n \in DOMAIN entries, n + Capacity <= Len(entries), entries[n] = s
               PROVE  FALSE
    BY <1>3 DEF Evicted
  <2>1. n \in DOMAIN q
    BY <1>5, <1>9
  <2> QED
    BY <1>9, <1>11, <2>1
<1> DEFINE w == Without(entries, evicted)
<1>14. w \in Seq(Mappings) /\ \A x : x \in ToSet(w) <=> x \in ToSet(entries) /\ x \notin evicted
  BY <1>9, WithoutFacts
<1>15. \A m, n \in DOMAIN w : keyOf[w[m]] = keyOf[w[n]] => m = n
  <2>1. entries \in Seq(Mappings)
    BY <1>9
  <2> QED
    BY <1>12, <2>1, WithoutKeeps
<1>16. Len(w) <= Capacity
  <2> DEFINE K == {i \in DOMAIN entries : entries[i] \notin evicted}
             low == Len(entries) - Capacity + 1
  <2>1. Len(w) = Cardinality(K)
    BY <1>9, WithoutLength
  <2>2. low \in Int /\ Len(entries) \in Nat
    BY <1>5, <1>9
  <2>3. /\ IsFiniteSet(low .. Len(entries))
        /\ Cardinality(low .. Len(entries)) =
              IF low > Len(entries) THEN 0 ELSE Len(entries) - low + 1
    BY <2>2, FS_Interval
  <2>4. K \in SUBSET (low .. Len(entries))
    <3> SUFFICES ASSUME NEW i \in DOMAIN entries, entries[i] \notin evicted
                 PROVE  i \in low .. Len(entries)
      OBVIOUS
    <3>1. ~(i + Capacity <= Len(entries))
      BY <1>3 DEF Evicted
    <3> QED
      BY <1>5, <1>9, <3>1
  <2> HIDE DEF K
  <2>5. Cardinality(K) <= Cardinality(low .. Len(entries))
    BY <2>3, <2>4, FS_Subset
  <2>6. Cardinality(low .. Len(entries)) = Capacity
    BY <1>5, <2>2, <2>3
  <2> QED
    BY <2>1, <2>5, <2>6
<1> HIDE DEF w
<1>17. cache' = w
  BY <1>4 DEF w
<1>18. \A x : x \in ToSet(cache') <=>
          x = s \/ (x \in ToSet(cache) /\ x \notin old \cup evicted)
  BY <1>7, <1>10, <1>13, <1>14, <1>17
<1>19. \A r \in Mappings :
          /\ cached'[r] <=> r = s \/ (r \notin old \cup evicted /\ cached[r])
          /\ phase'[r] # phase[r] =>
                /\ ~cached'[r] /\ leases[r] = 0
                /\ phase[r] = "open" /\ phase'[r] = "closed"
          /\ r \in old \cup evicted /\ r # s /\ phase'[r] = "open" =>
                r \in pinned' \/ leases[r] > 0
          /\ r \in pinned => r \in pinned'
  BY <1>1, <1>4, SetCachedEffect
<1>20. UNCHANGED leases /\ cached' \in [Mappings -> BOOLEAN]
  BY <1>1, <1>4 DEF SetCached, CacheInv
<1>21. CacheInv'
  <2>1. \A r \in Mappings : cached'[r] <=> r \in ToSet(cache')
    BY <1>1, <1>18, <1>19 DEF CacheInv
  <2>2. \A r \in ToSet(cache') : phase'[r] = "open"
    <3> TAKE r \in ToSet(cache')
    <3>1. r \in Mappings /\ phase[r] = "open"
      BY <1>1, <1>5, <1>6, <1>18 DEF CacheInv
    <3> QED
      BY <1>19, <2>1, <3>1
  <2>3. keyOf' \in [Mappings -> Keys]
    BY <1>1, <1>4 DEF CacheInv
  <2> QED
    BY <1>4, <1>14, <1>15, <1>16, <1>17, <1>20, <2>1, <2>2, <2>3 DEF CacheInv
<1>22. /\ \A u \in Threads : u # t => pc'[u] = pc[u]
       /\ pc'[t] = "lease"
  BY <1>1, <1>4 DEF Inv, TypeInv
<1>23. InHand'
  <2>1. ASSUME NEW u \in Threads, pc'[u] \in {"put", "lease"}
        PROVE  phase'[arg[u].found] # "unused"
    <3>1. phase[arg[u].found] # "unused"
      BY <1>1, <1>4, <1>22, <2>1 DEF InHand
    <3> QED
      BY <1>6, <1>19, <3>1
  <2>2. ASSUME NEW u \in Threads, pc'[u] = "put"
        PROVE  /\ u # t /\ pc[u] = "put"
               /\ phase'[arg[u].found] = "open" /\ arg[u].found \notin ToSet(cache')
    <3>1. u # t /\ pc[u] = "put"
      BY <1>22, <2>2
    <3>2. phase[arg[u].found] = "open" /\ arg[u].found \notin ToSet(cache) /\ arg[u].found # s
      BY <1>1, <1>5, <3>1 DEF InHand
    <3>3. arg[u].found \notin ToSet(cache')
      BY <1>18, <3>2
    \* Only a mapping that was in the cache, or a replaced one, may close.
    <3>4. phase'[arg[u].found] = phase[arg[u].found]
      <4>1. old \subseteq ToSet(cache)
        BY <1>2 DEF Cached
      <4>2. evicted \subseteq ToSet(entries)
        BY <1>3 DEF Evicted, ToSet
      <4>3. arg[u].found \notin old \cup evicted
        BY <1>7, <1>10, <3>2, <4>1, <4>2
      <4>4. arg[u].found \notin (old \cup evicted) \cup {s}
        BY <3>2, <4>3
      <4> QED
        BY <1>1, <1>4, <1>6, <4>4, SetCachedEffect
    <3> QED
      BY <3>1, <3>2, <3>3, <3>4
  <2>3. \A u \in Threads : pc'[u] = "put" =>
           /\ leases[arg[u].found] = 0 /\ keyOf[arg[u].found] = arg[u].key
           /\ \A v \in Threads :
                 v # u /\ pc'[v] \in {"put", "lease"} => arg[v].found # arg[u].found
    BY <1>1, <1>4, <1>22, <2>2 DEF InHand
  <2> QED
    BY <1>4, <1>5, <1>20, <2>1, <2>2, <2>3 DEF InHand
<1>24. NoOrphan'
  <2> SUFFICES ASSUME NEW r \in Mappings, phase'[r] = "open", r \notin pinned'
               PROVE  r \in ToSet(cache') \/ leases[r] > 0 \/ InFlight(r)'
    BY <1>20 DEF NoOrphan
  <2>1. phase[r] = "open" /\ r \notin pinned
    BY <1>19
  <2>2. InFlight(r) => InFlight(r)'
    BY <1>4, <1>22 DEF InFlight
  <2>3. r \in ToSet(cache) => r \in ToSet(cache') \/ leases[r] > 0
    BY <1>18, <1>19
  <2> QED
    BY <1>1, <2>1, <2>2, <2>3 DEF NoOrphan
<1> QED
  BY <1>21, <1>23, <1>24 DEF FullInv

LEMMA FullStep == FullInv /\ [Next]_vars => FullInv'
<1> SUFFICES ASSUME FullInv, [Next]_vars PROVE FullInv'
  OBVIOUS
<1>1. Inv /\ Inv' /\ TypeInv
  BY NextInv DEF FullInv, Inv
<1>2. cache \in Seq(Mappings) /\ \A t \in Threads : Cached(arg[t].key) \in SUBSET ToSet(cache)
  BY DEF FullInv, CacheInv, Cached
<1>3. ASSUME NEW t \in Threads, Thread(t) PROVE FullInv'
  <2> USE DEF TypeInv, Steady, Return, Go, mapVars, handleVars, threadVars
  <2>1. ASSUME NEW kk \in Keys, NEW c \in BOOLEAN, Open(t, kk, c) PROVE FullInv'
    BY <1>1, <2>1, ElsewhereStep DEF Open
  <2>2. CASE RequestFails(t)
    BY <1>1, <2>2, ElsewhereStep DEF RequestFails
  <2>3. CASE AcquireFails(t)
    BY <1>1, <2>3, ElsewhereStep DEF AcquireFails
  <2>4. CASE Recover(t)
    BY <1>1, <2>4, ElsewhereStep DEF Recover
  <2>5. ASSUME NEW o \in Objects, Delete(t, o) \/ DeleteUnanswered(t, o) PROVE FullInv'
    BY <1>1, <2>5, ElsewhereStep DEF Delete, DeleteUnanswered
  <2>6. CASE Shut(t)
    BY <1>1, <2>6, ElsewhereStep DEF Shut
  <2>7. ASSUME NEW h \in Handles, CloseBegin(t, h) PROVE FullInv'
    BY <1>1, <2>7, ElsewhereStep DEF CloseBegin
  <2>8. CASE CacheMiss(t)
    <3>1. PICK S \in SUBSET ToSet(cache) :
             cache' = Without(cache, S) /\ SetCached(S, {})
      BY <1>2, <2>8 DEF CacheMiss
    <3>2. UNCHANGED keyOf /\ Steady
      BY <1>1, <2>8 DEF CacheMiss
    <3> QED
      BY <1>1, <3>1, <3>2, RemovalStep
  <2>9. ASSUME NEW O, Clear(O)
        PROVE  \E S \in SUBSET ToSet(cache) :
                  cache' = Without(cache, S) /\ SetCached(S, {})
    BY <2>9 DEF Clear
  <2>10. CASE ClearCache(t) \/ Purge(t) \/ Close(t)
    <3>1. \E O : Clear(O)
      BY <2>10 DEF ClearCache, Purge, Close
    <3>2. PICK S \in SUBSET ToSet(cache) :
             cache' = Without(cache, S) /\ SetCached(S, {})
      BY <2>9, <3>1
    <3>3. UNCHANGED keyOf /\ Steady
      BY <1>1, <2>10 DEF ClearCache, Purge, Close
    <3> QED
      BY <1>1, <3>2, <3>3, RemovalStep
  <2> QED
    BY <1>1, <1>3, <2>1, <2>2, <2>3, <2>4, <2>5, <2>6, <2>7, <2>8, <2>10,
       HitStep, RequestStep, PutStep, AcquireStep, CloseEndStep
    DEF Thread
<1>4. ASSUME NEW h \in Handles, TakeView(h) PROVE FullInv'
  BY <1>1, <1>4, ElsewhereStep DEF TakeView, Steady, threadVars
<1>5. ASSUME NEW s \in Mappings, DropViews(s) PROVE FullInv'
  BY <1>1, <1>5, ElsewhereStep DEF DropViews, Steady, threadVars
<1>6. CASE UNCHANGED vars
  BY <1>1, <1>6, ElsewhereStep DEF vars, Steady, threadVars, mapVars
<1> QED
  BY <1>3, <1>4, <1>5, <1>6 DEF Next

LEMMA FullInvariance == Spec => []FullInv
  BY FullInit, FullStep, PTL DEF Spec

\* The leases of a mapping are at most the SharedObjects that were made.
LEMMA LeasesBounded ==
    ASSUME Inv, NEW s \in Mappings
    PROVE  leases[s] \in 0 .. Cardinality({h \in Handles : handle[h] # "unused"})
<1> DEFINE used == {h \in Handles : handle[h] # "unused"}
<1>1. IsFiniteSet(Handles) /\ used \in SUBSET Handles
  BY MappingCacheAssumption
<1>2. IsFiniteSet(used)
  BY <1>1, FS_Subset
<1>3. Holders(s) \in SUBSET used
  BY DEF Holders
<1>4. Cardinality(Holders(s)) <= Cardinality(used)
  BY <1>2, <1>3, FS_Subset
<1>5. Cardinality(used) \in Nat /\ leases[s] \in Nat /\ leases[s] = Cardinality(Holders(s))
  BY <1>2, FS_CardinalityType DEF Inv, TypeInv, Counted
<1> QED
  BY <1>4, <1>5

\* The flags of the mappings and the dict say the same, every entry is an open
\* mapping, and there are never more than cache_size of them
\* (client.py:292-342).
THEOREM CacheAndFlagsAgree == Spec => []CacheAgrees
<1>1. FullInv => CacheAgrees
  <2> SUFFICES ASSUME FullInv PROVE CacheAgrees
    OBVIOUS
  <2>1. TypeOK
    BY LeasesBounded DEF FullInv, Inv, TypeInv, Steps, CacheInv, TypeOK
  <2> QED
    BY <2>1 DEF FullInv, CacheInv, CacheAgrees
<1> QED
  BY <1>1, FullInvariance, PTL

\* No mapping stays attached without a user, except where an exported view
\* made mmap.close() fail (client.py:42-50).
THEOREM NoMappingIsOrphaned == Spec => []NoOrphan
<1>1. FullInv => NoOrphan
  BY DEF FullInv
<1> QED
  BY <1>1, FullInvariance, PTL
-----------------------------------------------------------------------------
\* A mapping closes only when nobody uses it any more.
Falls ==
    \A s \in Mappings :
        phase'[s] # phase[s] =>
            /\ phase[s] = "open" /\ phase'[s] = "closed"
            /\ ~cached'[s] /\ leases'[s] = 0

LEMMA SetCachedFalls ==
    ASSUME Inv, CacheInv, NEW S, NEW T, SetCached(S, T)
    PROVE  Falls
<1>1. UNCHANGED leases
  BY DEF SetCached
<1> QED
  BY <1>1, SetCachedEffect DEF Falls

LEMMA CloseFalls ==
    ASSUME Inv, NEW t \in Threads, CloseEnd(t)
    PROVE  Falls
<1>1. PICK s : /\ MaybeClose({s}, leases', cached)
               /\ UNCHANGED cached
  BY DEF CloseEnd
<1>2. phase' = [r \in Mappings |->
                   IF r \in Idle({s}, leases', cached) \ viewed THEN "closed" ELSE phase[r]]
  BY <1>1 DEF MaybeClose
<1> QED
  BY <1>1, <1>2 DEF Idle, Falls

\* Every step but a Request lets mappings fall only.
LEMMA OthersFall ==
    ASSUME Inv, CacheInv, [Next]_vars
    PROVE  Falls \/ \E t \in Threads : Request(t)
<1>1. ASSUME UNCHANGED phase PROVE Falls
  BY <1>1 DEF Falls
<1>2. ASSUME NEW t \in Threads, Thread(t), ~Request(t) PROVE Falls
  <2>1. CASE CacheMiss(t)
    <3>1. PICK S : SetCached(S, {})
      BY <2>1 DEF CacheMiss
    <3> QED
      BY <3>1, SetCachedFalls
  <2>2. CASE ClearCache(t) \/ Purge(t) \/ Close(t)
    <3>1. \E O : Clear(O)
      BY <2>2 DEF ClearCache, Purge, Close
    <3>2. PICK S : SetCached(S, {})
      BY <3>1 DEF Clear
    <3> QED
      BY <3>2, SetCachedFalls
  <2>3. CASE CachePut(t)
    <3>1. PICK S, T : SetCached(S, T)
      BY <2>3 DEF CachePut
    <3> QED
      BY <3>1, SetCachedFalls
  <2>4. CASE CloseEnd(t)
    BY <2>4, CloseFalls
  <2>5. ASSUME \/ \E k \in Keys, c \in BOOLEAN : Open(t, k, c)
               \/ CacheHit(t) \/ RequestFails(t) \/ Acquire(t) \/ AcquireFails(t)
               \/ Recover(t) \/ (\E h \in Handles : CloseBegin(t, h))
               \/ (\E o \in Objects : Delete(t, o) \/ DeleteUnanswered(t, o))
               \/ Shut(t)
        PROVE  UNCHANGED phase
    BY <2>5 DEF Open, CacheHit, RequestFails, Acquire, AcquireFails, Recover,
                CloseBegin, Delete, DeleteUnanswered, Shut, mapVars
  <2> QED
    BY <1>1, <1>2, <2>1, <2>2, <2>3, <2>4, <2>5 DEF Thread
<1>3. ASSUME \/ \E h \in Handles : TakeView(h)
             \/ \E s \in Mappings : DropViews(s)
             \/ UNCHANGED vars
      PROVE  UNCHANGED phase
  BY <1>3 DEF TakeView, DropViews, vars, mapVars
<1> QED
  BY <1>1, <1>2, <1>3 DEF Next

\* What a mapping with a user, or without one, looks like.
Used ==
    \A s \in Mappings :
        /\ UsersOf(s) \in SUBSET (Handles \cup {"cache"})
        /\ UsersOf(s) # {} => phase[s] = "open"
        /\ leases[s] = 0 /\ ~cached[s] => UsersOf(s) = {}

LEMMA UsedMappings == FullInv => Used
<1> SUFFICES ASSUME FullInv, NEW s \in Mappings
             PROVE  /\ UsersOf(s) \in SUBSET (Handles \cup {"cache"})
                    /\ UsersOf(s) # {} => phase[s] = "open"
                    /\ leases[s] = 0 /\ ~cached[s] => UsersOf(s) = {}
  BY DEF Used
<1>1. UsersOf(s) = Holders(s) \cup (IF s \in ToSet(cache) THEN {"cache"} ELSE {})
  BY DEF UsersOf, Holders
<1>2. Holders(s) \in SUBSET Handles /\ (Holders(s) # {} => phase[s] = "open")
  BY DEF Holders, FullInv, Inv, LeaseSafety
<1>3. s \in ToSet(cache) => phase[s] = "open" /\ cached[s]
  BY DEF FullInv, CacheInv
<1>4. leases[s] = 0 => Holders(s) = {}
  BY HoldersFinite, FS_EmptySet DEF FullInv, Inv, Counted
<1> QED
  BY <1>1, <1>2, <1>3, <1>4

LEMMA UsedMappingsAfter == FullInv' => Used'
  BY UsedMappings, PTL

\* Init of the cache is Init of the lifetimes.
LEMMA LifetimeInit == Init => Lifetime!Init
<1> SUFFICES ASSUME Init PROVE Lifetime!Init
  OBVIOUS
<1>1. \A s \in Mappings : UsersOf(s) = {}
  BY DEF Init, UsersOf, ToSet
<1> QED
  BY <1>1 DEF Init, Lifetime!Init

\* A step of the cache is a step of the lifetimes, or leaves them alone.
LEMMA LifetimeStep ==
    ASSUME FullInv, FullInv', [Next]_vars
    PROVE  [Lifetime!Next]_(Lifetime!vars)
<1>1. /\ phase \in [Mappings -> {"unused", "open", "closed"}]
      /\ phase' \in [Mappings -> {"unused", "open", "closed"}]
  BY DEF FullInv, Inv, TypeInv
<1>2. \A s \in Mappings :
         /\ UsersOf(s)' \in SUBSET (Handles \cup {"cache"})
         /\ UsersOf(s)' # {} => phase'[s] = "open"
         /\ leases'[s] = 0 /\ ~cached'[s] => UsersOf(s)' = {}
  BY UsedMappingsAfter DEF Used
<1>3. CASE Falls
  <2>1. Lifetime!Change
    BY <1>1, <1>2, <1>3 DEF Lifetime!Change, Falls
  <2> QED
    BY <2>1 DEF Lifetime!Next
<1>4. ASSUME NEW t \in Threads, Request(t) PROVE \E s \in Mappings : Lifetime!Attach(s)
  <2>1. PICK s \in Mappings :
           phase[s] = "unused" /\ phase' = [phase EXCEPT ![s] = "open"]
    BY <1>4 DEF Request
  <2>2. UNCHANGED <<cache, handle, of>>
    BY <1>4 DEF Request, handleVars
  <2>3. \A r \in Mappings : UsersOf(r)' = UsersOf(r)
    BY <2>2 DEF UsersOf
  <2> QED
    BY <2>1, <2>3 DEF Lifetime!Attach
<1>5. Inv /\ CacheInv
  BY DEF FullInv
<1> QED
  BY <1>3, <1>4, <1>5, OthersFall DEF Lifetime!Next

\* The cache and the SharedObjects together keep what _MappingState promises:
\* a mapping goes away with its last user, unless a view pins it, and never
\* before (client.py:16-51).
THEOREM CacheImplementsLifetime == Spec => LifetimeSpec
<1>1. Init => Lifetime!Init
  BY LifetimeInit
<1>2. FullInv /\ FullInv' /\ [Next]_vars => [Lifetime!Next]_(Lifetime!vars)
  BY LifetimeStep
<1> QED
  BY <1>1, <1>2, FullInvariance, PTL DEF Spec, LifetimeSpec, Lifetime!Spec
=============================================================================
