--------------------------- MODULE RegistryProofs ---------------------------
(***************************************************************************)
(* For every number of workers, objects, tokens and descriptors: chains of *)
(* grants only narrow, tokens do not outlive their object, nobody closes a *)
(* descriptor under another object's number, and an answer carries the     *)
(* memory of its object unless that was deleted meanwhile.                 *)
(*                                                                         *)
(* The last two rest on who owns a descriptor.  An object has one stage at *)
(* a time: being created by one worker, registered, taken by Registry.close*)
(* or being closed by one worker; an object id is drawn once (Names).  The *)
(* number in region[o] is open on o's memory until its os.close, and the   *)
(* number of an answer is open, the worker's own, and no region's.         *)
(***************************************************************************)
EXTENDS Registry, WellFoundedInduction, TLAPS

USE DEF NoFd, Free

Steps == {"idle", "ready", "register", "map", "dup", "send", "close", "clear"}
Calls == [object : Objects, create : BOOLEAN, fd : Fds \cup {NoFd}]

TypeInv ==
    /\ objects \subseteq Objects
    /\ region \in [Objects -> Fds \cup {NoFd}]
    /\ status \in [Tokens -> {"free", "listed", "dropped"}]
    /\ token \in [Tokens -> TokenRecords]
    /\ ancestors \in [Tokens -> SUBSET Tokens]
    /\ now \in Time
    /\ table \in [Fds -> Objects \cup {Free}]
    /\ pc \in [Workers -> Steps]
    /\ call \in [Workers -> Calls]
    /\ stopped \in BOOLEAN /\ todo \subseteq Objects /\ shutting \subseteq Objects

\* A token in the ancestry of another was issued, and bounds it: by its
\* deadline, if no NaN came in between.
Bounds(a, k) ==
    Endless(k, a) \/ token[a].expires = NaN \/ token[k].expires <= token[a].expires

Ancestry ==
    \A k \in Tokens : \A a \in ancestors[k] :
        /\ status[a] # "free" /\ status[k] # "free"
        /\ token[k].permissions \subseteq token[a].permissions
        /\ Bounds(a, k)

\* The object ids in use: one with a token was registered once.
Drawn == {token[k].object : k \in {j \in Tokens : status[j] # "free"}}

Names ==
    /\ \A w \in Workers : pc[w] = "register" =>
          /\ call[w].object \notin Drawn
          /\ \A u \in Workers :
                pc[u] = "register" /\ call[u].object = call[w].object => u = w
    /\ \A o \in objects \cup todo \cup shutting : o \in Drawn
    /\ \A w \in Workers :
          pc[w] \in {"map", "dup", "send", "close", "clear"} => call[w].object \in Drawn

\* An object on its way out is in one place.
Stages ==
    /\ \A w \in Workers : pc[w] \in {"close", "clear"} =>
          /\ call[w].object \notin objects \cup todo \cup shutting
          /\ \A u \in Workers :
                pc[u] \in {"close", "clear"} /\ call[u].object = call[w].object => u = w
    /\ \A o \in objects : o \notin todo \cup shutting
    /\ \A o \in todo : o \notin shutting
    /\ ~stopped => todo = {} /\ shutting = {}

\* The objects whose descriptor is still open.
Owners ==
    objects \cup todo
    \cup {call[w].object : w \in {u \in Workers : pc[u] \in {"register", "close"}}}

Memory == \A o \in Owners : region[o] \in Fds /\ table[region[o]] = o

Answers ==
    /\ \A w \in Workers : pc[w] = "send" =>
          /\ call[w].fd \in Fds /\ table[call[w].fd] # Free
          /\ \A o \in Owners : region[o] # call[w].fd
          /\ \A u \in Workers : pc[u] = "send" /\ call[u].fd = call[w].fd => u = w
          /\ call[w].object \in objects => table[call[w].fd] = call[w].object
    /\ \A w \in Workers :
          pc[w] = "dup" /\ call[w].object \in objects =>
              call[w].fd = region[call[w].object]

Inv ==
    TypeInv /\ Ancestry /\ TokensHaveObjects /\ Names /\ Stages /\ Memory /\ Answers

USE DEF Granted, Deadline, Taken, AfterSend, Unregistered, Bounds, Endless
-----------------------------------------------------------------------------
LEMMA InitInv == Init => Inv
<1> SUFFICES ASSUME Init PROVE Inv
  OBVIOUS
<1>1. SomeObject \in Objects
  BY RegistryAssumption DEF SomeObject
<1>2. TypeInv
  <2>1. NoToken \in TokenRecords
    BY <1>1, RegistryAssumption DEF NoToken, TokenRecords, Never, Time, NaN
  <2>2. NoCall \in Calls
    BY <1>1 DEF NoCall, Calls
  <2> QED
    BY <2>1, <2>2 DEF Init, TypeInv, Steps
<1>3. Ancestry /\ TokensHaveObjects /\ Names /\ Stages /\ Memory /\ Answers
  BY DEF Init, Ancestry, TokensHaveObjects, Names, Stages, Memory, Answers, Owners
<1> QED
  BY <1>2, <1>3 DEF Inv

LEMMA NormalizedType ==
    \A p : p \subseteq Permissions => Normalized(p) \subseteq Permissions
  BY DEF Normalized, Permissions

LEMMA LowestFreeType ==
    ASSUME FreeFds # {} PROVE LowestFree \in FreeFds

<1> DEFINE R == OpToRel(<, Nat)
<1>1. IsWellFoundedOn(R, Nat)
  BY NatLessThanWellFounded
<1>2. FreeFds \subseteq Nat /\ FreeFds # {}
  BY RegistryAssumption DEF FreeFds, Fds
<1>3. PICK n \in FreeFds : \A m \in FreeFds : <<m, n>> \notin R
  <2> HIDE DEF R
  <2> QED
    BY <1>1, <1>2, WFMin
<1>4. \A m \in FreeFds : ~(m < n)
  BY <1>2, <1>3 DEF OpToRel
<1>5. \A m \in FreeFds : n <= m
  BY <1>2, <1>4
<1> QED
  BY <1>5 DEF LowestFree
-----------------------------------------------------------------------------
LEMMA OwnersType == TypeInv => Owners \subseteq Objects
  BY DEF TypeInv, Calls, Owners

LEMMA NoCallType == NoCall \in Calls
  BY RegistryAssumption DEF NoCall, SomeObject, Calls

\* A fresh token is one that was free.
LEMMA FreshTokenType ==
    ASSUME \E k \in Tokens : status[k] = "free"
    PROVE  FreshToken \in Tokens /\ status[FreshToken] = "free"
  BY DEF FreshToken
-----------------------------------------------------------------------------
LEMMA StepInv ==
    ASSUME Inv, NEW w \in Workers, Receive(w) \/ Handle(w)
    PROVE  Inv'
<1> USE DEF Go, Return, tokenVars, serverVars
<1>0. TypeInv /\ Ancestry /\ TokensHaveObjects /\ Names /\ Stages /\ Memory /\ Answers
  BY DEF Inv
<1>1. CASE Receive(w)
  <2>1. UNCHANGED <<objects, region, status, token, ancestors, now, table, stopped, todo, shutting>>
    BY <1>1 DEF Receive
  <2>2. /\ pc[w] = "idle"
        /\ \A u \in Workers : pc'[u] = IF u = w THEN "ready" ELSE pc[u]
        /\ call' = call
    BY <1>0, <1>1 DEF Receive, TypeInv, Calls
  <2>3. TypeInv'
    BY <1>0, <1>1, <2>1, NoCallType DEF Receive, TypeInv, Steps, Calls, TokenRecords, Valid
  <2>4. Drawn' = Drawn
    BY <2>1 DEF Drawn
  <2>5. Owners' \subseteq Owners
    BY <2>1, <2>2 DEF Owners
  <2>6. Ancestry' /\ TokensHaveObjects'
    BY <1>0, <2>1 DEF Ancestry, TokensHaveObjects
  <2>7. Names'
    BY <1>0, <2>1, <2>2, <2>4 DEF Names
  <2>8. Stages'
    BY <1>0, <2>1, <2>2 DEF Stages
  <2>9. Memory'
    BY <1>0, <2>1, <2>5 DEF Memory
  <2>10. Answers'
    BY <1>0, <2>1, <2>2, <2>5 DEF Answers
  <2> QED
    BY <2>3, <2>6, <2>7, <2>8, <2>9, <2>10 DEF Inv
<1>2. CASE Answer(w)
  <2>1. UNCHANGED <<objects, region, status, token, ancestors, now, table, stopped, todo, shutting>>
    BY <1>2 DEF Answer
  <2>2. /\ pc[w] = "ready"
        /\ \A u \in Workers : pc'[u] = IF u = w THEN "idle" ELSE pc[u]
        /\ \A u \in Workers : u # w => call'[u] = call[u]
    BY <1>0, <1>2 DEF Answer, TypeInv, Calls
  <2>3. TypeInv'
    BY <1>0, <1>2, <2>1, NoCallType DEF Answer, TypeInv, Steps, Calls, TokenRecords, Valid
  <2>4. Drawn' = Drawn
    BY <2>1 DEF Drawn
  <2>5. Owners' \subseteq Owners
    BY <2>1, <2>2 DEF Owners
  <2>6. Ancestry' /\ TokensHaveObjects'
    BY <1>0, <2>1 DEF Ancestry, TokensHaveObjects
  <2>7. Names'
    BY <1>0, <2>1, <2>2, <2>4 DEF Names
  <2>8. Stages'
    BY <1>0, <2>1, <2>2 DEF Stages
  <2>9. Memory'
    BY <1>0, <2>1, <2>5 DEF Memory
  <2>10. Answers'
    BY <1>0, <2>1, <2>2, <2>5 DEF Answers
  <2> QED
    BY <2>3, <2>6, <2>7, <2>8, <2>9, <2>10 DEF Inv
<1>3. ASSUME NEW k \in Tokens, Open(w, k) PROVE Inv'
  <2>1. UNCHANGED <<objects, region, status, token, ancestors, now, table, stopped, todo, shutting>>
    BY <1>3 DEF Open
  <2>2. /\ pc[w] = "ready"
        /\ \A u \in Workers : pc'[u] = IF u = w THEN "map" ELSE pc[u]
        /\ \A u \in Workers : u # w => call'[u] = call[u]
        /\ call'[w].object = token[k].object
    BY <1>0, <1>3 DEF Open, TypeInv, Calls
  <2>3. TypeInv'
    BY <1>0, <1>3, <2>1, NoCallType DEF Open, TypeInv, Steps, Calls, TokenRecords, Valid
  <2>4. Drawn' = Drawn
    BY <2>1 DEF Drawn
  <2>5. Owners' \subseteq Owners
    BY <2>1, <2>2 DEF Owners
  <2>6. Ancestry' /\ TokensHaveObjects'
    BY <1>0, <2>1 DEF Ancestry, TokensHaveObjects
  <2>7. Names'
    BY <1>0, <2>1, <2>2, <2>4, <1>3 DEF Names, Open, Valid, Drawn
  <2>8. Stages'
    BY <1>0, <2>1, <2>2 DEF Stages
  <2>9. Memory'
    BY <1>0, <2>1, <2>5 DEF Memory
  <2>10. Answers'
    BY <1>0, <2>1, <2>2, <2>5 DEF Answers
  <2> QED
    BY <2>3, <2>6, <2>7, <2>8, <2>9, <2>10 DEF Inv
<1>4. CASE ReadFd(w)
  <2>1. UNCHANGED <<objects, region, status, token, ancestors, now, table, stopped, todo, shutting>>
    BY <1>4 DEF ReadFd
  <2>2. /\ pc[w] = "map"
        /\ \A u \in Workers : pc'[u] = IF u = w THEN "dup" ELSE pc[u]
        /\ \A u \in Workers : u # w => call'[u] = call[u]
        /\ call'[w].object = call[w].object
        /\ call'[w].fd = region[call[w].object]
    BY <1>0, <1>4 DEF ReadFd, TypeInv, Calls
  <2>3. TypeInv'
    BY <1>0, <1>4, <2>1, NoCallType DEF ReadFd, TypeInv, Steps, Calls, TokenRecords, Valid
  <2>4. Drawn' = Drawn
    BY <2>1 DEF Drawn
  <2>5. Owners' \subseteq Owners
    BY <2>1, <2>2 DEF Owners
  <2>6. Ancestry' /\ TokensHaveObjects'
    BY <1>0, <2>1 DEF Ancestry, TokensHaveObjects
  <2>7. Names'
    BY <1>0, <2>1, <2>2, <2>4 DEF Names
  <2>8. Stages'
    BY <1>0, <2>1, <2>2 DEF Stages
  <2>9. Memory'
    BY <1>0, <2>1, <2>5 DEF Memory
  <2>10. Answers'
    BY <1>0, <2>1, <2>2, <2>5 DEF Answers
  <2> QED
    BY <2>3, <2>6, <2>7, <2>8, <2>9, <2>10 DEF Inv
<1>5. CASE DupFails(w)
  <2>1. UNCHANGED <<objects, region, status, token, ancestors, now, table, stopped, todo, shutting>>
    BY <1>5 DEF DupFails
  <2>2. /\ pc[w] = "dup"
        /\ \A u \in Workers : pc'[u] = IF u = w THEN "idle" ELSE pc[u]
        /\ \A u \in Workers : u # w => call'[u] = call[u]
    BY <1>0, <1>5 DEF DupFails, TypeInv, Calls
  <2>3. TypeInv'
    BY <1>0, <1>5, <2>1, NoCallType DEF DupFails, TypeInv, Steps, Calls, TokenRecords, Valid
  <2>4. Drawn' = Drawn
    BY <2>1 DEF Drawn
  <2>5. Owners' \subseteq Owners
    BY <2>1, <2>2 DEF Owners
  <2>6. Ancestry' /\ TokensHaveObjects'
    BY <1>0, <2>1 DEF Ancestry, TokensHaveObjects
  <2>7. Names'
    BY <1>0, <2>1, <2>2, <2>4 DEF Names
  <2>8. Stages'
    BY <1>0, <2>1, <2>2 DEF Stages
  <2>9. Memory'
    BY <1>0, <2>1, <2>5 DEF Memory
  <2>10. Answers'
    BY <1>0, <2>1, <2>2, <2>5 DEF Answers
  <2> QED
    BY <2>3, <2>6, <2>7, <2>8, <2>9, <2>10 DEF Inv
<1>6. ASSUME NEW o \in Objects, CreateRegion(w, o) PROVE Inv'
  <2>1. UNCHANGED <<objects, status, token, ancestors, now, stopped, todo, shutting>>
    BY <1>6 DEF CreateRegion
  <2>2. /\ pc[w] = "ready"
        /\ \A u \in Workers : pc'[u] = IF u = w THEN "register" ELSE pc[u]
        /\ \A u \in Workers : u # w => call'[u] = call[u]
        /\ call'[w].object = o
    BY <1>0, <1>6 DEF CreateRegion, TypeInv, Calls
  <2>3. PICK n \in Fds : /\ table[n] = Free
                         /\ table' = [table EXCEPT ![n] = o]
                         /\ region' = [region EXCEPT ![o] = n]
    BY <1>6, LowestFreeType DEF CreateRegion, FreeFds
  <2>4. TypeInv'
    BY <1>0, <1>6, <2>1, <2>3 DEF CreateRegion, TypeInv, Steps, Calls
  <2>5. Drawn' = Drawn
    BY <2>1 DEF Drawn
  <2>6. /\ o \notin Drawn
        /\ \A u \in Workers : pc[u] = "register" => call[u].object # o
    BY <1>6 DEF CreateRegion, Drawn
  <2>7. o \notin Owners
    BY <1>0, <2>6 DEF Owners, Names
  <2>8. Owners' \subseteq Owners \cup {o}
    BY <2>1, <2>2 DEF Owners
  <2>9. Ancestry' /\ TokensHaveObjects'
    BY <1>0, <2>1 DEF Ancestry, TokensHaveObjects
  <2>10. Names'
    BY <1>0, <2>1, <2>2, <2>5, <2>6 DEF Names
  <2>11. Stages'
    BY <1>0, <2>1, <2>2 DEF Stages
  <2>12. Memory'
    <3>1. \A r \in Owners : /\ region[r] \in Fds /\ region[r] # n
                             /\ region'[r] = region[r]
      BY <1>0, <2>3, <2>7, OwnersType, RegistryAssumption DEF Memory, TypeInv
    <3>2. \A r \in Owners : table'[region'[r]] = r
      BY <1>0, <2>3, <3>1 DEF Memory, TypeInv
    <3>3. region'[o] = n /\ table'[n] = o
      BY <1>0, <2>3 DEF TypeInv
    <3> QED
      BY <2>8, <3>1, <3>2, <3>3 DEF Memory
  <2>13. Answers'
    <3>1. \A u \in Workers : pc'[u] \in {"dup", "send"} =>
             u # w /\ pc[u] = pc'[u] /\ call'[u] = call[u] /\ call[u].object \in Drawn
      BY <1>0, <2>2 DEF Names
    <3>2. \A u \in Workers : pc'[u] = "send" =>
             call[u].fd \in Fds /\ call[u].fd # n /\ table'[call[u].fd] = table[call[u].fd]
      BY <1>0, <2>3, <3>1 DEF Answers, TypeInv
    <3>3. \A r \in Owners' : region'[r] = n \/ (r \in Owners /\ region'[r] = region[r])
      <4>1. Owners \subseteq Objects
        BY <1>0, OwnersType
      <4>2. region'[o] = n /\ \A r \in Objects \ {o} : region'[r] = region[r]
        BY <1>0, <2>3 DEF TypeInv
      <4> QED
        BY <2>8, <4>1, <4>2
    <3>4. \A r \in Drawn : region'[r] = region[r]
      BY <1>0, <2>3, <2>6 DEF TypeInv
    <3> QED
      BY <1>0, <2>1, <3>1, <3>2, <3>3, <3>4 DEF Answers
  <2> QED
    BY <2>4, <2>9, <2>10, <2>11, <2>12, <2>13 DEF Inv
<1>7. CASE Register(w)
  <2>1. UNCHANGED <<region, now, table, call, stopped, todo, shutting>>
    BY <1>7 DEF Register
  <2>2. /\ pc[w] = "register"
        /\ \A u \in Workers : pc'[u] = IF u = w THEN "map" ELSE pc[u]
        /\ objects' = objects \cup {call[w].object}
        /\ call[w].object \in Objects
    BY <1>0, <1>7 DEF Register, TypeInv, Calls
  <2>3. PICK k \in Tokens :
           /\ status[k] = "free"
           /\ status' = [status EXCEPT ![k] = "listed"]
           /\ token' = [token EXCEPT ![k] =
                 [object |-> call[w].object, permissions |-> Permissions,
                  expires |-> Never, revoked |-> FALSE]]
           /\ ancestors' = [ancestors EXCEPT ![k] = {}]
    BY <1>7, FreshTokenType DEF Register, Issue
  <2>4. TypeInv'
    <3>1. [object |-> call[w].object, permissions |-> Permissions,
           expires |-> Never, revoked |-> FALSE] \in TokenRecords
      BY <2>2, RegistryAssumption DEF TokenRecords, Never
    <3>2. objects' \subseteq Objects /\ pc' \in [Workers -> Steps]
      BY <1>0, <1>7, <2>2 DEF TypeInv, Register, Steps
    <3>3. status' \in [Tokens -> {"free", "listed", "dropped"}]
      BY <1>0, <2>3 DEF TypeInv
    <3>4. token' \in [Tokens -> TokenRecords]
      BY <1>0, <2>3, <3>1 DEF TypeInv
    <3>5. ancestors' \in [Tokens -> SUBSET Tokens]
      BY <1>0, <2>3 DEF TypeInv
    <3> QED
      BY <1>0, <2>1, <3>2, <3>3, <3>4, <3>5 DEF TypeInv
  <2>5. Drawn' = Drawn \cup {call[w].object}
    BY <1>0, <2>3 DEF TypeInv, TokenRecords, Drawn
  <2>6. Owners' \subseteq Owners
    BY <2>1, <2>2 DEF Owners
  <2>7. Ancestry'
    BY <1>0, <2>3 DEF Ancestry, TypeInv
  <2>8. TokensHaveObjects'
    BY <1>0, <2>2, <2>3 DEF TokensHaveObjects, TypeInv, TokenRecords
  <2>9. Names'
    BY <1>0, <2>1, <2>2, <2>5 DEF Names
  <2>10. Stages'
    BY <1>0, <2>1, <2>2 DEF Stages, Names
  <2>11. Memory'
    BY <1>0, <2>1, <2>6 DEF Memory
  <2>12. Answers'
    BY <1>0, <2>1, <2>2, <2>6 DEF Answers, Names
  <2> QED
    BY <2>4, <2>7, <2>8, <2>9, <2>10, <2>11, <2>12 DEF Inv
<1>8. CASE Dup(w)
  <2>1. UNCHANGED <<objects, region, status, token, ancestors, now, stopped, todo,
                    shutting>>
    BY <1>8 DEF Dup
  <2>2. PICK n \in Fds : /\ table[n] = Free
                         /\ call[w].fd \in Fds /\ table[call[w].fd] # Free
                         /\ table' = [table EXCEPT ![n] = table[call[w].fd]]
                         /\ call' = [call EXCEPT ![w].fd = n]
    BY <1>8, LowestFreeType DEF Dup, FreeFds
  <2>3. /\ pc[w] = "dup"
        /\ \A u \in Workers : pc'[u] = IF u = w THEN "send" ELSE pc[u]
        /\ \A u \in Workers : u # w => call'[u] = call[u]
        /\ call'[w].object = call[w].object /\ call'[w].fd = n
    BY <1>0, <1>8, <2>2 DEF Dup, TypeInv, Calls
  <2>4. TypeInv'
    BY <1>0, <1>8, <2>1, <2>2 DEF Dup, TypeInv, Steps, Calls
  <2>5. Drawn' = Drawn
    BY <2>1 DEF Drawn
  <2>6. Owners' \subseteq Owners
    BY <2>1, <2>3 DEF Owners
  <2>7. Ancestry' /\ TokensHaveObjects'
    BY <1>0, <2>1 DEF Ancestry, TokensHaveObjects
  <2>8. Names'
    BY <1>0, <2>1, <2>3, <2>5 DEF Names
  <2>9. Stages'
    BY <1>0, <2>1, <2>3 DEF Stages
  <2>10. \A o \in Owners : region[o] \in Fds /\ region[o] # n
    BY <1>0, <2>2, RegistryAssumption DEF Memory, TypeInv, Owners, Calls
  <2>11. Memory'
    BY <1>0, <2>1, <2>2, <2>6, <2>10 DEF Memory, TypeInv
  <2>12. Answers'
    <3>1. call[w].object \in objects => table[call[w].fd] = call[w].object
      BY <1>0, <2>3 DEF Answers, Memory, Owners
    <3>2. \A u \in Workers : pc[u] = "send" =>
             call[u].fd # n /\ table'[call[u].fd] = table[call[u].fd]
      BY <1>0, <2>2 DEF Answers, TypeInv
    <3>3. table'[n] = table[call[w].fd]
      BY <1>0, <2>2 DEF TypeInv
    <3> QED
      BY <1>0, <2>1, <2>2, <2>3, <2>6, <2>10, <3>1, <3>2, <3>3 DEF Answers
  <2> QED
    BY <2>4, <2>7, <2>8, <2>9, <2>11, <2>12 DEF Inv
<1>9. CASE Send(w)
  <2>1. UNCHANGED <<objects, region, status, token, ancestors, now, stopped, todo,
                    shutting>>
    BY <1>9 DEF Send
  <2>2. /\ pc[w] = "send"
        /\ \A u \in Workers : pc'[u] = IF u = w THEN "idle" ELSE pc[u]
        /\ \A u \in Workers : u # w => call'[u] = call[u]
    BY <1>0, <1>9 DEF Send, TypeInv, Calls
  <2>3. call[w].fd \in Fds /\ table' = [table EXCEPT ![call[w].fd] = Free]
    BY <1>0, <1>9, <2>2 DEF Send, Released, Answers
  <2>4. TypeInv'
    BY <1>0, <1>9, <2>1, <2>3, NoCallType DEF Send, TypeInv, Steps
  <2>5. Drawn' = Drawn
    BY <2>1 DEF Drawn
  <2>6. Owners' \subseteq Owners
    BY <2>1, <2>2 DEF Owners
  <2>7. Ancestry' /\ TokensHaveObjects'
    BY <1>0, <2>1 DEF Ancestry, TokensHaveObjects
  <2>8. Names'
    BY <1>0, <2>1, <2>2, <2>5 DEF Names
  <2>9. Stages'
    BY <1>0, <2>1, <2>2 DEF Stages
  <2>10. Memory'
    BY <1>0, <2>1, <2>2, <2>3, <2>6 DEF Memory, Answers, TypeInv
  <2>11. Answers'
    <3>1. \A u \in Workers : u # w /\ pc[u] = "send" =>
             call[u].fd # call[w].fd /\ table'[call[u].fd] = table[call[u].fd]
      BY <1>0, <2>2, <2>3 DEF Answers, TypeInv
    <3> QED
      BY <1>0, <2>1, <2>2, <2>6, <3>1 DEF Answers
  <2> QED
    BY <2>4, <2>7, <2>8, <2>9, <2>10, <2>11 DEF Inv
<1>10. ASSUME NEW k \in Tokens, NEW p \in Requests, NEW d \in Time \cup {Never, NaN},
              Grant(w, k, p, d)
       PROVE  Inv'
  <2>1. UNCHANGED <<objects, region, now, table, stopped, todo, shutting>>
    BY <1>10 DEF Grant
  <2>2. /\ pc[w] = "ready"
        /\ \A u \in Workers : pc'[u] = IF u = w THEN "idle" ELSE pc[u]
        /\ \A u \in Workers : u # w => call'[u] = call[u]
    BY <1>0, <1>10 DEF Grant, TypeInv, Calls
  <2> DEFINE e == Deadline(d, token[k])
             rec == [object |-> token[k].object, permissions |-> Normalized(p),
                     expires |-> e, revoked |-> FALSE]
  <2>3. PICK new \in Tokens :
           /\ status[new] = "free"
           /\ status' = [status EXCEPT ![new] = "listed"]
           /\ token' = [token EXCEPT ![new] = rec]
           /\ ancestors' = [ancestors EXCEPT ![new] = ancestors[k] \cup {k}]
    BY <1>10, FreshTokenType DEF Grant, Issue
  <2>4. /\ status[k] = "listed" /\ token[k] \in TokenRecords
        /\ token[k].object \in objects
        /\ Normalized(p) \subseteq token[k].permissions
    BY <1>0, <1>10 DEF Grant, Valid, TypeInv
  <2>5. /\ e \in Time \cup {Never, NaN}
        /\ e = NaN \/ token[k].expires = NaN \/ e <= token[k].expires
    <3>1. token[k].expires \in Time \cup {Never, NaN}
      BY <2>4 DEF TokenRecords
    <3>2. CASE d = Never \/ Before(token[k].expires, d)
      BY <3>1, <3>2, RegistryAssumption DEF Time, Never
    <3>3. CASE ~(d = Never \/ Before(token[k].expires, d))
      BY <3>1, <3>3, RegistryAssumption DEF Before, Time, Never, NaN
    <3> QED
      BY <3>2, <3>3
  <2>6. rec \in TokenRecords
    BY <2>4, <2>5 DEF TokenRecords
  <2> HIDE DEF e
  <2>7. /\ status' \in [Tokens -> {"free", "listed", "dropped"}]
        /\ token' \in [Tokens -> TokenRecords]
        /\ ancestors' \in [Tokens -> SUBSET Tokens]
    BY <1>0, <2>3, <2>6 DEF TypeInv
  <2>8. TypeInv'
    BY <1>0, <1>10, <2>1, <2>7, NoCallType DEF Grant, TypeInv, Steps
  <2>9. token[k].object \in Drawn /\ Drawn' = Drawn \cup {token[k].object}
    BY <1>0, <2>3, <2>4 DEF TypeInv, Drawn
  <2>10. Owners' \subseteq Owners
    BY <2>1, <2>2 DEF Owners
  <2>11. Ancestry'
    <3> SUFFICES ASSUME NEW j \in Tokens, NEW a \in ancestors'[j]
                 PROVE  /\ status'[a] # "free" /\ status'[j] # "free"
                        /\ token'[j].permissions \subseteq token'[a].permissions
                        /\ Bounds(a, j)'
      BY DEF Ancestry
    <3>0. \A b \in Tokens : b # new =>
             token'[b] = token[b] /\ ancestors'[b] = ancestors[b]
      BY <1>0, <2>3 DEF TypeInv
    <3>1. CASE j = new
      <4>1. /\ ancestors'[j] = ancestors[k] \cup {k} /\ token'[j] = rec
            /\ a \in ancestors[k] \cup {k}
        BY <1>0, <2>3, <3>1 DEF TypeInv
      <4>2. a # new /\ a \in Tokens /\ status[a] # "free"
        BY <1>0, <2>3, <2>4, <4>1 DEF Ancestry, TypeInv
      <4>3. token[k].permissions \subseteq token[a].permissions
        BY <1>0, <2>4, <4>1 DEF Ancestry, TokenRecords
      <4>4. /\ token'[a] = token[a] /\ status'[a] = status[a] /\ status'[j] = "listed"
            /\ token[a] \in TokenRecords
        BY <1>0, <2>3, <3>1, <4>2 DEF TypeInv
      <4>5. Bounds(a, j)'
        <5>1. CASE \E b \in {j} \cup ancestors'[j] :
                      a \in ancestors'[b] /\ token'[b].expires = NaN
          BY <5>1 DEF Bounds, Endless
        <5>2. CASE e # NaN /\ token[a].expires # NaN
                   /\ ~\E b \in {j} \cup ancestors'[j] :
                          a \in ancestors'[b] /\ token'[b].expires = NaN
          <6>1. \A b \in {k} \cup ancestors[k] :
                   ~(a \in ancestors[b] /\ token[b].expires = NaN)
            <7>1. \A b \in {k} \cup ancestors[k] : b \in Tokens /\ b # new
              BY <1>0, <2>3, <2>4 DEF Ancestry, TypeInv
            <7> QED
              BY <3>0, <4>1, <5>2, <7>1
          <6>2. token[k].expires <= token[a].expires
            <7>1. CASE a = k
              BY <4>4, <7>1, RegistryAssumption DEF TokenRecords, Time, Never, NaN
            <7>2. CASE a \in ancestors[k]
              BY <1>0, <5>2, <6>1, <7>2 DEF Ancestry, Bounds, Endless
            <7> QED
              BY <4>1, <7>1, <7>2
          <6>3. token[k].expires # NaN
            BY <4>1, <5>2, <6>1
          <6>4. e <= token[a].expires
            BY <2>4, <2>5, <4>4, <5>2, <6>2, <6>3, RegistryAssumption
            DEF TokenRecords, Time, Never, NaN
          <6> QED
            BY <4>1, <4>4, <6>4 DEF Bounds
        <5>3. CASE e = NaN
          BY <4>1, <5>3 DEF Bounds, Endless
        <5>4. CASE token[a].expires = NaN
          BY <4>4, <5>4 DEF Bounds
        <5> QED
          BY <5>1, <5>2, <5>3, <5>4
      <4> QED
        BY <2>4, <4>1, <4>2, <4>3, <4>4, <4>5
    <3>2. CASE j # new
      <4>1. a \in ancestors[j]
        BY <1>0, <2>3, <3>2 DEF TypeInv
      <4>2. /\ status[a] # "free" /\ a # new /\ a \in Tokens
            /\ \A b \in {j} \cup ancestors[j] : b \in Tokens /\ b # new
        BY <1>0, <2>3, <3>2, <4>1 DEF Ancestry, TypeInv
      <4>3. Bounds(a, j)' <=> Bounds(a, j)
        BY <3>0, <3>2, <4>2 DEF Bounds, Endless
      <4> QED
        BY <1>0, <2>3, <3>2, <4>1, <4>2, <4>3 DEF Ancestry, TypeInv
    <3> QED
      BY <3>1, <3>2
  <2>12. TokensHaveObjects'
    BY <1>0, <2>1, <2>3, <2>4 DEF TokensHaveObjects, TypeInv
  <2>13. Names'
    BY <1>0, <2>1, <2>2, <2>9 DEF Names
  <2>14. Stages'
    BY <1>0, <2>1, <2>2 DEF Stages
  <2>15. Memory'
    BY <1>0, <2>1, <2>10 DEF Memory
  <2>16. Answers'
    BY <1>0, <2>1, <2>2, <2>10 DEF Answers
  <2> QED
    BY <2>8, <2>11, <2>12, <2>13, <2>14, <2>15, <2>16 DEF Inv
<1>11. ASSUME NEW k \in Tokens, NEW target \in Tokens, Revoke(w, k, target) PROVE Inv'
  <2>1. UNCHANGED <<objects, region, status, ancestors, now, table, stopped, todo,
                    shutting>>
    BY <1>11 DEF Revoke
  <2>2. /\ pc[w] = "ready"
        /\ \A u \in Workers : pc'[u] = IF u = w THEN "idle" ELSE pc[u]
        /\ \A u \in Workers : u # w => call'[u] = call[u]
    BY <1>0, <1>11 DEF Revoke, TypeInv, Calls
  <2>3. /\ token' \in [Tokens -> TokenRecords]
        /\ \A j \in Tokens : /\ token'[j].object = token[j].object
                             /\ token'[j].permissions = token[j].permissions
                             /\ token'[j].expires = token[j].expires
    BY <1>0, <1>11 DEF Revoke, TypeInv, TokenRecords
  <2>4. TypeInv'
    BY <1>0, <1>11, <2>1, <2>3, NoCallType DEF Revoke, TypeInv, Steps
  <2>5. Drawn' = Drawn
    BY <2>1, <2>3 DEF Drawn
  <2>6. Owners' \subseteq Owners
    BY <2>1, <2>2 DEF Owners
  <2>7. Ancestry' /\ TokensHaveObjects'
    BY <1>0, <2>1, <2>3 DEF Ancestry, TokensHaveObjects, TypeInv
  <2>8. Names'
    BY <1>0, <2>1, <2>2, <2>5 DEF Names
  <2>9. Stages'
    BY <1>0, <2>1, <2>2 DEF Stages
  <2>10. Memory'
    BY <1>0, <2>1, <2>6 DEF Memory
  <2>11. Answers'
    BY <1>0, <2>1, <2>2, <2>6 DEF Answers
  <2> QED
    BY <2>4, <2>7, <2>8, <2>9, <2>10, <2>11 DEF Inv
<1>12. ASSUME NEW k \in Tokens, Delete(w, k) PROVE Inv'
  <2>1. UNCHANGED <<region, token, ancestors, now, table, stopped, todo, shutting>>
    BY <1>12 DEF Delete
  <2>2. PICK o \in objects : o = token[k].object /\ status[k] = "listed"
    BY <1>12 DEF Delete, Valid
  <2>3. /\ pc[w] = "ready"
        /\ \A u \in Workers : pc'[u] = IF u = w THEN "close" ELSE pc[u]
        /\ \A u \in Workers : u # w => call'[u] = call[u]
        /\ call'[w].object = o
        /\ objects' = objects \ {o}
    BY <1>0, <1>12, <2>2 DEF Delete, TypeInv, Calls
  <2>4. \A j \in Tokens :
           status'[j] = IF status[j] = "listed" /\ token[j].object = o
                        THEN "dropped" ELSE status[j]
    BY <1>12, <2>2 DEF Delete, Drop
  <2>5. TypeInv'
    <3>1. status' \in [Tokens -> {"free", "listed", "dropped"}]
      BY <1>0, <1>12 DEF Delete, Drop, TypeInv
    <3> QED
      BY <1>0, <1>12, <2>1, <2>2, <2>3, <3>1 DEF Delete, TypeInv, Steps, Calls
  <2>6. o \in Drawn /\ Drawn' = Drawn
    BY <2>1, <2>2, <2>4 DEF Drawn
  <2>7. Owners' \subseteq Owners
    BY <2>1, <2>2, <2>3 DEF Owners
  <2>8. Ancestry'
    BY <1>0, <2>1, <2>4 DEF Ancestry, TypeInv
  <2>9. TokensHaveObjects'
    BY <1>0, <2>1, <2>3, <2>4 DEF TokensHaveObjects
  <2>10. Names'
    BY <1>0, <2>1, <2>3, <2>6 DEF Names
  <2>11. Stages'
    BY <1>0, <2>1, <2>2, <2>3 DEF Stages
  <2>12. Memory'
    BY <1>0, <2>1, <2>7 DEF Memory
  <2>13. Answers'
    BY <1>0, <2>1, <2>3, <2>7 DEF Answers
  <2> QED
    BY <2>5, <2>8, <2>9, <2>10, <2>11, <2>12, <2>13 DEF Inv
<1>13. CASE CloseFd(w)
  <2>1. UNCHANGED <<objects, region, status, token, ancestors, now, call, stopped, todo,
                    shutting>>
    BY <1>13 DEF CloseFd
  <2>2. PICK o \in Objects : o = call[w].object
    BY <1>0 DEF TypeInv, Calls
  <2>3. /\ pc[w] = "close"
        /\ \A u \in Workers : pc'[u] = IF u = w THEN "clear" ELSE pc[u]
    BY <1>0, <1>13 DEF CloseFd, TypeInv
  <2>4. o \in Owners /\ region[o] \in Fds /\ table[region[o]] = o
    BY <1>0, <2>2, <2>3 DEF Owners, Memory
  <2>5. table' = [table EXCEPT ![region[o]] = Free]
    BY <1>13, <2>2, <2>4 DEF CloseFd, Released
  <2>6. TypeInv'
    BY <1>0, <1>13, <2>1, <2>5 DEF CloseFd, TypeInv, Steps
  <2>7. Drawn' = Drawn
    BY <2>1 DEF Drawn
  <2>8. Owners' \subseteq Owners
    BY <2>1, <2>3 DEF Owners
  <2>9. o \notin Owners'
    BY <1>0, <2>1, <2>2, <2>3 DEF Owners, Stages, Names
  <2>10. Ancestry' /\ TokensHaveObjects'
    BY <1>0, <2>1 DEF Ancestry, TokensHaveObjects
  <2>11. Names'
    BY <1>0, <2>1, <2>3, <2>7 DEF Names
  <2>12. Stages'
    BY <1>0, <2>1, <2>3 DEF Stages
  <2>13. Memory'
    BY <1>0, <2>1, <2>4, <2>5, <2>8, <2>9 DEF Memory, TypeInv
  <2>14. Answers'
    <3>1. \A u \in Workers : pc[u] = "send" => table'[call[u].fd] = table[call[u].fd]
      BY <1>0, <2>4, <2>5 DEF Answers, TypeInv
    <3> QED
      BY <1>0, <2>1, <2>3, <2>8, <3>1 DEF Answers
  <2> QED
    BY <2>6, <2>10, <2>11, <2>12, <2>13, <2>14 DEF Inv
<1>14. CASE ClearFd(w)
  <2>1. UNCHANGED <<objects, status, token, ancestors, now, table, stopped, todo,
                    shutting>>
    BY <1>14 DEF ClearFd
  <2>2. PICK o \in Objects : o = call[w].object
    BY <1>0 DEF TypeInv, Calls
  <2>3. /\ pc[w] = "clear"
        /\ \A u \in Workers : pc'[u] = IF u = w THEN "idle" ELSE pc[u]
        /\ \A u \in Workers : u # w => call'[u] = call[u]
        /\ region' = [region EXCEPT ![o] = NoFd]
    BY <1>0, <1>14, <2>2 DEF ClearFd, TypeInv, Calls
  <2>4. TypeInv'
    BY <1>0, <1>14, <2>1, <2>3, NoCallType DEF ClearFd, TypeInv, Steps
  <2>5. Drawn' = Drawn
    BY <2>1 DEF Drawn
  <2>6. Owners' \subseteq Owners
    BY <2>1, <2>3 DEF Owners
  <2>7. o \notin Owners
    BY <1>0, <2>2, <2>3 DEF Owners, Stages, Names
  <2>8. \A r \in Owners : region'[r] = region[r]
    BY <1>0, <2>3, <2>7, OwnersType DEF TypeInv
  <2>9. Ancestry' /\ TokensHaveObjects'
    BY <1>0, <2>1 DEF Ancestry, TokensHaveObjects
  <2>10. Names'
    BY <1>0, <2>1, <2>3, <2>5 DEF Names
  <2>11. Stages'
    BY <1>0, <2>1, <2>3 DEF Stages
  <2>12. Memory'
    BY <1>0, <2>1, <2>6, <2>8 DEF Memory
  <2>13. Answers'
    <3>1. objects \subseteq Owners
      BY DEF Owners
    <3> QED
      BY <1>0, <2>1, <2>3, <2>6, <2>8, <3>1 DEF Answers
  <2> QED
    BY <2>4, <2>9, <2>10, <2>11, <2>12, <2>13 DEF Inv
<1> QED
  BY <1>1, <1>2, <1>3, <1>4, <1>5, <1>6, <1>7, <1>8, <1>9, <1>10, <1>11, <1>12,
     <1>13, <1>14
  DEF Handle
-----------------------------------------------------------------------------
\* The steps of the server's thread and of the clock.
LEMMA ServerInv ==
    ASSUME Inv, Shutdown \/ Closer \/ Clock
    PROVE  Inv'
<1> USE DEF tokenVars, serverVars
<1>0. TypeInv /\ Ancestry /\ TokensHaveObjects /\ Names /\ Stages /\ Memory /\ Answers
  BY DEF Inv
<1>1. CASE Shutdown
  <2>1. UNCHANGED <<region, token, ancestors, now, table, pc, call, shutting>>
    BY <1>1 DEF Shutdown
  <2>2. ~stopped /\ stopped' = TRUE /\ objects' = {} /\ todo' = objects
    BY <1>1 DEF Shutdown
  <2>3. \A k \in Tokens :
           status'[k] = IF status[k] = "listed" /\ token[k].object \in Objects
                        THEN "dropped" ELSE status[k]
    BY <1>1 DEF Shutdown, Drop
  <2>4. TypeInv'
    <3>1. status' \in [Tokens -> {"free", "listed", "dropped"}]
      BY <1>0, <1>1 DEF Shutdown, Drop, TypeInv
    <3> QED
      BY <1>0, <2>1, <2>2, <3>1 DEF TypeInv
  <2>5. Drawn' = Drawn
    BY <2>1, <2>3 DEF Drawn
  <2>6. Owners' \subseteq Owners
    BY <2>1, <2>2 DEF Owners
  <2>7. Ancestry'
    BY <1>0, <2>1, <2>3 DEF Ancestry, TypeInv
  <2>8. TokensHaveObjects'
    BY <1>0, <2>1, <2>3 DEF TokensHaveObjects, TypeInv, TokenRecords
  <2>9. Names'
    BY <1>0, <2>1, <2>2, <2>5 DEF Names
  <2>10. Stages'
    BY <1>0, <2>1, <2>2 DEF Stages
  <2>11. Memory'
    BY <1>0, <2>1, <2>6 DEF Memory
  <2>12. Answers'
    BY <1>0, <2>1, <2>2, <2>6 DEF Answers
  <2> QED
    BY <2>4, <2>7, <2>8, <2>9, <2>10, <2>11, <2>12 DEF Inv
<1>2. ASSUME NEW o \in Objects, ShutRegion(o) PROVE Inv'
  <2>1. UNCHANGED <<objects, region, status, token, ancestors, now, pc, call, stopped>>
    BY <1>2 DEF ShutRegion
  <2>2. /\ o \in todo /\ shutting = {}
        /\ todo' = todo \ {o} /\ shutting' = {o}
    BY <1>2 DEF ShutRegion
  <2>3. o \in Owners /\ region[o] \in Fds /\ table[region[o]] = o
    BY <1>0, <2>2 DEF Owners, Memory
  <2>4. table' = [table EXCEPT ![region[o]] = Free]
    BY <1>2, <2>3 DEF ShutRegion, Released
  <2>5. TypeInv'
    BY <1>0, <2>1, <2>2, <2>4 DEF TypeInv
  <2>6. Drawn' = Drawn
    BY <2>1 DEF Drawn
  <2>7. Owners' \subseteq Owners
    BY <2>1, <2>2 DEF Owners
  <2>8. o \notin Owners'
    BY <1>0, <2>1, <2>2 DEF Owners, Stages, Names
  <2>9. Ancestry' /\ TokensHaveObjects'
    BY <1>0, <2>1 DEF Ancestry, TokensHaveObjects
  <2>10. Names'
    BY <1>0, <2>1, <2>2, <2>6 DEF Names
  <2>11. Stages'
    BY <1>0, <2>1, <2>2 DEF Stages
  <2>12. Memory'
    BY <1>0, <2>1, <2>3, <2>4, <2>7, <2>8 DEF Memory, TypeInv
  <2>13. Answers'
    <3>1. \A u \in Workers : pc[u] = "send" => table'[call[u].fd] = table[call[u].fd]
      BY <1>0, <2>3, <2>4 DEF Answers, TypeInv
    <3> QED
      BY <1>0, <2>1, <2>7, <3>1 DEF Answers
  <2> QED
    BY <2>5, <2>9, <2>10, <2>11, <2>12, <2>13 DEF Inv
<1>3. ASSUME NEW o \in Objects, ForgetRegion(o) PROVE Inv'
  <2>1. UNCHANGED <<objects, status, token, ancestors, now, table, pc, call, stopped,
                    todo>>
    BY <1>3 DEF ForgetRegion
  <2>2. /\ o \in shutting /\ shutting' = {}
        /\ region' = [region EXCEPT ![o] = NoFd]
    BY <1>3 DEF ForgetRegion
  <2>3. TypeInv'
    BY <1>0, <2>1, <2>2 DEF TypeInv
  <2>4. Drawn' = Drawn /\ Owners' = Owners
    BY <2>1 DEF Drawn, Owners
  <2>5. o \notin Owners
    BY <1>0, <2>2 DEF Owners, Stages, Names
  <2>6. \A r \in Owners : region'[r] = region[r]
    BY <1>0, <2>2, <2>5, OwnersType DEF TypeInv
  <2>7. Ancestry' /\ TokensHaveObjects'
    BY <1>0, <2>1 DEF Ancestry, TokensHaveObjects
  <2>8. Names'
    BY <1>0, <2>1, <2>2, <2>4 DEF Names
  <2>9. Stages'
    BY <1>0, <2>1, <2>2 DEF Stages
  <2>10. Memory'
    BY <1>0, <2>1, <2>4, <2>6 DEF Memory
  <2>11. Answers'
    <3>1. objects \subseteq Owners
      BY DEF Owners
    <3> QED
      BY <1>0, <2>1, <2>4, <2>6, <3>1 DEF Answers
  <2> QED
    BY <2>3, <2>7, <2>8, <2>9, <2>10, <2>11 DEF Inv
<1>4. CASE Clock
  BY <1>0, <1>4
  DEF Clock, Inv, TypeInv, Ancestry, TokensHaveObjects, Names, Drawn, Stages, Memory,
      Owners, Answers
<1> QED
  BY <1>1, <1>2, <1>3, <1>4 DEF Closer

LEMMA NextInv == Inv /\ [Next]_vars => Inv'
<1>1. ASSUME Inv, UNCHANGED vars PROVE Inv'
  BY <1>1
  DEF vars, tokenVars, serverVars, Inv, TypeInv, Ancestry, TokensHaveObjects, Names,
      Drawn, Stages, Memory, Owners, Answers
<1> QED
  BY <1>1, StepInv, ServerInv DEF Next

LEMMA Invariance == Spec => []Inv
  BY InitInv, NextInv, PTL DEF Spec
-----------------------------------------------------------------------------
\* The converse of Memory and Answers: an open descriptor has an owner, or is
\* an answer's.
Sending == {w \in Workers : pc[w] = "send"}
Owned ==
    \A n \in Fds : table[n] # Free =>
        (\E o \in Owners : region[o] = n) \/ (\E w \in Sending : call[w].fd = n)

LEMMA StepOwned ==
    ASSUME Inv, Owned, NEW w \in Workers, Receive(w) \/ Handle(w)
    PROVE  Owned'
<1> USE DEF Go, Return, tokenVars, serverVars
<1>0. TypeInv /\ Names /\ Memory /\ Answers
  BY DEF Inv
<1>1. CASE \/ Receive(w) \/ Answer(w) \/ ReadFd(w) \/ DupFails(w)
           \/ \E k \in Tokens : Open(w, k)
           \/ \E k \in Tokens, p \in Requests, d \in Time \cup {Never, NaN} : Grant(w, k, p, d)
           \/ \E k, target \in Tokens : Revoke(w, k, target)
  <2>1. UNCHANGED <<objects, region, table, todo>>
    BY <1>1 DEF Receive, Answer, ReadFd, DupFails, Open, Grant, Revoke
  <2>2. /\ pc[w] \in {"idle", "ready", "map", "dup"}
        /\ \A u \in Workers : u # w => pc'[u] = pc[u] /\ call'[u] = call[u]
    BY <1>0, <1>1 DEF Receive, Answer, ReadFd, DupFails, Open, Grant, Revoke, TypeInv
  <2>3. Owners \subseteq Owners'
    BY <2>1, <2>2 DEF Owners
  <2> QED
    BY <2>1, <2>2, <2>3 DEF Owned, Sending
<1>2. ASSUME NEW o \in Objects, CreateRegion(w, o) PROVE Owned'
  <2>1. PICK n \in Fds : /\ table' = [table EXCEPT ![n] = o]
                         /\ region' = [region EXCEPT ![o] = n]
    BY <1>2, LowestFreeType DEF CreateRegion, FreeFds
  <2>2. /\ pc[w] = "ready" /\ pc'[w] = "register" /\ call'[w].object = o
        /\ \A u \in Workers : u # w => pc'[u] = pc[u] /\ call'[u] = call[u]
        /\ UNCHANGED <<objects, todo>>
    BY <1>0, <1>2 DEF CreateRegion, TypeInv, Calls
  <2>3. Owners \subseteq Owners' /\ o \in Owners'
    BY <2>2 DEF Owners
  <2>4. o \notin Owners
    BY <1>0, <1>2 DEF CreateRegion, Owners, Names, Drawn
  <2>5. region'[o] = n /\ \A r \in Owners : region'[r] = region[r]
    BY <1>0, <2>1, <2>4, OwnersType DEF TypeInv
  <2>6. \A m \in Fds : m # n => table'[m] = table[m]
    BY <1>0, <2>1 DEF TypeInv
  <2> QED
    BY <2>2, <2>3, <2>5, <2>6 DEF Owned, Sending
<1>3. CASE Register(w)
  <2>1. /\ pc[w] = "register" /\ objects' = objects \cup {call[w].object}
        /\ \A u \in Workers : u # w => pc'[u] = pc[u]
        /\ UNCHANGED <<region, table, call, todo>>
    BY <1>0, <1>3 DEF Register, TypeInv
  <2>2. Owners \subseteq Owners'
    BY <2>1 DEF Owners
  <2> QED
    BY <2>1, <2>2 DEF Owned, Sending
<1>4. CASE Dup(w)
  <2>1. PICK n \in Fds : /\ table' = [table EXCEPT ![n] = table[call[w].fd]]
                         /\ call' = [call EXCEPT ![w].fd = n]
    BY <1>4, LowestFreeType DEF Dup, FreeFds
  <2>2. /\ pc[w] = "dup" /\ pc'[w] = "send" /\ call'[w].fd = n
        /\ \A u \in Workers : u # w => pc'[u] = pc[u] /\ call'[u] = call[u]
        /\ UNCHANGED <<objects, region, todo>>
    BY <1>0, <1>4, <2>1 DEF Dup, TypeInv, Calls
  <2>3. Owners \subseteq Owners'
    BY <2>2 DEF Owners
  <2>4. \A m \in Fds : m # n => table'[m] = table[m]
    BY <1>0, <2>1 DEF TypeInv
  <2> QED
    BY <2>2, <2>3, <2>4 DEF Owned, Sending
<1>5. CASE Send(w)
  <2>1. call[w].fd \in Fds /\ table' = [table EXCEPT ![call[w].fd] = Free]
    BY <1>0, <1>5 DEF Send, Released, Answers
  <2>2. /\ pc[w] = "send"
        /\ \A u \in Workers : u # w => pc'[u] = pc[u] /\ call'[u] = call[u]
        /\ UNCHANGED <<objects, region, todo>>
    BY <1>0, <1>5 DEF Send, TypeInv
  <2>3. Owners \subseteq Owners'
    BY <2>2 DEF Owners
  <2>4. \A m \in Fds : table'[m] # Free => table'[m] = table[m] /\ m # call[w].fd
    BY <1>0, <2>1 DEF TypeInv
  <2> QED
    BY <2>2, <2>3, <2>4 DEF Owned, Sending
<1>6. ASSUME NEW k \in Tokens, Delete(w, k) PROVE Owned'
  <2>1. /\ pc[w] = "ready" /\ pc'[w] = "close" /\ call'[w].object = token[k].object
        /\ objects' = objects \ {token[k].object}
        /\ \A u \in Workers : u # w => pc'[u] = pc[u] /\ call'[u] = call[u]
        /\ UNCHANGED <<region, table, todo>>
    BY <1>0, <1>6 DEF Delete, TypeInv, Calls
  <2>2. Owners \subseteq Owners'
    BY <2>1 DEF Owners
  <2> QED
    BY <2>1, <2>2 DEF Owned, Sending
<1>7. CASE CloseFd(w)
  <2>1. /\ pc[w] = "close" /\ call[w].object \in Owners
        /\ \A u \in Workers : u # w => pc'[u] = pc[u]
        /\ UNCHANGED <<objects, region, todo, call>>
    BY <1>0, <1>7 DEF CloseFd, TypeInv, Owners
  <2>2. Owners \subseteq Owners' \cup {call[w].object}
    BY <2>1 DEF Owners
  <2>3. table' = [table EXCEPT ![region[call[w].object]] = Free]
    BY <1>0, <1>7, <2>1 DEF CloseFd, Released, Memory
  <2>4. \A m \in Fds : table'[m] # Free =>
           table'[m] = table[m] /\ m # region[call[w].object]
    BY <1>0, <2>1, <2>3 DEF TypeInv, Memory
  <2> QED
    BY <2>1, <2>2, <2>4 DEF Owned, Sending
<1>8. CASE ClearFd(w)
  <2>1. /\ pc[w] = "clear" /\ region' = [region EXCEPT ![call[w].object] = NoFd]
        /\ \A u \in Workers : u # w => pc'[u] = pc[u] /\ call'[u] = call[u]
        /\ UNCHANGED <<objects, table, todo>>
    BY <1>0, <1>8 DEF ClearFd, TypeInv
  <2>2. Owners \subseteq Owners'
    BY <2>1 DEF Owners
  <2>3. call[w].object \notin Owners
    BY <1>0, <2>1 DEF Owners, Inv, Stages, Names
  <2>4. \A r \in Owners : region'[r] = region[r]
    BY <1>0, <2>1, <2>3, OwnersType DEF TypeInv
  <2> QED
    BY <2>1, <2>2, <2>4 DEF Owned, Sending
<1> QED
  BY <1>1, <1>2, <1>3, <1>4, <1>5, <1>6, <1>7, <1>8 DEF Handle

LEMMA ServerOwned ==
    ASSUME Inv, Owned, Shutdown \/ Closer \/ Clock
    PROVE  Owned'
<1> USE DEF tokenVars, serverVars
<1>0. TypeInv /\ Names /\ Stages /\ Memory
  BY DEF Inv
<1>1. CASE Shutdown \/ Clock
  <2>1. Owners \subseteq Owners' /\ UNCHANGED <<region, table, pc, call>>
    BY <1>0, <1>1 DEF Shutdown, Clock, Stages, Owners
  <2> QED
    BY <2>1 DEF Owned, Sending
<1>2. ASSUME NEW o \in Objects, ShutRegion(o) PROVE Owned'
  <2>1. /\ o \in Owners /\ todo' = todo \ {o} /\ UNCHANGED <<objects, region, pc, call>>
    BY <1>2 DEF ShutRegion, Owners
  <2>2. Owners \subseteq Owners' \cup {o}
    BY <2>1 DEF Owners
  <2>3. table' = [table EXCEPT ![region[o]] = Free]
    BY <1>0, <1>2, <2>1 DEF ShutRegion, Released, Memory
  <2>4. \A m \in Fds : table'[m] # Free => table'[m] = table[m] /\ m # region[o]
    BY <1>0, <2>1, <2>3 DEF TypeInv, Memory
  <2> QED
    BY <2>1, <2>2, <2>4 DEF Owned, Sending
<1>3. ASSUME NEW o \in Objects, ForgetRegion(o) PROVE Owned'
  <2>1. /\ o \in shutting /\ region' = [region EXCEPT ![o] = NoFd]
        /\ UNCHANGED <<objects, todo, table, pc, call>>
    BY <1>3 DEF ForgetRegion
  <2>2. Owners' = Owners /\ o \notin Owners
    BY <1>0, <2>1 DEF Owners, Stages, Names
  <2>3. \A r \in Owners : region'[r] = region[r]
    BY <1>0, <2>1, <2>2, OwnersType DEF TypeInv
  <2> QED
    BY <2>1, <2>2, <2>3 DEF Owned, Sending
<1> QED
  BY <1>1, <1>2, <1>3 DEF Closer

\* What the type invariant adds to TypeInv.
Normal ==
    /\ known \subseteq Tokens
    /\ \A k \in Tokens : token[k].permissions = Normalized(token[k].permissions)

LEMMA NormalizedTwice ==
    /\ \A p : Normalized(Normalized(p)) = Normalized(p)
    /\ Normalized(Permissions) = Permissions /\ Normalized({}) = {}
  BY DEF Normalized, Permissions

LEMMA NextNormal == Inv /\ Normal /\ [Next]_vars => Normal'
<1> SUFFICES ASSUME Inv, Normal, [Next]_vars PROVE Normal'
  OBVIOUS
<1>0. token \in [Tokens -> TokenRecords]
  BY DEF Inv, TypeInv
<1>1. ASSUME UNCHANGED <<token, known>> PROVE Normal'
  BY <1>1 DEF Normal
<1>2. ASSUME NEW w \in Workers, Receive(w) \/ Handle(w) PROVE Normal'
  <2>1. CASE Register(w)
    <3>1. PICK k \in Tokens :
             token' = [token EXCEPT ![k] =
                [object |-> call[w].object, permissions |-> Permissions,
                 expires |-> Never, revoked |-> FALSE]]
      BY <2>1, FreshTokenType DEF Register, Issue
    <3>2. known' = known
      BY <2>1 DEF Register
    <3> QED
      BY <1>0, <3>1, <3>2, NormalizedTwice DEF Normal
  <2>2. ASSUME NEW k \in Tokens, NEW p \in Requests, NEW d \in Time \cup {Never, NaN},
               Grant(w, k, p, d)
        PROVE  Normal'
    <3>1. FreshToken \in Tokens
      BY <2>2, FreshTokenType DEF Grant, Issue
    <3>2. /\ token' = [token EXCEPT ![FreshToken] =
                [object |-> token[k].object, permissions |-> Normalized(p),
                 expires |-> Deadline(d, token[k]), revoked |-> FALSE]]
          /\ known' = known \cup {FreshToken}
      BY <2>2 DEF Grant, Issue
    <3> QED
      BY <1>0, <3>1, <3>2, NormalizedTwice DEF Normal
  <2>3. ASSUME NEW k \in Tokens, NEW target \in Tokens, Revoke(w, k, target)
        PROVE  Normal'
    <3>1. /\ \A j \in Tokens : token'[j].permissions = token[j].permissions
          /\ known' = known
      BY <1>0, <2>3 DEF Revoke, TokenRecords
    <3> QED
      BY <3>1 DEF Normal
  <2>4. CASE Send(w)
    BY <2>4 DEF Send, Normal
  <2>5. CASE \/ Receive(w) \/ Answer(w) \/ ReadFd(w) \/ Dup(w) \/ DupFails(w)
             \/ CloseFd(w) \/ ClearFd(w)
             \/ (\E o \in Objects : CreateRegion(w, o))
             \/ (\E k \in Tokens : Open(w, k) \/ Delete(w, k))
    BY <1>1, <2>5
    DEF tokenVars, Receive, Answer, ReadFd, Dup, DupFails, CloseFd, ClearFd, CreateRegion,
        Open, Delete
  <2> QED
    BY <1>2, <2>1, <2>2, <2>3, <2>4, <2>5 DEF Handle
<1>3. CASE Shutdown \/ Closer \/ Clock
  BY <1>1, <1>3 DEF Shutdown, Closer, ShutRegion, ForgetRegion, Clock, tokenVars
<1> QED
  BY <1>1, <1>2, <1>3 DEF Next, vars, tokenVars

LEMMA OwnedInvariance == Spec => [](Owned /\ Normal)
<1>1. Init => Owned /\ Normal
  <2>1. Init => Owned
    BY DEF Init, Owned
  <2>2. Init => Normal
    <3>1. NoToken.permissions = {}
      BY DEF NoToken
    <3>2. \A k \in Tokens : Init => token[k] = NoToken /\ known = {}
      BY DEF Init
    <3>3. Init => known = {}
      BY DEF Init
    <3> QED
      BY <3>1, <3>2, <3>3, NormalizedTwice DEF Normal
  <2> QED
    BY <2>1, <2>2
<1>2. Inv /\ Owned /\ [Next]_vars => Owned'
  <2>1. ASSUME Owned, UNCHANGED vars PROVE Owned'
    BY <2>1 DEF vars, tokenVars, serverVars, Owned, Owners, Sending
  <2> QED
    BY <2>1, StepOwned, ServerOwned DEF Next
<1> QED
  BY <1>1, <1>2, NextNormal, Invariance, PTL DEF Spec

\* No descriptor stays open without an object or an answer (registry.py:170-190,
\* server.py:246-260); and the type invariant.
THEOREM DescriptorsHaveOwners == Spec => []NoDescriptorLeak
<1>1. Inv /\ Owned /\ Normal => NoDescriptorLeak
  <2> SUFFICES ASSUME Inv, Owned, Normal PROVE NoDescriptorLeak
    OBVIOUS
  <2>1. TypeOK
    BY DEF Inv, TypeInv, Normal, TypeOK, Steps, Calls
  <2>2. ASSUME NEW n \in Fds, table[n] # Free
        PROVE  \/ \E o \in objects \cup Leaving : region[o] = n
               \/ \E w \in Workers : pc[w] = "register" /\ region[call[w].object] = n
               \/ \E w \in Workers : pc[w] = "send" /\ call[w].fd = n
    <3>1. CASE \E o \in Owners : region[o] = n
      BY <3>1 DEF Owners, Leaving
    <3>2. CASE \E w \in Sending : call[w].fd = n
      BY <3>2 DEF Sending
    <3> QED
      BY <2>2, <3>1, <3>2 DEF Owned
  <2> QED
    BY <2>1, <2>2 DEF NoDescriptorLeak
<1> QED
  BY <1>1, Invariance, OwnedInvariance, PTL

\* Chains of grants of any length only narrow, at any time of the clock, up to
\* an expires_in that is NaN (issue_token, registry.py:143-158).
THEOREM GrantsNarrow == Spec => []DelegationBounded
<1>1. Inv => DelegationBounded
  <2> SUFFICES ASSUME Inv, NEW k \in Tokens, NEW a \in ancestors[k]
               PROVE  /\ token[k].permissions \subseteq token[a].permissions
                      /\ Expired(a) => Expired(k) \/ Endless(k, a)
    BY DEF DelegationBounded
  <2>1. token[k] \in TokenRecords /\ token[a] \in TokenRecords /\ now \in Time
    BY DEF Inv, TypeInv
  <2>2. token[k].permissions \subseteq token[a].permissions /\ Bounds(a, k)
    BY DEF Inv, Ancestry
  <2>3. token[k].expires = NaN => Endless(k, a)
    BY DEF Endless
  <2> QED
    BY <2>1, <2>2, <2>3, RegistryAssumption DEF TokenRecords, Time, Never, NaN, Bounds, Expired
<1> QED
  BY <1>1, Invariance, PTL

\* _tokens has no token of an object that is gone (registry.py:136-190).
THEOREM NoTokenOutlivesItsObject == Spec => []TokensHaveObjects
<1>1. Inv => TokensHaveObjects
  BY DEF Inv
<1> QED
  BY <1>1, Invariance, PTL

\* Nobody closes the descriptor of a registered object (registry.py:178-190,
\* backend.py:48-51).
THEOREM RegisteredObjectsKeepTheirMemory == Spec => []OwnDescriptor
<1>1. Inv => OwnDescriptor
  BY DEF Inv, Memory, Owners, OwnDescriptor
<1> QED
  BY <1>1, Invariance, PTL

\* An answer carries its object's memory unless the object was deleted
\* meanwhile (server.py:301-303, registry.py:178-179).
THEOREM AnswersCarryTheirObject == Spec => []AnswersOwnMemory
<1>1. Inv => AnswersOwnMemory
  BY DEF Inv, Answers, AnswersOwnMemory
<1> QED
  BY <1>1, Invariance, PTL
=============================================================================
