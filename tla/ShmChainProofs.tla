--------------------------- MODULE ShmChainProofs ---------------------------
(***************************************************************************)
(* The pipeline over the shared array, for all producers, stages, counts,  *)
(* crashes and moduli: a frame is in one place, its byte holds what the    *)
(* stages it has passed added, and no send waits.                          *)
(***************************************************************************)
EXTENDS ShmChain, TLAPS

\* The messages a socket between stage n and stage n + 1 carries.
Mail(n) == {m \in Messages : m.sequence \in Slots(m.producer) /\ m.stage = n}

\* The stages a message has passed that s sends.
Level(s) == IF s \in Producers THEN 0 ELSE s

NoDuplicate(q) == \A i, j \in DOMAIN q : Frame(q[i]) = Frame(q[j]) => i = j

FrameOf(m) == IF m = Nothing THEN {} ELSE {Frame(m)}

Holding == {"got", "opened", "loaded", "stored"}

TypeInv ==
    /\ pc \in [Actors -> Running \cup {"off", "done", "failed", "killed"}]
    /\ left \in [Actors -> Int]
    /\ held \in [Receivers -> Messages \cup {Nothing}]
    /\ before \in [Receivers -> 0 .. Modulus - 1]
    /\ cached \in [Receivers -> SUBSET Producers]
    /\ DOMAIN image = Producers
    /\ \A p \in Producers : image[p] \in [Slots(p) -> 0 .. Modulus - 1]
    /\ expired \subseteq Producers
    /\ pipe \in [Senders -> Seq(Messages)]
    /\ arrived \in [Receivers -> Seq(Messages)]
    /\ accepted \subseteq Frames /\ lost \subseteq Frames
    /\ crashes \in 0 .. MaxCrashes

\* What a socket and a process may hold: the messages of the stage before.
Sorted ==
    /\ \A s \in Senders : pipe[s] \in Seq(Mail(Level(s))) /\ NoDuplicate(pipe[s])
    /\ \A r \in Receivers :
          /\ arrived[r] \in Seq(Mail(r - 1)) /\ NoDuplicate(arrived[r])
          /\ held[r] \in Mail(r - 1) \cup {Nothing}

\* Where the processes are.
Control ==
    /\ \A p \in Producers : pc[p] \in {"off", "ready", "done", "killed"}
    /\ \A r \in Receivers :
          /\ held[r] # Nothing <=> pc[r] \in Holding
          /\ pc[r] \in {"loaded", "stored"} => r \in Stages
          /\ pc[r] = "loaded" => before[r] = Expected(r - 1)
    /\ \A a \in Actors :
          left[a] \in 0 .. CountOf(a) /\ (pc[a] \in Running => left[a] > 0)

\* What a sender has sent and may still send fits below its high-water mark.
Room == \A s \in Senders : Len(pipe[s]) + left[s] <= Hwm(s)

\* The one place of a frame: a socket, a process, none any more, none yet.
Homes ==
    {<<"pipe", s>> : s \in Senders} \cup {<<"arrived", r>> : r \in Receivers}
    \cup {<<"held", r>> : r \in Receivers} \cup {<<"gone", 0>>, <<"ahead", 0>>}

Ahead(p, k) == pc[p] = "off" \/ k >= Count[p] - left[p]

Home(p, k, home) ==
    /\ \A s \in Senders : <<p, k>> \in FramesOf(pipe[s]) => home = <<"pipe", s>>
    /\ \A r \in Receivers : <<p, k>> \in FramesOf(arrived[r]) => home = <<"arrived", r>>
    /\ \A r \in Receivers : <<p, k>> \in FrameOf(held[r]) => home = <<"held", r>>
    /\ <<p, k>> \in accepted \cup lost => home = <<"gone", 0>>
    /\ Ahead(p, k) => home = <<"ahead", 0>>

Byte(p, k) ==
    /\ \A s \in Senders :
          <<p, k>> \in FramesOf(pipe[s]) => image[p][k] = Expected(Level(s))
    /\ \A r \in Receivers :
          <<p, k>> \in FramesOf(arrived[r]) => image[p][k] = Expected(r - 1)
    /\ \A r \in Receivers :
          <<p, k>> \in FrameOf(held[r]) =>
              image[p][k] = Expected(IF pc[r] = "stored" THEN r ELSE r - 1)
    /\ Ahead(p, k) => image[p][k] = 0

Housed ==
    \A p \in Producers : \A k \in Slots(p) :
        Byte(p, k) /\ \E home \in Homes : Home(p, k, home)

ChainInv == TypeInv /\ Sorted /\ Control /\ Room /\ Housed
-----------------------------------------------------------------------------
\* Arithmetic: what stage r adds takes the byte of stage r - 1 to that of r.
LEMMA DivMod ==
    ASSUME NEW n \in Nat, NEW a \in Nat \ {0}
    PROVE  /\ n \div a \in Nat
           /\ n % a \in 0 .. a - 1
           /\ n = (n \div a) * a + (n % a)
  BY Z3

LEMMA ModOf ==
    ASSUME NEW a \in Nat \ {0}, NEW q \in Nat, NEW x \in 0 .. a - 1
    PROVE  (q * a + x) % a = x
  BY Z3

LEMMA ModPlus ==
    ASSUME NEW n \in Nat, NEW r \in Nat, NEW a \in Nat \ {0}
    PROVE  ((n % a) + r) % a = (n + r) % a
<1>1. PICK q \in Nat, x \in 0 .. a - 1 : n % a = x /\ n = q * a + x
  BY DivMod
<1>2. x + r \in Nat
  OBVIOUS
<1>3. PICK d \in Nat, y \in 0 .. a - 1 : (x + r) % a = y /\ x + r = d * a + y
  BY <1>2, DivMod
<1>4. n + r = (q + d) * a + y
  <2>1. (q + d) * a = q * a + d * a /\ q * a \in Nat /\ d * a \in Nat
    OBVIOUS
  <2> QED
    BY <1>1, <1>3, <2>1
<1>5. ((q + d) * a + y) % a = y
  <2>1. q + d \in Nat
    OBVIOUS
  <2> QED
    BY <2>1, ModOf
<1> QED
  BY <1>1, <1>3, <1>4, <1>5

LEMMA Triangle ==
    ASSUME NEW r \in Nat \ {0}
    PROVE  /\ (r * (r + 1)) \div 2 = ((r - 1) * r) \div 2 + r
           /\ ((r - 1) * r) \div 2 \in Nat
<1>1. r * (r + 1) = (r - 1) * r + 2 * r
  OBVIOUS
<1>2. r * (r + 1) \in Nat /\ (r - 1) * r \in Nat
  OBVIOUS
<1>3. ASSUME NEW x \in Nat, NEW y \in Nat, x = y + 2 * r
      PROVE  x \div 2 = y \div 2 + r /\ y \div 2 \in Nat
  BY <1>3
<1> QED
  BY <1>1, <1>2, <1>3

LEMMA ExpectedFacts ==
    /\ Expected(0) = 0
    /\ \A r \in Nat \ {0} :
          /\ Expected(r - 1) \in 0 .. Modulus - 1
          /\ Mutated(Expected(r - 1), r) = Expected(r)
<1>0. Modulus \in Nat \ {0}
  BY ShmChainAssumption
<1>1. Expected(0) = 0
  <2>1. (0 * (0 + 1)) \div 2 = 0
    OBVIOUS
  <2>2. 0 % Modulus = 0
    BY <1>0, Z3
  <2> QED
    BY <2>1, <2>2 DEF Expected
<1>2. ASSUME NEW r \in Nat \ {0}
      PROVE  /\ Expected(r - 1) \in 0 .. Modulus - 1
             /\ Mutated(Expected(r - 1), r) = Expected(r)
  <2>1. PICK t \in Nat : t = ((r - 1) * r) \div 2 /\ (r * (r + 1)) \div 2 = t + r
    BY Triangle
  <2>2. (r - 1) + 1 = r
    OBVIOUS
  <2>3. Expected(r - 1) = t % Modulus /\ Expected(r) = (t + r) % Modulus
    BY <2>1, <2>2 DEF Expected
  <2>4. t % Modulus \in 0 .. Modulus - 1
    BY <1>0, DivMod
  <2>5. ((t % Modulus) + r) % Modulus = (t + r) % Modulus
    BY <1>0, ModPlus
  <2> QED
    BY <2>3, <2>4, <2>5 DEF Mutated
<1> QED
  BY <1>1, <1>2

-----------------------------------------------------------------------------
\* Sockets are queues: what they hold after a message left or came.
LEMMA EmptyQueue == FramesOf(<< >>) = {} /\ NoDuplicate(<< >>)
  BY DEF FramesOf, NoDuplicate

LEMMA TailQueue ==
    ASSUME NEW S, NEW q \in Seq(S), q # << >>, NoDuplicate(q)
    PROVE  /\ Head(q) \in S /\ Tail(q) \in Seq(S) /\ NoDuplicate(Tail(q))
           /\ Len(Tail(q)) = Len(q) - 1 /\ Len(q) \in Nat
           /\ Frame(Head(q)) \in FramesOf(q)
           /\ \A f : f \in FramesOf(Tail(q)) <=> f \in FramesOf(q) /\ f # Frame(Head(q))
<1>1. /\ Len(q) \in Nat \ {0} /\ DOMAIN q = 1 .. Len(q) /\ Head(q) = q[1]
      /\ Tail(q) \in Seq(S) /\ Len(Tail(q)) = Len(q) - 1
      /\ DOMAIN Tail(q) = 1 .. Len(q) - 1
      /\ \A i \in 1 .. Len(q) - 1 : Tail(q)[i] = q[i + 1]
      /\ q[1] \in S
  OBVIOUS
<1>2. PICK w, n : w = Tail(q) /\ n = Len(q)
  OBVIOUS
<1>3. /\ n \in Nat \ {0} /\ DOMAIN q = 1 .. n /\ DOMAIN w = 1 .. n - 1
      /\ \A i \in 1 .. n - 1 : w[i] = q[i + 1]
  BY <1>1, <1>2
<1>4. NoDuplicate(w)
  <2> SUFFICES ASSUME NEW i \in DOMAIN w, NEW j \in DOMAIN w, Frame(w[i]) = Frame(w[j])
               PROVE  i = j
    BY DEF NoDuplicate
  <2>1. /\ i + 1 \in DOMAIN q /\ j + 1 \in DOMAIN q
        /\ Frame(q[i + 1]) = Frame(q[j + 1])
    BY <1>3
  <2>2. i + 1 = j + 1
    BY <2>1 DEF NoDuplicate
  <2> QED
    BY <1>3, <2>2
<1>5. ASSUME NEW f PROVE f \in FramesOf(w) <=> f \in FramesOf(q) /\ f # Frame(q[1])
  <2>1. ASSUME f \in FramesOf(w) PROVE f \in FramesOf(q) /\ f # Frame(q[1])
    <3>1. PICK i \in 1 .. n - 1 : f = Frame(q[i + 1])
      BY <1>3, <2>1 DEF FramesOf
    <3>2. i + 1 \in DOMAIN q /\ 1 \in DOMAIN q /\ i + 1 # 1
      BY <1>3
    <3> QED
      BY <3>1, <3>2 DEF FramesOf, NoDuplicate
  <2>2. ASSUME f \in FramesOf(q), f # Frame(q[1]) PROVE f \in FramesOf(w)
    <3>1. PICK i \in 1 .. n : f = Frame(q[i]) /\ i # 1
      BY <1>3, <2>2 DEF FramesOf
    <3>2. i - 1 \in DOMAIN w /\ w[i - 1] = q[i]
      BY <1>3, <3>1
    <3> QED
      BY <3>1, <3>2 DEF FramesOf
  <2> QED
    BY <2>1, <2>2
<1>6. Frame(q[1]) \in FramesOf(q)
  BY <1>3 DEF FramesOf
<1> QED
  BY <1>1, <1>2, <1>4, <1>5, <1>6

LEMMA AppendQueue ==
    ASSUME NEW S, NEW q \in Seq(S), NEW m \in S, NoDuplicate(q), Frame(m) \notin FramesOf(q)
    PROVE  /\ Append(q, m) \in Seq(S) /\ NoDuplicate(Append(q, m))
           /\ Len(Append(q, m)) = Len(q) + 1 /\ Len(q) \in Nat
           /\ \A f : f \in FramesOf(Append(q, m)) <=> f \in FramesOf(q) \/ f = Frame(m)
<1>1. PICK w, n : w = Append(q, m) /\ n = Len(q)
  OBVIOUS
<1>2. /\ w \in Seq(S) /\ n \in Nat /\ Len(w) = n + 1
      /\ DOMAIN q = 1 .. n /\ DOMAIN w = 1 .. n + 1
      /\ \A i \in 1 .. n : w[i] = q[i]
      /\ w[n + 1] = m
  BY <1>1
<1>3. \A i \in 1 .. n : Frame(q[i]) # Frame(m)
  BY <1>2 DEF FramesOf
<1>4. NoDuplicate(w)
  BY <1>2, <1>3 DEF NoDuplicate
<1>5. \A f : f \in FramesOf(w) <=> f \in FramesOf(q) \/ f = Frame(m)
  <2> TAKE f
  <2>1. n + 1 \in DOMAIN w /\ 1 .. n \subseteq DOMAIN w
    BY <1>2
  <2>2. \A i \in DOMAIN w : i \in 1 .. n \/ i = n + 1
    BY <1>2
  <2> QED
    BY <1>2, <2>1, <2>2 DEF FramesOf
<1> QED
  BY <1>1, <1>2, <1>4, <1>5
-----------------------------------------------------------------------------
\* The processes and sockets.
LEMMA Actors1 ==
    /\ Sink \in Receivers /\ Sink \notin Stages /\ Stages \subseteq Receivers
    /\ Receivers \subseteq Nat \ {0}
    /\ Producers \cap Receivers = {} /\ Producers \cap Stages = {}
    /\ \A s \in Senders : Peer(s) \in Receivers /\ Peer(s) - 1 = Level(s)
    /\ \A r \in Stages : Level(r) = r /\ r - 1 \in 0 .. N /\ r \in 0 .. N
    /\ \A a \in Actors : CountOf(a) \in Nat \ {0}
    /\ \A s \in Senders :
          /\ Hwm(s) \in Nat \ {0} /\ CountOf(s) <= Hwm(s)
          /\ s \in Actors
    /\ \A p \in Producers :
          /\ CountOf(p) = Count[p] /\ Count[p] \in Nat \ {0} /\ Level(p) = 0
          /\ p \in Senders /\ p \in Actors
<1> USE ShmChainAssumption
<1>1. /\ Sink \in Receivers /\ Sink \notin Stages /\ Stages \subseteq Receivers
      /\ Receivers \subseteq Nat \ {0}
  BY DEF Sink, Receivers, Stages
<1>2. Producers \cap Receivers = {} /\ Producers \cap Stages = {}
  <2>1. Receivers \subseteq Int /\ Stages \subseteq Int
    BY <1>1
  <2>2. \A x \in Producers : x \notin Int
    OBVIOUS
  <2> QED
    BY <2>1, <2>2
<1>3. \A s \in Senders : Peer(s) \in Receivers /\ Peer(s) - 1 = Level(s)
  BY DEF Senders, Peer, Level, Receivers, Sink, Stages
<1>4. \A r \in Stages : Level(r) = r /\ r - 1 \in 0 .. N /\ r \in 0 .. N
  BY <1>2 DEF Level, Stages
<1>5. \A a \in Actors : CountOf(a) \in Nat \ {0}
  BY DEF CountOf
<1>6. Senders \subseteq Actors
  BY <1>1 DEF Senders, Actors
<1>7. \A s \in Senders : Hwm(s) \in Nat \ {0} /\ CountOf(s) <= Hwm(s)
  BY <1>5, <1>6 DEF Hwm
<1>8. \A p \in Producers :
         /\ CountOf(p) = Count[p] /\ Count[p] \in Nat \ {0} /\ Level(p) = 0
         /\ p \in Senders /\ p \in Actors
  BY DEF CountOf, Level, Senders, Actors
<1> QED
  BY <1>1, <1>2, <1>3, <1>4, <1>5, <1>6, <1>7, <1>8

LEMMA MailFacts ==
    ASSUME NEW n, NEW m \in Mail(n)
    PROVE  /\ m \in Messages /\ m # Nothing /\ m.stage = n
           /\ m.producer \in Producers /\ m.sequence \in Slots(m.producer)
           /\ Frame(m) = <<m.producer, m.sequence>> /\ Frame(m) \in Frames
           /\ FrameOf(m) = {Frame(m)}
<1>1. m \in Messages /\ m.sequence \in Slots(m.producer) /\ m.stage = n
  BY DEF Mail
<1>2. m.producer \in Producers
  BY <1>1 DEF Messages
<1>3. m # Nothing
  <2>1. DOMAIN m = {"producer", "sequence", "stage"} /\ DOMAIN Nothing = {"producer"}
    BY <1>1 DEF Messages, Nothing
  <2> QED
    BY <2>1
<1>4. Frame(m) = <<m.producer, m.sequence>> /\ Frame(m) \in Frames
  BY <1>1, <1>2 DEF Frame, Frames
<1> QED
  BY <1>1, <1>2, <1>3, <1>4 DEF FrameOf

LEMMA FramePairs ==
    \A f \in Frames : \E p \in Producers : \E k \in Slots(p) : f = <<p, k>>
  BY DEF Frames

LEMMA NoFrames == FrameOf(Nothing) = {}
  BY DEF FrameOf

\* The frames a queue of mail holds.
LEMMA QueueFrames ==
    ASSUME NEW n, NEW q \in Seq(Mail(n))
    PROVE  FramesOf(q) \subseteq Frames
<1> SUFFICES ASSUME NEW i \in DOMAIN q PROVE Frame(q[i]) \in Frames
  BY DEF FramesOf
<1>1. q[i] \in Mail(n)
  OBVIOUS
<1> QED
  BY <1>1, MailFacts

LEMMA ChainInit == Init => ChainInv
<1> SUFFICES ASSUME Init PROVE ChainInv
  OBVIOUS
<1> USE ShmChainAssumption, Actors1
<1>1. TypeInv
  BY DEF Init, TypeInv, Running, Senders, Receivers
<1>2. Sorted
  BY EmptyQueue DEF Init, Sorted
<1>3. Control
  BY DEF Init, Control, Holding, Running, Actors
<1>4. Room
  BY DEF Init, Room
<1>5. Housed
  <2> SUFFICES ASSUME NEW p \in Producers, NEW k \in Slots(p)
               PROVE  Byte(p, k) /\ \E home \in Homes : Home(p, k, home)
    BY DEF Housed
  <2>1. /\ \A s \in Senders : <<p, k>> \notin FramesOf(pipe[s])
        /\ \A r \in Receivers : <<p, k>> \notin FramesOf(arrived[r])
        /\ \A r \in Receivers : <<p, k>> \notin FrameOf(held[r])
        /\ <<p, k>> \notin accepted \cup lost
    BY EmptyQueue, NoFrames DEF Init
  <2>2. image[p][k] = 0
    BY DEF Init
  <2>3. Home(p, k, <<"ahead", 0>>)
    BY <2>1 DEF Home
  <2>4. <<"ahead", 0>> \in Homes
    BY DEF Homes
  <2> QED
    BY <2>1, <2>2, <2>3, <2>4 DEF Byte
<1> QED
  BY <1>1, <1>2, <1>3, <1>4, <1>5 DEF ChainInv

\* A frame is in one place.
LEMMA Apart ==
    ASSUME Housed, NEW p \in Producers, NEW k \in Slots(p), NEW f, f = <<p, k>>
    PROVE  /\ \A s \in Senders : f \in FramesOf(pipe[s]) =>
                 /\ \A u \in Senders : f \in FramesOf(pipe[u]) => u = s
                 /\ \A r \in Receivers : f \notin FramesOf(arrived[r]) /\ f \notin FrameOf(held[r])
                 /\ f \notin accepted \cup lost /\ ~Ahead(p, k)
           /\ \A r \in Receivers : f \in FramesOf(arrived[r]) =>
                 /\ \A u \in Receivers : f \in FramesOf(arrived[u]) => u = r
                 /\ \A u \in Receivers : f \notin FrameOf(held[u])
                 /\ f \notin accepted \cup lost /\ ~Ahead(p, k)
           /\ \A r \in Receivers : f \in FrameOf(held[r]) =>
                 /\ \A u \in Receivers : f \in FrameOf(held[u]) => u = r
                 /\ f \notin accepted \cup lost /\ ~Ahead(p, k)
           /\ f \in accepted \cup lost => ~Ahead(p, k)
<1>1. PICK home \in Homes : Home(p, k, home)
  BY DEF Housed
<1> QED
  BY <1>1 DEF Home

\* A step that moves at most one frame, g, to a new home, and drops others.
Moves(g, place, dropped) ==
    \A p \in Producers : \A k \in Slots(p) :
        /\ \A s \in Senders : <<p, k>> \in FramesOf(pipe'[s]) =>
              \/ /\ <<p, k>> \in FramesOf(pipe[s])
                 /\ <<p, k>> # g /\ <<p, k>> \notin dropped
              \/ /\ <<p, k>> = g /\ place = <<"pipe", s>>
                 /\ image[p][k] = Expected(Level(s))
        /\ \A r \in Receivers : <<p, k>> \in FramesOf(arrived'[r]) =>
              \/ /\ <<p, k>> \in FramesOf(arrived[r])
                 /\ <<p, k>> # g /\ <<p, k>> \notin dropped
              \/ /\ <<p, k>> = g /\ place = <<"arrived", r>>
                 /\ image[p][k] = Expected(r - 1)
        /\ \A r \in Receivers : <<p, k>> \in FrameOf(held'[r]) =>
              \/ /\ <<p, k>> \in FrameOf(held[r])
                 /\ <<p, k>> # g /\ <<p, k>> \notin dropped
                 /\ pc'[r] = "stored" <=> pc[r] = "stored"
              \/ /\ <<p, k>> = g /\ place = <<"held", r>>
                 /\ image[p][k] = Expected(r - 1) /\ pc'[r] # "stored"
        /\ <<p, k>> \in accepted' \cup lost' =>
              \/ <<p, k>> \in dropped
              \/ <<p, k>> \in accepted \cup lost /\ <<p, k>> # g
        /\ Ahead(p, k)' => Ahead(p, k) /\ <<p, k>> # g /\ <<p, k>> \notin dropped

LEMMA MoveStep ==
    ASSUME Housed, UNCHANGED image,
           NEW g, NEW place \in Homes, NEW dropped, g \notin dropped,
           Moves(g, place, dropped)
    PROVE  Housed'
<1> SUFFICES ASSUME NEW p \in Producers, NEW k \in Slots(p)
             PROVE  Byte(p, k)' /\ (\E home \in Homes : Home(p, k, home)')
  BY DEF Housed
<1>1. PICK home \in Homes : Home(p, k, home)
  BY DEF Housed
<1>2. Byte(p, k)'
  <2>1. Byte(p, k)
    BY DEF Housed
  <2> QED
    BY <2>1 DEF Byte, Moves
<1>3. CASE <<p, k>> = g
  <2>1. Home(p, k, place)'
    BY <1>3 DEF Home, Moves
  <2> QED
    BY <1>2, <2>1
<1>4. CASE <<p, k>> \in dropped
  <2>1. Home(p, k, <<"gone", 0>>)'
    BY <1>4 DEF Home, Moves
  <2>2. <<"gone", 0>> \in Homes
    BY DEF Homes
  <2> QED
    BY <1>2, <2>1, <2>2
<1>5. CASE <<p, k>> # g /\ <<p, k>> \notin dropped
  <2>1. Home(p, k, home)'
    BY <1>1, <1>5 DEF Home, Moves
  <2> QED
    BY <1>2, <2>1
<1> QED
  BY <1>3, <1>4, <1>5

\* A step that drops frames at most.
Drops(dropped) ==
    \A p \in Producers : \A k \in Slots(p) :
        /\ \A s \in Senders : <<p, k>> \in FramesOf(pipe'[s]) =>
              <<p, k>> \in FramesOf(pipe[s]) /\ <<p, k>> \notin dropped
        /\ \A r \in Receivers : <<p, k>> \in FramesOf(arrived'[r]) =>
              <<p, k>> \in FramesOf(arrived[r]) /\ <<p, k>> \notin dropped
        /\ \A r \in Receivers : <<p, k>> \in FrameOf(held'[r]) =>
              /\ <<p, k>> \in FrameOf(held[r]) /\ <<p, k>> \notin dropped
              /\ pc'[r] = "stored" <=> pc[r] = "stored"
        /\ <<p, k>> \in accepted' \cup lost' =>
              <<p, k>> \in dropped \/ <<p, k>> \in accepted \cup lost
        /\ Ahead(p, k)' => Ahead(p, k) /\ <<p, k>> \notin dropped

LEMMA DropStep ==
    ASSUME Housed, UNCHANGED image, NEW dropped \in SUBSET Frames, Drops(dropped)
    PROVE  Housed'
<1> DEFINE g == << >>
<1>1. g \notin dropped
  BY DEF Frames
<1>2. \A p \in Producers : \A k \in Slots(p) : <<p, k>> # g
  OBVIOUS
<1>3. PICK place \in Homes : TRUE
  BY DEF Homes
<1> HIDE DEF g
<1>4. Moves(g, place, dropped)
  <2> SUFFICES ASSUME NEW p \in Producers, NEW k \in Slots(p), <<p, k>> # g
               PROVE  Moves(g, place, dropped)!(p)!(k)
    BY <1>2 DEF Moves
  <2> QED
    BY DEF Moves, Drops
<1> QED
  BY <1>1, <1>4, MoveStep

\* What is the same before and after most steps.
Same == UNCHANGED <<held, image, pipe, arrived, ends>>

LEMMA SameHoused ==
    ASSUME Housed, Same,
           \A r \in Receivers : held[r] # Nothing => (pc'[r] = "stored" <=> pc[r] = "stored"),
           \A p \in Producers : \A k \in Slots(p) : Ahead(p, k)' => Ahead(p, k)
    PROVE  Housed'
<1>1. \A r \in Receivers : \A f : f \in FrameOf(held[r]) => held[r] # Nothing
  BY DEF FrameOf
<1>2. UNCHANGED <<held, image, pipe, arrived, accepted, lost>>
  BY DEF Same, ends
<1>3. Drops({})
  BY <1>1, <1>2 DEF Drops
<1>4. {} \in SUBSET Frames
  OBVIOUS
<1> QED
  BY <1>2, <1>3, <1>4, DropStep

-----------------------------------------------------------------------------
\* One lemma per action.
LEMMA StartStep ==
    ASSUME ChainInv, NEW a \in Actors, Start(a)
    PROVE  ChainInv'
<1>1. TypeInv /\ Sorted /\ Control /\ Room /\ Housed
  BY DEF ChainInv
<1>2. /\ pc' = [pc EXCEPT ![a] = "ready"]
      /\ left' = [left EXCEPT ![a] = CountOf(a)]
      /\ UNCHANGED <<held, before, cached, image, expired, pipe, arrived, ends, crashes>>
      /\ pc[a] \in {"off", "failed", "killed"}
      /\ a \in Senders => pipe[a] = << >>
      /\ a \in Producers => pc[a] = "off"
  BY Actors1 DEF Start, Rounds
<1>3. CountOf(a) \in Nat \ {0}
  BY Actors1
<1>4. TypeInv'
  BY <1>1, <1>2, <1>3 DEF TypeInv, Running, ends
<1>5. Sorted'
  BY <1>1, <1>2 DEF Sorted
<1>6. Control'
  BY <1>1, <1>2, <1>3, Actors1 DEF Control, TypeInv, Holding, Running, Actors
<1>7. Room'
  BY <1>1, <1>2, Actors1 DEF Room, TypeInv
<1>8. Housed'
  <2>1. \A p \in Producers : \A k \in Slots(p) : Ahead(p, k)' => Ahead(p, k)
    BY <1>1, <1>2, Actors1 DEF Ahead, TypeInv
  <2>2. \A r \in Receivers : held[r] # Nothing => pc'[r] = pc[r]
    BY <1>1, <1>2 DEF Control, Holding, TypeInv, Actors
  <2>3. Same
    BY <1>2 DEF Same
  <2> QED
    BY <1>1, <2>1, <2>2, <2>3, SameHoused
<1> QED
  BY <1>4, <1>5, <1>6, <1>7, <1>8 DEF ChainInv

\* Steps that only move a process within its round, or the clock.
LEMMA QuietStep ==
    ASSUME ChainInv, Same, TypeInv', Control', UNCHANGED left,
           \A p \in Producers : pc'[p] = pc[p],
           \A r \in Receivers : held[r] # Nothing => (pc'[r] = "stored" <=> pc[r] = "stored")
    PROVE  ChainInv'
<1>1. Sorted /\ Room /\ Housed
  BY DEF ChainInv
<1>2. Sorted' /\ Room'
  BY <1>1 DEF Sorted, Room, Same
<1>3. \A p \in Producers : \A k \in Slots(p) : Ahead(p, k)' => Ahead(p, k)
  BY DEF Ahead
<1> QED
  BY <1>1, <1>2, <1>3, SameHoused DEF ChainInv

LEMMA OpenStep ==
    ASSUME ChainInv, NEW r \in Receivers, Open(r)
    PROVE  ChainInv'
<1>1. TypeInv /\ Sorted /\ Control
  BY DEF ChainInv
<1>2. /\ pc[r] = "got" /\ pc' = [pc EXCEPT ![r] = "opened"]
      /\ UNCHANGED <<left, held, before, image, expired, pipe, arrived, ends, crashes>>
  BY DEF Open
<1>3. cached' \in [Receivers -> SUBSET Producers]
  <2>1. held[r].producer \in Producers
    BY <1>1, <1>2, MailFacts DEF Control, Sorted, Holding
  <2>2. PICK kept \in SUBSET Producers : cached' = [cached EXCEPT ![r] = kept]
    BY <1>1, <2>1 DEF Open, TypeInv
  <2> QED
    BY <1>1, <2>2 DEF TypeInv
<1>4. TypeInv'
  BY <1>1, <1>2, <1>3 DEF TypeInv, Running, ends
<1>5. Control'
  BY <1>1, <1>2, Actors1 DEF Control, TypeInv, Holding, Running
<1> QED
  BY <1>1, <1>2, <1>4, <1>5, QuietStep, Actors1, SMTT(30) DEF TypeInv, Same

LEMMA LoadStep ==
    ASSUME ChainInv, NEW r \in Receivers, Load(r)
    PROVE  ChainInv'
<1>1. TypeInv /\ Sorted /\ Control /\ Housed
  BY DEF ChainInv
<1>2. /\ r \in Stages /\ pc[r] = "opened" /\ pc' = [pc EXCEPT ![r] = "loaded"]
      /\ before' = [before EXCEPT ![r] = Slot(held[r])]
      /\ UNCHANGED <<left, held, cached, image, expired, pipe, arrived, ends, crashes>>
  BY DEF Load
<1>3. Slot(held[r]) = Expected(r - 1)
  <2>1. held[r] \in Mail(r - 1)
    BY <1>1, <1>2 DEF Control, Sorted, Holding
  <2> DEFINE p == held[r].producer
             k == held[r].sequence
  <2>2. p \in Producers /\ k \in Slots(p) /\ <<p, k>> \in FrameOf(held[r])
    BY <2>1, MailFacts
  <2>3. Slot(held[r]) = image[p][k]
    BY DEF Slot
  <2> HIDE DEF p, k
  <2>4. Byte(p, k)
    BY <1>1, <2>2 DEF Housed
  <2>5. image[p][k] = Expected(IF pc[r] = "stored" THEN r ELSE r - 1)
    BY <2>2, <2>4 DEF Byte
  <2> QED
    BY <1>2, <2>3, <2>5
<1>4. Expected(r - 1) \in 0 .. Modulus - 1
  BY ExpectedFacts, Actors1
<1>5. TypeInv'
  BY <1>1, <1>2, <1>3, <1>4 DEF TypeInv, Running, ends
<1>6. Control'
  BY <1>1, <1>2, <1>3, Actors1 DEF Control, TypeInv, Holding, Running
<1> QED
  BY <1>1, <1>2, <1>5, <1>6, QuietStep, Actors1 DEF TypeInv, Same

LEMMA ExpireStep ==
    ASSUME ChainInv, NEW p \in Producers, Expire(p)
    PROVE  ChainInv'
<1>1. TypeInv /\ Control
  BY DEF ChainInv
<1>2. TypeInv'
  BY <1>1, ShmChainAssumption DEF Expire, TypeInv, ends
<1>3. Control'
  BY <1>1 DEF Expire, Control
<1> QED
  BY <1>2, <1>3, QuietStep DEF Expire, Same

LEMMA DeliverStep ==
    ASSUME ChainInv, NEW s \in Senders, Deliver(s)
    PROVE  ChainInv'
<1>1. TypeInv /\ Sorted /\ Control /\ Room /\ Housed
  BY DEF ChainInv
<1>2. PICK r \in Receivers : r = Peer(s) /\ r - 1 = Level(s)
  BY Actors1
<1>3. PICK m : m = Head(pipe[s])
  OBVIOUS
<1>4. /\ pipe[s] # << >>
      /\ arrived' = [arrived EXCEPT ![r] = Append(arrived[r], m)]
      /\ pipe' = [pipe EXCEPT ![s] = Tail(pipe[s])]
      /\ UNCHANGED <<pc, left, held, before, cached, image, expired, accepted, lost, crashes>>
  BY <1>2, <1>3 DEF Deliver, ends
<1>5. /\ m \in Mail(Level(s)) /\ Tail(pipe[s]) \in Seq(Mail(Level(s)))
      /\ NoDuplicate(Tail(pipe[s]))
      /\ Len(Tail(pipe[s])) = Len(pipe[s]) - 1 /\ Len(pipe[s]) \in Nat
      /\ Frame(m) \in FramesOf(pipe[s])
      /\ \A f : f \in FramesOf(Tail(pipe[s])) <=> f \in FramesOf(pipe[s]) /\ f # Frame(m)
  BY <1>1, <1>3, <1>4, TailQueue DEF Sorted
<1>6. m \in Messages /\ Frame(m) \in Frames
  BY <1>5, MailFacts
<1>7. PICK p \in Producers : \E k \in Slots(p) : Frame(m) = <<p, k>>
  BY <1>6, FramePairs
<1>8. PICK k \in Slots(p) : Frame(m) = <<p, k>>
  BY <1>7
<1>9. /\ \A u \in Senders : <<p, k>> \in FramesOf(pipe[u]) => u = s
      /\ \A u \in Receivers : <<p, k>> \notin FramesOf(arrived[u]) /\ <<p, k>> \notin FrameOf(held[u])
      /\ <<p, k>> \notin accepted \cup lost /\ ~Ahead(p, k)
  BY <1>1, <1>5, <1>8, Apart, SMTT(30)
<1>10. image[p][k] = Expected(r - 1)
  BY <1>1, <1>2, <1>5, <1>8 DEF Housed, Byte
<1>11. /\ Append(arrived[r], m) \in Seq(Mail(r - 1))
       /\ NoDuplicate(Append(arrived[r], m))
       /\ \A f : f \in FramesOf(Append(arrived[r], m)) <=>
                    f \in FramesOf(arrived[r]) \/ f = Frame(m)
  <2>1. arrived[r] \in Seq(Mail(r - 1)) /\ NoDuplicate(arrived[r]) /\ m \in Mail(r - 1)
    BY <1>1, <1>2, <1>5 DEF Sorted
  <2>2. Frame(m) \notin FramesOf(arrived[r])
    BY <1>8, <1>9
  <2> QED
    BY <2>1, <2>2, AppendQueue
<1>12. /\ \A u \in Senders : pipe'[u] = IF u = s THEN Tail(pipe[s]) ELSE pipe[u]
       /\ \A u \in Receivers : arrived'[u] = IF u = r THEN Append(arrived[r], m) ELSE arrived[u]
  BY <1>1, <1>4 DEF TypeInv
<1>13. TypeInv'
  <2>1. pipe' \in [Senders -> Seq(Messages)]
    BY <1>1, <1>4 DEF TypeInv
  <2>2. arrived' \in [Receivers -> Seq(Messages)]
    BY <1>1, <1>4, <1>6 DEF TypeInv
  <2> QED
    BY <1>1, <1>4, <2>1, <2>2 DEF TypeInv
<1>14. Sorted'
  BY <1>1, <1>4, <1>5, <1>11, <1>12 DEF Sorted
<1>15. Control'
  BY <1>1, <1>4 DEF Control
<1>16. Room'
  <2> SUFFICES ASSUME NEW u \in Senders PROVE Len(pipe'[u]) + left[u] <= Hwm(u)
    BY <1>4 DEF Room
  <2>1. CASE u = s
    <3>1. left[s] \in Int /\ Hwm(s) \in Int /\ Len(pipe[s]) + left[s] <= Hwm(s)
      BY <1>1, Actors1 DEF Room, TypeInv
    <3>2. PICK n \in Nat : n = Len(pipe[s]) /\ Len(pipe'[u]) = n - 1
      BY <1>5, <1>12, <2>1
    <3> QED
      BY <2>1, <3>1, <3>2
  <2>2. CASE u # s
    BY <1>1, <1>12, <2>2 DEF Room
  <2> QED
    BY <2>1, <2>2
<1>17. Housed'
  <2>1. PICK place \in Homes : place = <<"arrived", r>>
    BY DEF Homes
  <2>2. PICK g : g = <<p, k>>
    OBVIOUS
  <2>3. Moves(g, place, {})
    <3> USE DEF Moves
    <3> TAKE a \in Producers
    <3> TAKE b \in Slots(a)
    <3>1. Ahead(a, b)' = Ahead(a, b)
      BY <1>4 DEF Ahead
    <3>2. <<a, b>> = g => a = p /\ b = k
      BY <2>2
    <3> QED
      BY <1>4, <1>5, <1>8, <1>9, <1>10, <1>11, <1>12, <2>1, <2>2, <3>1, <3>2
  <2> QED
    BY <1>1, <1>4, <2>3, MoveStep
<1> QED
  BY <1>13, <1>14, <1>15, <1>16, <1>17 DEF ChainInv

LEMMA ProduceStep ==
    ASSUME ChainInv, NEW p \in Producers, Produce(p)
    PROVE  ChainInv'
<1>1. TypeInv /\ Sorted /\ Control /\ Room /\ Housed
  BY DEF ChainInv
<1>2. PICK k, m : k = Count[p] - left[p] /\ m = [producer |-> p, sequence |-> k, stage |-> 0]
  OBVIOUS
<1>3. /\ pc[p] = "ready" /\ left[p] > 0 /\ Len(pipe[p]) < Hwm(p)
      /\ pipe' = [pipe EXCEPT ![p] = Append(pipe[p], m)]
      /\ left' = [left EXCEPT ![p] = left[p] - 1]
      /\ pc' = [pc EXCEPT ![p] = IF left[p] > 1 THEN "ready" ELSE "done"]
      /\ UNCHANGED <<held, before, cached, image, expired, arrived, accepted, lost, crashes>>
  BY <1>2 DEF Produce, Sends, Sequence, ends
<1>4. p \in Senders /\ p \in Actors /\ Level(p) = 0 /\ Count[p] \in Nat \ {0} /\ CountOf(p) = Count[p]
  BY Actors1
<1>5. left[p] \in 1 .. Count[p] /\ k \in Slots(p)
  BY <1>1, <1>2, <1>3, <1>4 DEF Control, Slots
<1>6. m \in Messages /\ m \in Mail(0) /\ Frame(m) = <<p, k>>
  BY <1>2, <1>5, ShmChainAssumption DEF Messages, Mail, Slots, Frame
<1>7. Ahead(p, k)
  BY <1>2, <1>4, <1>5 DEF Ahead
<1>8. /\ \A s \in Senders : <<p, k>> \notin FramesOf(pipe[s])
      /\ \A r \in Receivers : <<p, k>> \notin FramesOf(arrived[r]) /\ <<p, k>> \notin FrameOf(held[r])
      /\ <<p, k>> \notin accepted \cup lost
  BY <1>1, <1>5, <1>7, Apart
<1>9. image[p][k] = Expected(0)
  BY <1>1, <1>5, <1>7, ExpectedFacts DEF Housed, Byte
<1>10. /\ Append(pipe[p], m) \in Seq(Mail(0)) /\ NoDuplicate(Append(pipe[p], m))
       /\ Len(Append(pipe[p], m)) = Len(pipe[p]) + 1 /\ Len(pipe[p]) \in Nat
       /\ \A f : f \in FramesOf(Append(pipe[p], m)) <=> f \in FramesOf(pipe[p]) \/ f = <<p, k>>
  <2>1. pipe[p] \in Seq(Mail(0)) /\ NoDuplicate(pipe[p])
    BY <1>1, <1>4 DEF Sorted
  <2> QED
    BY <1>4, <1>6, <1>8, <2>1, AppendQueue
<1>11. /\ \A u \in Senders : pipe'[u] = IF u = p THEN Append(pipe[p], m) ELSE pipe[u]
       /\ \A a \in Actors : left'[a] = IF a = p THEN left[p] - 1 ELSE left[a]
       /\ \A a \in Actors : a # p => pc'[a] = pc[a]
       /\ pc'[p] = IF left[p] > 1 THEN "ready" ELSE "done"
  BY <1>1, <1>3, <1>4 DEF TypeInv
<1>12. TypeInv'
  <2>1. pipe' \in [Senders -> Seq(Messages)]
    <3>1. pipe[p] \in Seq(Messages)
      BY <1>1, <1>4 DEF TypeInv
    <3>2. Append(pipe[p], m) \in Seq(Messages)
      BY <1>6, <3>1
    <3> QED
      BY <1>1, <1>3, <3>2 DEF TypeInv
  <2>2. left' \in [Actors -> Int]
    <3>1. left[p] - 1 \in Int
      BY <1>4, <1>5
    <3> QED
      BY <1>1, <1>3, <3>1 DEF TypeInv
  <2>3. pc' \in [Actors -> Running \cup {"off", "done", "failed", "killed"}]
    BY <1>1, <1>3 DEF TypeInv, Running
  <2> QED
    BY <1>1, <1>3, <2>1, <2>2, <2>3 DEF TypeInv
<1>13. Sorted'
  BY <1>1, <1>3, <1>4, <1>10, <1>11 DEF Sorted
<1>14. Control'
  <2>1. \A r \in Receivers : r # p /\ r \in Actors
    BY Actors1 DEF Actors
  <2>2. \A a \in Actors : left'[a] \in 0 .. CountOf(a) /\ (pc'[a] \in Running => left'[a] > 0)
    BY <1>1, <1>4, <1>5, <1>11 DEF Control, Running
  <2>3. \A q \in Producers : pc'[q] \in {"off", "ready", "done", "killed"}
    BY <1>1, <1>11, Actors1 DEF Control
  <2> QED
    BY <1>1, <1>3, <1>11, <2>1, <2>2, <2>3 DEF Control
<1>15. Room'
  <2> SUFFICES ASSUME NEW u \in Senders PROVE Len(pipe'[u]) + left'[u] <= Hwm(u)
    BY DEF Room
  <2>0. u \in Actors
    BY Actors1
  <2>1. CASE u = p
    <3>1. left[p] \in Int /\ Hwm(p) \in Int /\ Len(pipe[p]) + left[p] <= Hwm(p)
      BY <1>1, <1>4, Actors1 DEF Room, TypeInv
    <3>2. PICK n \in Nat : n = Len(pipe[p]) /\ Len(pipe'[u]) = n + 1
      BY <1>10, <1>11, <2>1
    <3> QED
      BY <1>4, <1>11, <2>1, <3>1, <3>2
  <2>2. CASE u # p
    BY <1>1, <1>11, <2>0, <2>2 DEF Room
  <2> QED
    BY <2>1, <2>2
<1>16. Housed'
  <2>1. PICK place \in Homes : place = <<"pipe", p>>
    BY <1>4 DEF Homes
  <2>2. PICK g : g = <<p, k>>
    OBVIOUS
  <2>3. Moves(g, place, {})
    <3> USE DEF Moves
    <3> TAKE a \in Producers
    <3> TAKE b \in Slots(a)
    <3>1. Ahead(a, b)' => Ahead(a, b) /\ <<a, b>> # g
      <4>1. CASE a = p
        BY <1>2, <1>3, <1>4, <1>5, <1>11, <2>2, <4>1 DEF Ahead, Slots
      <4>2. CASE a # p
        BY <1>11, <2>2, <4>2, Actors1 DEF Ahead
      <4> QED
        BY <4>1, <4>2
    <3>2. <<a, b>> = g => a = p /\ b = k
      BY <2>2
    <3>3. \A r \in Receivers : pc'[r] = pc[r]
      BY <1>11, Actors1 DEF Actors
    <3> QED
      BY <1>3, <1>4, <1>8, <1>9, <1>10, <1>11, <2>1, <2>2, <3>1, <3>2, <3>3
  <2> QED
    BY <1>1, <1>3, <2>3, MoveStep
<1> QED
  BY <1>12, <1>13, <1>14, <1>15, <1>16 DEF ChainInv

LEMMA ReceiveStep ==
    ASSUME ChainInv, NEW r \in Receivers, Receive(r)
    PROVE  ChainInv'
<1>1. TypeInv /\ Sorted /\ Control /\ Room /\ Housed
  BY DEF ChainInv
<1>2. PICK m : m = Head(arrived[r])
  OBVIOUS
<1>3. /\ pc[r] = "ready" /\ arrived[r] # << >>
      /\ held' = [held EXCEPT ![r] = m]
      /\ arrived' = [arrived EXCEPT ![r] = Tail(arrived[r])]
      /\ pc' = [pc EXCEPT ![r] = "got"]
      /\ UNCHANGED <<left, before, cached, image, expired, pipe, accepted, lost, crashes>>
  BY <1>2 DEF Receive, ends
<1>4. held[r] = Nothing
  BY <1>1, <1>3 DEF Control, Holding
<1>5. /\ m \in Mail(r - 1) /\ Tail(arrived[r]) \in Seq(Mail(r - 1))
      /\ NoDuplicate(Tail(arrived[r]))
      /\ Frame(m) \in FramesOf(arrived[r])
      /\ \A f : f \in FramesOf(Tail(arrived[r])) <=> f \in FramesOf(arrived[r]) /\ f # Frame(m)
  BY <1>1, <1>2, <1>3, TailQueue DEF Sorted
<1>6. m \in Messages /\ m # Nothing /\ Frame(m) \in Frames /\ FrameOf(m) = {Frame(m)}
  BY <1>5, MailFacts
<1>7. PICK p \in Producers : \E k \in Slots(p) : Frame(m) = <<p, k>>
  BY <1>6, FramePairs
<1>8. PICK k \in Slots(p) : Frame(m) = <<p, k>>
  BY <1>7
<1>9. /\ \A u \in Receivers : <<p, k>> \in FramesOf(arrived[u]) => u = r
      /\ \A u \in Senders : <<p, k>> \notin FramesOf(pipe[u])
      /\ \A u \in Receivers : <<p, k>> \notin FrameOf(held[u])
      /\ <<p, k>> \notin accepted \cup lost /\ ~Ahead(p, k)
  BY <1>1, <1>5, <1>8, Apart
<1>10. image[p][k] = Expected(r - 1)
  BY <1>1, <1>5, <1>8 DEF Housed, Byte
<1>11. /\ \A u \in Receivers : arrived'[u] = IF u = r THEN Tail(arrived[r]) ELSE arrived[u]
       /\ \A u \in Receivers : held'[u] = IF u = r THEN m ELSE held[u]
       /\ \A a \in Actors : pc'[a] = IF a = r THEN "got" ELSE pc[a]
       /\ r \in Actors
  BY <1>1, <1>3 DEF TypeInv, Actors
<1>12. TypeInv'
  <2>1. arrived' \in [Receivers -> Seq(Messages)]
    BY <1>1, <1>3 DEF TypeInv
  <2>2. held' \in [Receivers -> Messages \cup {Nothing}]
    BY <1>1, <1>3, <1>6 DEF TypeInv
  <2>3. pc' \in [Actors -> Running \cup {"off", "done", "failed", "killed"}]
    BY <1>1, <1>3 DEF TypeInv, Running
  <2> QED
    BY <1>1, <1>3, <2>1, <2>2, <2>3 DEF TypeInv
<1>13. Sorted'
  BY <1>1, <1>3, <1>5, <1>11 DEF Sorted
<1>14. Control'
  BY <1>1, <1>3, <1>6, <1>11, Actors1 DEF Control, Holding, Running, Actors
<1>15. Room'
  BY <1>1, <1>3 DEF Room
<1>16. Housed'
  <2>1. PICK place \in Homes : place = <<"held", r>>
    BY DEF Homes
  <2>2. PICK g : g = <<p, k>>
    OBVIOUS
  <2>3. Moves(g, place, {})
    <3> USE DEF Moves
    <3> TAKE a \in Producers
    <3> TAKE b \in Slots(a)
    <3>1. Ahead(a, b)' = Ahead(a, b)
      BY <1>3, <1>11, Actors1 DEF Ahead
    <3>2. <<a, b>> = g => a = p /\ b = k
      BY <2>2
    <3>3. \A u \in Receivers : u # r => pc'[u] = pc[u]
      BY <1>11 DEF Actors
    <3>4. ASSUME NEW u \in Receivers, <<a, b>> \in FrameOf(held'[u])
          PROVE  \/ <<a, b>> \in FrameOf(held[u]) /\ <<a, b>> # g /\ pc'[u] = pc[u]
                 \/ /\ <<a, b>> = g /\ place = <<"held", u>>
                    /\ image[a][b] = Expected(u - 1) /\ pc'[u] # "stored"
      <4>1. CASE u = r
        <5>1. <<a, b>> = g
          BY <1>6, <1>8, <1>11, <2>2, <3>4, <4>1
        <5> QED
          BY <1>10, <1>11, <2>1, <3>2, <4>1, <5>1
      <4>2. CASE u # r
        BY <1>9, <1>11, <2>2, <3>3, <3>4, <4>2
      <4> QED
        BY <4>1, <4>2
    <3>5. \A u \in Receivers : <<a, b>> \in FramesOf(arrived'[u]) =>
             <<a, b>> \in FramesOf(arrived[u]) /\ <<a, b>> # g
      BY <1>5, <1>8, <1>9, <1>11, <2>2
    <3>6. \A u \in Senders : <<a, b>> \in FramesOf(pipe'[u]) =>
             <<a, b>> \in FramesOf(pipe[u]) /\ <<a, b>> # g
      BY <1>3, <1>9, <2>2
    <3>7. /\ <<a, b>> \in accepted' \cup lost' => <<a, b>> \in accepted \cup lost /\ <<a, b>> # g
          /\ Ahead(a, b) => <<a, b>> # g
      BY <1>3, <1>9, <2>2, <3>2
    <3> QED
      BY <3>1, <3>4, <3>5, <3>6, <3>7
  <2> QED
    BY <1>1, <1>3, <2>3, MoveStep
<1> QED
  BY <1>12, <1>13, <1>14, <1>15, <1>16 DEF ChainInv

LEMMA LingerStep ==
    ASSUME ChainInv, NEW s \in Senders, LingerExpires(s)
    PROVE  ChainInv'
<1>1. TypeInv /\ Sorted /\ Control /\ Room /\ Housed
  BY DEF ChainInv
<1>2. /\ pipe' = [pipe EXCEPT ![s] = << >>]
      /\ lost' = lost \cup FramesOf(pipe[s])
      /\ UNCHANGED <<pc, left, held, before, cached, image, expired, arrived, accepted, crashes>>
  BY DEF LingerExpires, Loses
<1>3. \A u \in Senders : pipe'[u] = IF u = s THEN << >> ELSE pipe[u]
  BY <1>1, <1>2 DEF TypeInv
<1>4. FramesOf(pipe[s]) \in SUBSET Frames
  BY <1>1, QueueFrames DEF Sorted
<1>5. TypeInv'
  <2>1. pipe' \in [Senders -> Seq(Messages)]
    BY <1>1, <1>2 DEF TypeInv
  <2> QED
    BY <1>1, <1>2, <1>4, <2>1 DEF TypeInv
<1>6. Sorted'
  BY <1>1, <1>2, <1>3, EmptyQueue DEF Sorted
<1>7. Control'
  BY <1>1, <1>2 DEF Control
<1>8. Room'
  <2> SUFFICES ASSUME NEW u \in Senders PROVE Len(pipe'[u]) + left[u] <= Hwm(u)
    BY <1>2 DEF Room
  <2>1. left[u] \in Int /\ Hwm(u) \in Int /\ Len(pipe[u]) + left[u] <= Hwm(u) /\ Len(pipe[u]) \in Nat
    BY <1>1, Actors1 DEF Room, TypeInv
  <2>2. Len(pipe'[u]) = 0 \/ pipe'[u] = pipe[u]
    BY <1>3
  <2> QED
    BY <2>1, <2>2
<1>9. Housed'
  <2>1. PICK D : D = FramesOf(pipe[s])
    OBVIOUS
  <2>2. Drops(D)
    <3> SUFFICES ASSUME NEW a \in Producers, NEW b \in Slots(a)
                 PROVE  Drops(D)!(a)!(b)
      BY DEF Drops
    <3>1. Ahead(a, b)' = Ahead(a, b)
      BY <1>2 DEF Ahead
    <3>2. <<a, b>> \in D =>
             /\ \A u \in Senders : <<a, b>> \in FramesOf(pipe[u]) => u = s
             /\ \A u \in Receivers : <<a, b>> \notin FramesOf(arrived[u]) /\ <<a, b>> \notin FrameOf(held[u])
             /\ ~Ahead(a, b)
      BY <1>1, <2>1, Apart
    <3> QED
      BY <1>2, <1>3, <2>1, <3>1, <3>2, EmptyQueue
  <2> QED
    BY <1>1, <1>2, <1>4, <2>1, <2>2, DropStep
<1> QED
  BY <1>5, <1>6, <1>7, <1>8, <1>9 DEF ChainInv

\* Some processes drop what they hold, some sockets what they carry.
Clears(A, H, P) ==
    /\ \A r \in Receivers :
          /\ arrived'[r] = IF r \in A THEN << >> ELSE arrived[r]
          /\ held'[r] = IF r \in H THEN Nothing ELSE held[r]
          /\ r \notin H => (pc'[r] = "stored" <=> pc[r] = "stored")
    /\ \A s \in Senders : pipe'[s] = IF s \in P THEN << >> ELSE pipe[s]
    /\ \A p \in Producers : \A k \in Slots(p) : Ahead(p, k)' => Ahead(p, k)
    /\ \A f \in accepted' \cup lost' :
          \/ f \in accepted \cup lost
          \/ \E r \in Receivers : r \in A /\ f \in FramesOf(arrived[r])
          \/ \E r \in Receivers : r \in H /\ f \in FrameOf(held[r])
          \/ \E s \in Senders : s \in P /\ f \in FramesOf(pipe[s])

LEMMA ClearStep ==
    ASSUME ChainInv, UNCHANGED image, NEW A, NEW H, NEW P, Clears(A, H, P)
    PROVE  Sorted' /\ Housed'
<1>1. TypeInv /\ Sorted /\ Housed
  BY DEF ChainInv
<1>2. Sorted'
  <2>1. ASSUME NEW s \in Senders
        PROVE  pipe'[s] \in Seq(Mail(Level(s))) /\ NoDuplicate(pipe'[s])
    <3>1. pipe[s] \in Seq(Mail(Level(s))) /\ NoDuplicate(pipe[s])
      BY <1>1 DEF Sorted
    <3>2. pipe'[s] = << >> \/ pipe'[s] = pipe[s]
      BY DEF Clears
    <3>3. << >> \in Seq(Mail(Level(s))) /\ NoDuplicate(<< >>)
      BY EmptyQueue
    <3> QED
      BY <3>1, <3>2, <3>3
  <2>2. ASSUME NEW r \in Receivers
        PROVE  /\ arrived'[r] \in Seq(Mail(r - 1)) /\ NoDuplicate(arrived'[r])
               /\ held'[r] \in Mail(r - 1) \cup {Nothing}
    <3>1. /\ arrived[r] \in Seq(Mail(r - 1)) /\ NoDuplicate(arrived[r])
          /\ held[r] \in Mail(r - 1) \cup {Nothing}
      BY <1>1 DEF Sorted
    <3>2. /\ arrived'[r] = << >> \/ arrived'[r] = arrived[r]
          /\ held'[r] = Nothing \/ held'[r] = held[r]
      BY DEF Clears
    <3>3. << >> \in Seq(Mail(r - 1)) /\ NoDuplicate(<< >>)
      BY EmptyQueue
    <3> QED
      BY <3>1, <3>2, <3>3
  <2> QED
    BY <2>1, <2>2 DEF Sorted
<1>3. PICK D \in SUBSET Frames :
         \A f \in Frames : f \in D <=>
               \/ \E r \in Receivers : r \in A /\ f \in FramesOf(arrived[r])
               \/ \E r \in Receivers : r \in H /\ f \in FrameOf(held[r])
               \/ \E s \in Senders : s \in P /\ f \in FramesOf(pipe[s])
  <2> DEFINE D0 == {f \in Frames :
               \/ \E r \in Receivers : r \in A /\ f \in FramesOf(arrived[r])
               \/ \E r \in Receivers : r \in H /\ f \in FrameOf(held[r])
               \/ \E s \in Senders : s \in P /\ f \in FramesOf(pipe[s])}
  <2>1. D0 \in SUBSET Frames
    OBVIOUS
  <2> QED
    BY <2>1
<1>4. Drops(D)
  <2> SUFFICES ASSUME NEW a \in Producers, NEW b \in Slots(a)
               PROVE  Drops(D)!(a)!(b)
    BY DEF Drops
  <2>1. PICK f \in Frames : f = <<a, b>>
    <3>1. <<a, b>> \in Frames
      BY DEF Frames
    <3> QED
      BY <3>1
  <2>2. /\ \A s \in Senders : f \in FramesOf(pipe[s]) =>
              /\ \A u \in Senders : f \in FramesOf(pipe[u]) => u = s
              /\ \A r \in Receivers : f \notin FramesOf(arrived[r]) /\ f \notin FrameOf(held[r])
              /\ f \notin accepted \cup lost /\ ~Ahead(a, b)
        /\ \A r \in Receivers : f \in FramesOf(arrived[r]) =>
              /\ \A u \in Receivers : f \in FramesOf(arrived[u]) => u = r
              /\ \A u \in Receivers : f \notin FrameOf(held[u])
              /\ f \notin accepted \cup lost /\ ~Ahead(a, b)
        /\ \A r \in Receivers : f \in FrameOf(held[r]) =>
              /\ \A u \in Receivers : f \in FrameOf(held[u]) => u = r
              /\ f \notin accepted \cup lost /\ ~Ahead(a, b)
    BY <1>1, <2>1, Apart
  <2>3. \A s \in Senders : f \in FramesOf(pipe'[s]) => f \in FramesOf(pipe[s]) /\ f \notin D
    <3> TAKE s \in Senders
    <3> HAVE f \in FramesOf(pipe'[s])
    <3>1. s \notin P /\ f \in FramesOf(pipe[s])
      BY EmptyQueue DEF Clears
    <3> QED
      BY <1>3, <2>2, <3>1
  <2>4. \A r \in Receivers : f \in FramesOf(arrived'[r]) => f \in FramesOf(arrived[r]) /\ f \notin D
    <3> TAKE r \in Receivers
    <3> HAVE f \in FramesOf(arrived'[r])
    <3>1. r \notin A /\ f \in FramesOf(arrived[r])
      BY EmptyQueue DEF Clears
    <3> QED
      BY <1>3, <2>2, <3>1
  <2>5. \A r \in Receivers : f \in FrameOf(held'[r]) =>
           /\ f \in FrameOf(held[r]) /\ f \notin D
           /\ pc'[r] = "stored" <=> pc[r] = "stored"
    <3> TAKE r \in Receivers
    <3> HAVE f \in FrameOf(held'[r])
    <3>1. r \notin H /\ f \in FrameOf(held[r])
      BY NoFrames DEF Clears
    <3> QED
      BY <1>3, <2>2, <3>1 DEF Clears
  <2>6. Ahead(a, b)' => Ahead(a, b) /\ f \notin D
    BY <1>3, <2>2 DEF Clears
  <2>7. f \in accepted' \cup lost' => f \in D \/ f \in accepted \cup lost
    BY <1>3 DEF Clears
  <2> QED
    BY <2>1, <2>3, <2>4, <2>5, <2>6, <2>7
<1>5. Housed'
  BY <1>1, <1>4, DropStep
<1> QED
  BY <1>2, <1>5

\* What the end of a process leaves of it.
LEMMA EndsEffect ==
    ASSUME TypeInv, NEW r \in Receivers, NEW how, Ends(r, how)
    PROVE  /\ held' \in [Receivers -> Messages \cup {Nothing}]
           /\ before' \in [Receivers -> 0 .. Modulus - 1]
           /\ cached' \in [Receivers -> SUBSET Producers]
           /\ arrived' \in [Receivers -> Seq(Messages)]
           /\ \A u \in Receivers :
                 /\ arrived'[u] = IF u \in {r} THEN << >> ELSE arrived[u]
                 /\ held'[u] = IF u \in {r} THEN Nothing ELSE held[u]
                 /\ u # r => before'[u] = before[u]
           /\ \A a \in Actors : pc'[a] = IF a = r THEN how ELSE pc[a]
           /\ pc' = [pc EXCEPT ![r] = how]
<1>1. 0 \in 0 .. Modulus - 1
  BY ShmChainAssumption
<1> QED
  BY <1>1 DEF TypeInv, Ends

\* The control part of such a step.
LEMMA EndsControl ==
    ASSUME Control, TypeInv, NEW r \in Receivers,
           \A u \in Receivers :
               /\ held'[u] = IF u \in {r} THEN Nothing ELSE held[u]
               /\ u # r => before'[u] = before[u],
           \A a \in Actors : a # r => pc'[a] = pc[a],
           pc'[r] \in {"done", "failed", "killed", "ready"},
           left'[r] \in 0 .. CountOf(r), pc'[r] = "ready" => left'[r] > 0,
           \A a \in Actors : a # r => left'[a] = left[a]
    PROVE  Control'
<1>1. r \notin Producers /\ r \in Actors /\ Producers \subseteq Actors /\ Receivers \subseteq Actors
  BY Actors1 DEF Actors
<1>2. \A p \in Producers : pc'[p] \in {"off", "ready", "done", "killed"}
  BY <1>1 DEF Control
<1>3. \A a \in Actors : left'[a] \in 0 .. CountOf(a) /\ (pc'[a] \in Running => left'[a] > 0)
  BY <1>1 DEF Control, Running
<1>4. ASSUME NEW u \in Receivers
      PROVE  /\ held'[u] # Nothing <=> pc'[u] \in Holding
             /\ pc'[u] \in {"loaded", "stored"} => u \in Stages
             /\ pc'[u] = "loaded" => before'[u] = Expected(u - 1)
  <2>1. CASE u = r
    BY <2>1 DEF Holding
  <2>2. CASE u # r
    BY <1>1, <2>2 DEF Control
  <2> QED
    BY <2>1, <2>2
<1> QED
  BY <1>2, <1>3, <1>4 DEF Control

LEMMA OpenFailsStep ==
    ASSUME ChainInv, NEW r \in Receivers, OpenFails(r)
    PROVE  ChainInv'
<1>1. TypeInv /\ Sorted /\ Control /\ Room /\ Housed
  BY DEF ChainInv
<1>2. /\ Ends(r, "failed")
      /\ lost' = lost \cup (FrameOf(held[r]) \cup FramesOf(arrived[r]))
      /\ UNCHANGED <<left, image, expired, pipe, accepted, crashes>>
  BY DEF OpenFails, Loses, InHand, FrameOf
<1>3. PICK R, none : R = {r} /\ none = {}
  OBVIOUS
<1>4. /\ held' \in [Receivers -> Messages \cup {Nothing}]
      /\ before' \in [Receivers -> 0 .. Modulus - 1]
      /\ cached' \in [Receivers -> SUBSET Producers]
      /\ arrived' \in [Receivers -> Seq(Messages)]
      /\ \A u \in Receivers :
            /\ arrived'[u] = IF u \in R THEN << >> ELSE arrived[u]
            /\ held'[u] = IF u \in R THEN Nothing ELSE held[u]
            /\ u # r => before'[u] = before[u]
      /\ \A a \in Actors : pc'[a] = IF a = r THEN "failed" ELSE pc[a]
      /\ pc' = [pc EXCEPT ![r] = "failed"]
  BY <1>1, <1>2, <1>3, EndsEffect
<1>5. r \in Actors /\ r \notin Producers
  BY Actors1 DEF Actors
<1>6. \A p \in Producers : \A k \in Slots(p) : Ahead(p, k)' => Ahead(p, k)
  BY <1>2, <1>4, <1>5, Actors1 DEF Ahead
<1>7. Sorted' /\ Housed'
  <2>1. \A s \in Senders : pipe'[s] = IF s \in none THEN << >> ELSE pipe[s]
    BY <1>2, <1>3
  <2>2. \A f \in accepted' \cup lost' :
           \/ f \in accepted \cup lost
           \/ \E u \in Receivers : u \in R /\ f \in FramesOf(arrived[u])
           \/ \E u \in Receivers : u \in R /\ f \in FrameOf(held[u])
    BY <1>2, <1>3
  <2>3. \A u \in Receivers :
           /\ arrived'[u] = IF u \in R THEN << >> ELSE arrived[u]
           /\ held'[u] = IF u \in R THEN Nothing ELSE held[u]
           /\ u \notin R => (pc'[u] = "stored" <=> pc[u] = "stored")
    BY <1>3, <1>4 DEF Actors
  <2>4. Clears(R, R, none)
    BY <1>6, <2>1, <2>2, <2>3 DEF Clears
  <2> QED
    BY <1>2, <2>4, ClearStep
<1>8. TypeInv'
  <2>1. FrameOf(held[r]) \subseteq Frames /\ FramesOf(arrived[r]) \subseteq Frames
    BY <1>1, MailFacts, QueueFrames, NoFrames DEF Sorted
  <2>2. pc' \in [Actors -> Running \cup {"off", "done", "failed", "killed"}]
    BY <1>1, <1>4 DEF TypeInv
  <2> QED
    BY <1>1, <1>2, <1>4, <2>1, <2>2 DEF TypeInv
<1>9. Control'
  <2>1. \A u \in Receivers :
           /\ held'[u] = IF u \in {r} THEN Nothing ELSE held[u]
           /\ u # r => before'[u] = before[u]
    BY <1>3, <1>4
  <2>2. left'[r] \in 0 .. CountOf(r) /\ pc'[r] = "failed"
    BY <1>1, <1>2, <1>4, <1>5 DEF Control
  <2> QED
    BY <1>1, <1>2, <1>4, <2>1, <2>2, EndsControl
<1>10. Room'
  BY <1>1, <1>2 DEF Room
<1> QED
  BY <1>7, <1>8, <1>9, <1>10 DEF ChainInv

LEMMA CrashStep ==
    ASSUME ChainInv, NEW a \in Actors, Crash(a)
    PROVE  ChainInv'
<1>1. TypeInv /\ Sorted /\ Control /\ Room /\ Housed
  BY DEF ChainInv
<1>2. PICK R, S, D :
         /\ R = {a} \cap Receivers /\ S = {a} \cap Senders
         /\ D = (IF a \in Receivers THEN FrameOf(held[a]) \cup FramesOf(arrived[a]) ELSE {})
                   \cup (IF a \in Senders THEN FramesOf(pipe[a]) ELSE {})
  OBVIOUS
<1>3. /\ crashes < MaxCrashes /\ crashes' = crashes + 1
      /\ lost' = lost \cup D
      /\ UNCHANGED <<left, image, expired, accepted>>
      /\ pc[a] \in Running /\ pc' = [pc EXCEPT ![a] = "killed"]
  BY <1>2 DEF Crash, Ends, Loses, InHand, FrameOf
<1>4. /\ held' \in [Receivers -> Messages \cup {Nothing}]
      /\ before' \in [Receivers -> 0 .. Modulus - 1]
      /\ cached' \in [Receivers -> SUBSET Producers]
      /\ arrived' \in [Receivers -> Seq(Messages)]
      /\ \A u \in Receivers :
            /\ arrived'[u] = IF u \in R THEN << >> ELSE arrived[u]
            /\ held'[u] = IF u \in R THEN Nothing ELSE held[u]
            /\ u # a => before'[u] = before[u]
  <2>1. CASE a \in Receivers
    <3>1. Ends(a, "killed")
      BY <2>1 DEF Crash
    <3>2. R = {a}
      BY <1>2, <2>1
    <3> QED
      BY <1>1, <2>1, <3>1, <3>2, EndsEffect
  <2>2. CASE a \notin Receivers
    <3>1. UNCHANGED <<held, before, cached, arrived>>
      BY <2>2 DEF Crash
    <3>2. \A u : u \notin R
      BY <1>2, <2>2
    <3> QED
      BY <1>1, <3>1, <3>2 DEF TypeInv
  <2> QED
    BY <2>1, <2>2
<1>5. \A b \in Actors : pc'[b] = IF b = a THEN "killed" ELSE pc[b]
  BY <1>1, <1>3 DEF TypeInv
<1>6. /\ pipe' \in [Senders -> Seq(Messages)]
      /\ \A s \in Senders : pipe'[s] = IF s \in S THEN << >> ELSE pipe[s]
  <2>1. CASE a \in Senders
    <3>1. pipe' = [pipe EXCEPT ![a] = << >>]
      BY <2>1 DEF Crash
    <3>2. \A s : s \in S <=> s = a
      BY <1>2, <2>1
    <3>3. << >> \in Seq(Messages)
      OBVIOUS
    <3>4. pipe' \in [Senders -> Seq(Messages)]
      BY <1>1, <3>1, <3>3 DEF TypeInv
    <3>5. \A s \in Senders : pipe'[s] = IF s = a THEN << >> ELSE pipe[s]
      BY <1>1, <3>1 DEF TypeInv
    <3> QED
      BY <3>2, <3>4, <3>5
  <2>2. CASE a \notin Senders
    <3>1. UNCHANGED pipe
      BY <2>2 DEF Crash
    <3>2. \A s : s \notin S
      BY <1>2, <2>2
    <3> QED
      BY <1>1, <3>1, <3>2 DEF TypeInv
  <2> QED
    BY <2>1, <2>2
<1>7. \A p \in Producers : \A k \in Slots(p) : Ahead(p, k)' => Ahead(p, k)
  BY <1>3, <1>5, Actors1 DEF Ahead
<1>8. Sorted' /\ Housed'
  <2>1. \A f \in accepted' \cup lost' :
           \/ f \in accepted \cup lost
           \/ \E u \in Receivers : u \in R /\ f \in FramesOf(arrived[u])
           \/ \E u \in Receivers : u \in R /\ f \in FrameOf(held[u])
           \/ \E s \in Senders : s \in S /\ f \in FramesOf(pipe[s])
    <3> SUFFICES ASSUME NEW f \in D
                 PROVE  \/ \E u \in Receivers : u \in R /\ f \in FramesOf(arrived[u])
                        \/ \E u \in Receivers : u \in R /\ f \in FrameOf(held[u])
                        \/ \E s \in Senders : s \in S /\ f \in FramesOf(pipe[s])
      BY <1>3
    <3>1. CASE a \in Receivers /\ f \in FrameOf(held[a]) \cup FramesOf(arrived[a])
      BY <1>2, <3>1
    <3>2. CASE a \in Senders /\ f \in FramesOf(pipe[a])
      BY <1>2, <3>2
    <3> QED
      BY <1>2, <3>1, <3>2
  <2>2. \A u \in Receivers : u \notin R => pc'[u] = pc[u]
    BY <1>2, <1>5 DEF Actors
  <2>3. Clears(R, R, S)
    BY <1>4, <1>6, <1>7, <2>1, <2>2 DEF Clears
  <2> QED
    BY <1>3, <2>3, ClearStep
<1>9. TypeInv'
  <2>1. D \subseteq Frames
    <3>1. a \in Receivers => FrameOf(held[a]) \subseteq Frames /\ FramesOf(arrived[a]) \subseteq Frames
      BY <1>1, MailFacts, QueueFrames, NoFrames DEF Sorted
    <3>2. a \in Senders => FramesOf(pipe[a]) \subseteq Frames
      BY <1>1, QueueFrames DEF Sorted
    <3> QED
      BY <1>2, <3>1, <3>2
  <2>2. pc' \in [Actors -> Running \cup {"off", "done", "failed", "killed"}]
    BY <1>1, <1>3 DEF TypeInv
  <2>3. crashes' \in 0 .. MaxCrashes
    BY <1>1, <1>3, ShmChainAssumption DEF TypeInv
  <2> QED
    BY <1>1, <1>3, <1>4, <1>6, <2>1, <2>2, <2>3 DEF TypeInv
<1>10. Control'
  <2>1. CASE a \in Receivers
    <3>1. \A u \in Receivers :
             /\ held'[u] = IF u \in {a} THEN Nothing ELSE held[u]
             /\ u # a => before'[u] = before[u]
      BY <1>2, <1>4, <2>1
    <3>2. left'[a] \in 0 .. CountOf(a) /\ pc'[a] = "killed"
      BY <1>1, <1>3, <1>5 DEF Control
    <3> QED
      BY <1>1, <1>3, <1>5, <2>1, <3>1, <3>2, EndsControl
  <2>2. CASE a \notin Receivers
    <3>1. a \in Producers
      BY <2>2 DEF Actors
    <3>2. \A u \in Receivers : held'[u] = held[u] /\ before'[u] = before[u] /\ pc'[u] = pc[u]
      <4>1. UNCHANGED <<held, before>>
        BY <2>2 DEF Crash
      <4> QED
        BY <1>5, <2>2, <4>1 DEF Actors
    <3>3. \A b \in Actors : left'[b] \in 0 .. CountOf(b) /\ (pc'[b] \in Running => left'[b] > 0)
      BY <1>1, <1>3, <1>5 DEF Control, Running
    <3>4. \A p \in Producers : pc'[p] \in {"off", "ready", "done", "killed"}
      BY <1>1, <1>5 DEF Control, Actors
    <3> QED
      BY <1>1, <3>2, <3>3, <3>4 DEF Control
  <2> QED
    BY <2>1, <2>2
<1>11. Room'
  <2> SUFFICES ASSUME NEW u \in Senders PROVE Len(pipe'[u]) + left[u] <= Hwm(u)
    BY <1>3 DEF Room
  <2>1. left[u] \in Int /\ Hwm(u) \in Int /\ Len(pipe[u]) + left[u] <= Hwm(u) /\ Len(pipe[u]) \in Nat
    BY <1>1, Actors1 DEF Room, TypeInv
  <2>2. Len(pipe'[u]) = 0 \/ pipe'[u] = pipe[u]
    BY <1>6
  <2> QED
    BY <2>1, <2>2
<1> QED
  BY <1>8, <1>9, <1>10, <1>11 DEF ChainInv

\* image[slot] = before + r: the byte of the frame in hand, and no other.
LEMMA StoreStep ==
    ASSUME ChainInv, NEW r \in Receivers, Store(r)
    PROVE  ChainInv'
<1>1. TypeInv /\ Sorted /\ Control /\ Room /\ Housed
  BY DEF ChainInv
<1>2. PICK p, k : p = held[r].producer /\ k = held[r].sequence
  OBVIOUS
<1>3. /\ pc[r] = "loaded" /\ pc' = [pc EXCEPT ![r] = "stored"]
      /\ image' = [image EXCEPT ![p][k] = Mutated(before[r], r)]
      /\ UNCHANGED <<left, held, before, cached, expired, pipe, arrived, accepted, lost, crashes>>
  BY <1>2 DEF Store, ends
<1>4. /\ r \in Stages /\ before[r] = Expected(r - 1)
      /\ p \in Producers /\ k \in Slots(p) /\ FrameOf(held[r]) = {<<p, k>>}
  <2>1. held[r] \in Mail(r - 1) /\ r \in Stages /\ before[r] = Expected(r - 1)
    BY <1>1, <1>3 DEF Sorted, Control, Holding
  <2> QED
    BY <1>2, <2>1, MailFacts
<1>5. Mutated(before[r], r) = Expected(r) /\ Expected(r) \in 0 .. Modulus - 1
  <2>1. r \in Nat \ {0} /\ r + 1 \in Nat \ {0} /\ (r + 1) - 1 = r
    BY Actors1
  <2> QED
    BY <1>4, <2>1, ExpectedFacts
<1>6. /\ DOMAIN image' = Producers
      /\ \A a \in Producers : image'[a] \in [Slots(a) -> 0 .. Modulus - 1]
      /\ \A a \in Producers : \A b \in Slots(a) :
            image'[a][b] = IF <<a, b>> = <<p, k>> THEN Expected(r) ELSE image[a][b]
  <2>1. PICK v \in 0 .. Modulus - 1 : v = Expected(r) /\ v = Mutated(before[r], r)
    BY <1>5
  <2>2. image' = [image EXCEPT ![p][k] = v]
    BY <1>3, <2>1
  <2> QED
    BY <1>1, <1>4, <2>1, <2>2 DEF TypeInv
<1>7. r \in Actors /\ \A a \in Actors : pc'[a] = IF a = r THEN "stored" ELSE pc[a]
  BY <1>1, <1>3 DEF TypeInv, Actors
<1>8. TypeInv'
  <2>1. pc' \in [Actors -> Running \cup {"off", "done", "failed", "killed"}]
    BY <1>1, <1>3 DEF TypeInv, Running
  <2> QED
    BY <1>1, <1>3, <1>6, <2>1 DEF TypeInv
<1>9. Control'
  BY <1>1, <1>3, <1>4, <1>7, Actors1 DEF Control, Holding, Running, Actors
<1>10. Sorted' /\ Room'
  BY <1>1, <1>3 DEF Sorted, Room
<1>11. Housed'
  <2> SUFFICES ASSUME NEW a \in Producers, NEW b \in Slots(a)
               PROVE  Byte(a, b)' /\ (\E home \in Homes : Home(a, b, home)')
    BY DEF Housed
  <2>1. PICK home \in Homes : Home(a, b, home)
    BY <1>1 DEF Housed
  <2>2. Ahead(a, b)' = Ahead(a, b)
    BY <1>3, <1>7, Actors1 DEF Ahead
  <2>3. Home(a, b, home)'
    BY <1>3, <2>1, <2>2 DEF Home
  <2>4. Byte(a, b)
    BY <1>1 DEF Housed
  <2>5. CASE <<a, b>> = <<p, k>>
    <3>1. /\ \A s \in Senders : <<a, b>> \notin FramesOf(pipe[s])
          /\ \A u \in Receivers : <<a, b>> \notin FramesOf(arrived[u])
          /\ \A u \in Receivers : <<a, b>> \in FrameOf(held[u]) => u = r
          /\ ~Ahead(a, b)
      <4>1. <<a, b>> \in FrameOf(held[r])
        BY <1>4, <2>5
      <4> QED
        BY <1>1, <4>1, Apart
    <3>2. image'[a][b] = Expected(r)
      BY <1>6, <2>5
    <3>3. pc'[r] = "stored"
      BY <1>7
    <3> QED
      BY <1>3, <2>2, <3>1, <3>2, <3>3, <2>3 DEF Byte
  <2>6. CASE <<a, b>> # <<p, k>>
    <3>1. image'[a][b] = image[a][b]
      BY <1>6, <2>6
    <3>2. \A u \in Receivers : <<a, b>> \in FrameOf(held[u]) => pc'[u] = pc[u]
      BY <1>4, <1>7, <2>6 DEF Actors
    <3> QED
      BY <1>3, <2>2, <2>4, <3>1, <3>2, <2>3 DEF Byte
  <2> QED
    BY <2>5, <2>6
<1> QED
  BY <1>8, <1>9, <1>10, <1>11 DEF ChainInv

\* The end of a round: the hand is empty again, and after the last round the
\* socket drops what it has not read.
LEMMA RoundEffect ==
    ASSUME TypeInv, Sorted, Control, NEW r \in Receivers, pc[r] \in Running, NextRound(r)
    PROVE  /\ held' \in [Receivers -> Messages \cup {Nothing}]
           /\ before' \in [Receivers -> 0 .. Modulus - 1]
           /\ cached' \in [Receivers -> SUBSET Producers]
           /\ arrived' \in [Receivers -> Seq(Messages)]
           /\ pc' \in [Actors -> Running \cup {"off", "done", "failed", "killed"}]
           /\ left' \in [Actors -> Int] /\ left'[r] = left[r] - 1
           /\ lost' \subseteq Frames
           /\ \E A : /\ \A u \in Receivers :
                           arrived'[u] = IF u \in A THEN << >> ELSE arrived[u]
                     /\ \A f \in lost' : f \in lost \/ (r \in A /\ f \in FramesOf(arrived[r]))
                     /\ \A u : u \in A => u = r
           /\ \A u \in Receivers :
                 held'[u] = IF u \in {r} THEN Nothing ELSE held[u]
           /\ \A a \in Actors : a # r => pc'[a] = pc[a] /\ left'[a] = left[a]
           /\ pc'[r] # "stored"
           /\ Control'
<1>1. r \in Actors /\ left[r] \in 1 .. CountOf(r)
  BY DEF Control, Actors
<1>2. left' = [left EXCEPT ![r] = left[r] - 1]
  BY DEF NextRound
<1>3. left' \in [Actors -> Int] /\ left'[r] = left[r] - 1 /\ left[r] - 1 \in 0 .. CountOf(r)
  <2>1. left[r] - 1 \in Int /\ left[r] - 1 \in 0 .. CountOf(r)
    BY <1>1, Actors1
  <2> QED
    BY <1>1, <1>2, <2>1 DEF TypeInv
<1>4. \A a \in Actors : a # r => left'[a] = left[a]
  BY <1>2 DEF TypeInv
<1>5. CASE left[r] > 1
  <2>1. /\ pc' = [pc EXCEPT ![r] = "ready"]
        /\ held' = [held EXCEPT ![r] = Nothing]
        /\ before' = [before EXCEPT ![r] = 0]
        /\ UNCHANGED <<cached, arrived, lost>>
    BY <1>5 DEF NextRound
  <2>2. 0 \in 0 .. Modulus - 1
    BY ShmChainAssumption
  <2>3. /\ held' \in [Receivers -> Messages \cup {Nothing}]
        /\ before' \in [Receivers -> 0 .. Modulus - 1]
        /\ pc' \in [Actors -> Running \cup {"off", "done", "failed", "killed"}]
        /\ \A u \in Receivers :
              /\ held'[u] = IF u \in {r} THEN Nothing ELSE held[u]
              /\ u # r => before'[u] = before[u]
        /\ \A a \in Actors : a # r => pc'[a] = pc[a]
        /\ pc'[r] = "ready"
    BY <1>1, <2>1, <2>2 DEF TypeInv, Running
  <2>4. left'[r] > 0 /\ left'[r] \in 0 .. CountOf(r)
    BY <1>1, <1>3, <1>5
  <2>5. Control'
    BY <1>4, <2>3, <2>4, EndsControl
  <2>6. \E A : /\ \A u \in Receivers :
                     arrived'[u] = IF u \in A THEN << >> ELSE arrived[u]
               /\ \A f \in lost' : f \in lost \/ (r \in A /\ f \in FramesOf(arrived[r]))
               /\ \A u : u \in A => u = r
    <3> WITNESS {}
    <3> QED
      BY <2>1
  <2>7. /\ cached' \in [Receivers -> SUBSET Producers]
        /\ arrived' \in [Receivers -> Seq(Messages)]
        /\ lost' \subseteq Frames
    BY <2>1 DEF TypeInv
  <2> QED
    BY <1>3, <1>4, <2>3, <2>5, <2>6, <2>7
<1>6. CASE ~(left[r] > 1)
  <2>1. Ends(r, "done") /\ lost' = lost \cup FramesOf(arrived[r])
    BY <1>6 DEF NextRound, Loses
  <2>2. /\ held' \in [Receivers -> Messages \cup {Nothing}]
        /\ before' \in [Receivers -> 0 .. Modulus - 1]
        /\ cached' \in [Receivers -> SUBSET Producers]
        /\ arrived' \in [Receivers -> Seq(Messages)]
        /\ \A u \in Receivers :
              /\ arrived'[u] = IF u \in {r} THEN << >> ELSE arrived[u]
              /\ held'[u] = IF u \in {r} THEN Nothing ELSE held[u]
              /\ u # r => before'[u] = before[u]
        /\ \A a \in Actors : pc'[a] = IF a = r THEN "done" ELSE pc[a]
        /\ pc' = [pc EXCEPT ![r] = "done"]
    BY <2>1, EndsEffect
  <2>3. pc' \in [Actors -> Running \cup {"off", "done", "failed", "killed"}]
    BY <2>2 DEF TypeInv
  <2>4. \A u \in Receivers :
           /\ held'[u] = IF u \in {r} THEN Nothing ELSE held[u]
           /\ u # r => before'[u] = before[u]
    BY <2>2
  <2>5. Control'
    <3>1. pc'[r] = "done" /\ \A a \in Actors : a # r => pc'[a] = pc[a]
      BY <1>1, <2>2
    <3>2. left'[r] \in 0 .. CountOf(r)
      BY <1>3
    <3> QED
      BY <1>4, <2>4, <3>1, <3>2, EndsControl
  <2>6. \E A : /\ \A u \in Receivers :
                     arrived'[u] = IF u \in A THEN << >> ELSE arrived[u]
               /\ \A f \in lost' : f \in lost \/ (r \in A /\ f \in FramesOf(arrived[r]))
               /\ \A u : u \in A => u = r
    <3> WITNESS {r}
    <3> QED
      BY <2>1, <2>2
  <2>7. lost' \subseteq Frames
    BY <2>1, QueueFrames DEF TypeInv, Sorted
  <2> QED
    BY <1>1, <1>3, <1>4, <2>2, <2>3, <2>4, <2>5, <2>6, <2>7
<1> QED
  BY <1>5, <1>6

\* The sink accepts every frame that reaches it.
LEMMA SinkAccepts ==
    ASSUME ChainInv, pc[Sink] = "opened"
    PROVE  held[Sink].stage = N /\ Slot(held[Sink]) = Expected(N)
<1>1. Sink \in Receivers /\ Sink - 1 = N
  BY Actors1, ShmChainAssumption DEF Sink
<1>2. held[Sink] \in Mail(N)
  <2>1. held[Sink] \in Mail(Sink - 1)
    BY <1>1 DEF ChainInv, Control, Sorted, Holding
  <2> QED
    BY <1>1, <2>1
<1> DEFINE p == held[Sink].producer
           k == held[Sink].sequence
<1>3. p \in Producers /\ k \in Slots(p) /\ <<p, k>> \in FrameOf(held[Sink]) /\ held[Sink].stage = N
  BY <1>2, MailFacts
<1>4. Slot(held[Sink]) = image[p][k]
  BY DEF Slot
<1> HIDE DEF p, k
<1>5. image[p][k] = Expected(IF pc[Sink] = "stored" THEN Sink ELSE Sink - 1)
  BY <1>1, <1>3 DEF ChainInv, Housed, Byte
<1> QED
  BY <1>1, <1>3, <1>4, <1>5

LEMMA CheckStep ==
    ASSUME ChainInv, Check
    PROVE  ChainInv'
<1>1. TypeInv /\ Sorted /\ Control /\ Room /\ Housed
  BY DEF ChainInv
<1>2. PICK r \in Receivers : r = Sink
  BY Actors1
<1>3. /\ pc[r] = "opened" /\ NextRound(r)
      /\ accepted' = accepted \cup {Frame(held[r])}
      /\ UNCHANGED <<image, expired, pipe, crashes>>
  BY <1>2, SinkAccepts DEF Check
<1>4. FrameOf(held[r]) = {Frame(held[r])} /\ Frame(held[r]) \in Frames
  <2>1. held[r] \in Mail(r - 1)
    BY <1>1, <1>3 DEF Control, Sorted, Holding
  <2> QED
    BY <2>1, MailFacts
<1>5. pc[r] \in Running
  BY <1>3 DEF Running
<1>6. /\ held' \in [Receivers -> Messages \cup {Nothing}]
      /\ before' \in [Receivers -> 0 .. Modulus - 1]
      /\ cached' \in [Receivers -> SUBSET Producers]
      /\ arrived' \in [Receivers -> Seq(Messages)]
      /\ pc' \in [Actors -> Running \cup {"off", "done", "failed", "killed"}]
      /\ left' \in [Actors -> Int] /\ left'[r] = left[r] - 1
      /\ lost' \subseteq Frames
      /\ \A u \in Receivers : held'[u] = IF u \in {r} THEN Nothing ELSE held[u]
      /\ \A a \in Actors : a # r => pc'[a] = pc[a] /\ left'[a] = left[a]
      /\ Control'
  BY <1>1, <1>3, <1>5, RoundEffect
<1>7. PICK A : /\ \A u \in Receivers :
                     arrived'[u] = IF u \in A THEN << >> ELSE arrived[u]
               /\ \A f \in lost' : f \in lost \/ (r \in A /\ f \in FramesOf(arrived[r]))
  BY <1>1, <1>3, <1>5, RoundEffect
<1>8. TypeInv'
  BY <1>1, <1>3, <1>4, <1>6 DEF TypeInv
<1>9. Room'
  <2>1. r \notin Senders
    BY <1>2, Actors1 DEF Senders
  <2>2. \A s \in Senders : left'[s] = left[s]
    BY <1>6, <2>1, Actors1
  <2> QED
    BY <1>1, <1>3, <2>2 DEF Room
<1>10. Sorted' /\ Housed'
  <2>1. PICK R, none : R = {r} /\ none = {}
    OBVIOUS
  <2>2. \A p \in Producers : \A k \in Slots(p) : Ahead(p, k)' => Ahead(p, k)
    BY <1>6, Actors1 DEF Ahead
  <2>3. \A f \in accepted' \cup lost' :
           \/ f \in accepted \cup lost
           \/ \E u \in Receivers : u \in A /\ f \in FramesOf(arrived[u])
           \/ \E u \in Receivers : u \in R /\ f \in FrameOf(held[u])
    BY <1>3, <1>4, <1>7, <2>1
  <2>4. \A u \in Receivers :
           /\ held'[u] = IF u \in R THEN Nothing ELSE held[u]
           /\ u \notin R => pc'[u] = pc[u]
    BY <1>6, <2>1 DEF Actors
  <2>5. \A s \in Senders : pipe'[s] = IF s \in none THEN << >> ELSE pipe[s]
    BY <1>3, <2>1
  <2>6. Clears(A, R, none)
    BY <1>7, <2>2, <2>3, <2>4, <2>5 DEF Clears
  <2> QED
    BY <1>3, <2>6, ClearStep
<1> QED
  BY <1>6, <1>8, <1>9, <1>10 DEF ChainInv

\* The frame in hand goes on, with the stage on it.
LEMMA ForwardStep ==
    ASSUME ChainInv, NEW r \in Stages, Forward(r)
    PROVE  ChainInv'
<1>1. TypeInv /\ Sorted /\ Control /\ Room /\ Housed
  BY DEF ChainInv
<1>2. PICK m : m = [held[r] EXCEPT !.stage = r]
  OBVIOUS
<1>3. /\ pc[r] = "stored" /\ NextRound(r)
      /\ pipe' = [pipe EXCEPT ![r] = Append(pipe[r], m)]
      /\ UNCHANGED <<image, expired, accepted, crashes>>
  BY <1>2 DEF Forward, Sends, Stamped
<1>4. r \in Receivers /\ r \in Senders /\ r \in Actors /\ Level(r) = r /\ r \in 0 .. N
  BY Actors1 DEF Senders
<1>5. held[r] \in Mail(r - 1)
  BY <1>1, <1>3, <1>4 DEF Control, Sorted, Holding
<1> DEFINE p == held[r].producer
           k == held[r].sequence
<1>6. p \in Producers /\ k \in Slots(p) /\ FrameOf(held[r]) = {<<p, k>>}
  BY <1>5, MailFacts
<1>7. m \in Messages /\ m \in Mail(r) /\ Frame(m) = <<p, k>>
  <2>1. held[r] \in Messages
    BY <1>5, MailFacts
  <2>2. /\ m \in Messages /\ m.stage = r
        /\ m.producer = p /\ m.sequence = k
    BY <1>2, <1>4, <2>1 DEF Messages
  <2> HIDE DEF p, k
  <2> QED
    BY <1>6, <2>2 DEF Mail, Frame
<1> HIDE DEF p, k
<1>8. /\ \A u \in Senders : <<p, k>> \notin FramesOf(pipe[u])
      /\ \A u \in Receivers : <<p, k>> \notin FramesOf(arrived[u])
      /\ \A u \in Receivers : <<p, k>> \in FrameOf(held[u]) => u = r
      /\ <<p, k>> \notin accepted \cup lost /\ ~Ahead(p, k)
  <2>1. <<p, k>> \in FrameOf(held[r])
    BY <1>6
  <2> QED
    BY <1>1, <1>4, <1>6, <2>1, Apart
<1>9. image[p][k] = Expected(r)
  <2>1. <<p, k>> \in FrameOf(held[r])
    BY <1>6
  <2>2. Byte(p, k)
    BY <1>1, <1>6 DEF Housed
  <2>3. image[p][k] = Expected(IF pc[r] = "stored" THEN r ELSE r - 1)
    BY <1>4, <2>1, <2>2 DEF Byte
  <2> QED
    BY <1>3, <2>3
<1>10. /\ Append(pipe[r], m) \in Seq(Mail(r)) /\ NoDuplicate(Append(pipe[r], m))
       /\ Len(Append(pipe[r], m)) = Len(pipe[r]) + 1 /\ Len(pipe[r]) \in Nat
       /\ \A f : f \in FramesOf(Append(pipe[r], m)) <=> f \in FramesOf(pipe[r]) \/ f = <<p, k>>
  <2>1. pipe[r] \in Seq(Mail(r)) /\ NoDuplicate(pipe[r])
    BY <1>1, <1>4 DEF Sorted
  <2> QED
    BY <1>4, <1>7, <1>8, <2>1, AppendQueue
<1>11. \A u \in Senders : pipe'[u] = IF u = r THEN Append(pipe[r], m) ELSE pipe[u]
  BY <1>1, <1>3, <1>4 DEF TypeInv
<1>12. pc[r] \in Running
  BY <1>3 DEF Running
<1>13. /\ held' \in [Receivers -> Messages \cup {Nothing}]
       /\ before' \in [Receivers -> 0 .. Modulus - 1]
       /\ cached' \in [Receivers -> SUBSET Producers]
       /\ arrived' \in [Receivers -> Seq(Messages)]
       /\ pc' \in [Actors -> Running \cup {"off", "done", "failed", "killed"}]
       /\ left' \in [Actors -> Int] /\ left'[r] = left[r] - 1
       /\ lost' \subseteq Frames
       /\ \A u \in Receivers : held'[u] = IF u \in {r} THEN Nothing ELSE held[u]
       /\ \A a \in Actors : a # r => pc'[a] = pc[a] /\ left'[a] = left[a]
       /\ pc'[r] # "stored"
       /\ Control'
  BY <1>1, <1>3, <1>4, <1>12, RoundEffect
<1>14. PICK A : /\ \A u \in Receivers :
                      arrived'[u] = IF u \in A THEN << >> ELSE arrived[u]
                /\ \A f \in lost' : f \in lost \/ (r \in A /\ f \in FramesOf(arrived[r]))
                /\ \A u : u \in A => u = r
  BY <1>1, <1>3, <1>4, <1>12, RoundEffect
<1>15. TypeInv'
  <2>1. pipe' \in [Senders -> Seq(Messages)]
    <3>1. pipe[r] \in Seq(Messages)
      BY <1>1, <1>4 DEF TypeInv
    <3>2. Append(pipe[r], m) \in Seq(Messages)
      BY <1>7, <3>1
    <3> QED
      BY <1>1, <1>3, <3>2 DEF TypeInv
  <2> QED
    BY <1>1, <1>3, <1>13, <2>1 DEF TypeInv
<1>16. Sorted'
  <2>1. ASSUME NEW s \in Senders
        PROVE  pipe'[s] \in Seq(Mail(Level(s))) /\ NoDuplicate(pipe'[s])
    BY <1>1, <1>4, <1>10, <1>11 DEF Sorted
  <2>2. ASSUME NEW u \in Receivers
        PROVE  /\ arrived'[u] \in Seq(Mail(u - 1)) /\ NoDuplicate(arrived'[u])
               /\ held'[u] \in Mail(u - 1) \cup {Nothing}
    <3>1. /\ arrived[u] \in Seq(Mail(u - 1)) /\ NoDuplicate(arrived[u])
          /\ held[u] \in Mail(u - 1) \cup {Nothing}
      BY <1>1 DEF Sorted
    <3>2. /\ arrived'[u] = << >> \/ arrived'[u] = arrived[u]
          /\ held'[u] = Nothing \/ held'[u] = held[u]
      BY <1>13, <1>14
    <3>3. << >> \in Seq(Mail(u - 1)) /\ NoDuplicate(<< >>)
      BY EmptyQueue
    <3> QED
      BY <3>1, <3>2, <3>3
  <2> QED
    BY <2>1, <2>2 DEF Sorted
<1>17. Room'
  <2> SUFFICES ASSUME NEW u \in Senders PROVE Len(pipe'[u]) + left'[u] <= Hwm(u)
    BY DEF Room
  <2>0. u \in Actors
    BY Actors1
  <2>1. CASE u = r
    <3>1. left[r] \in Int /\ Hwm(r) \in Int /\ Len(pipe[r]) + left[r] <= Hwm(r)
      BY <1>1, <1>4, Actors1 DEF Room, TypeInv
    <3>2. PICK n \in Nat : n = Len(pipe[r]) /\ Len(pipe'[u]) = n + 1
      BY <1>10, <1>11, <2>1
    <3>3. left'[u] = left[r] - 1
      BY <1>13, <2>1
    <3> QED
      BY <2>1, <3>1, <3>2, <3>3
  <2>2. CASE u # r
    BY <1>1, <1>11, <1>13, <2>0, <2>2 DEF Room
  <2> QED
    BY <2>1, <2>2
<1>18. Housed'
  <2>1. PICK place \in Homes : place = <<"pipe", r>>
    BY <1>4 DEF Homes
  <2>2. PICK g : g = <<p, k>>
    OBVIOUS
  <2>3. PICK D : \A f : f \in D <=> r \in A /\ f \in FramesOf(arrived[r])
    <3> DEFINE D0 == {f \in FramesOf(arrived[r]) : r \in A}
    <3>1. \A f : f \in D0 <=> r \in A /\ f \in FramesOf(arrived[r])
      OBVIOUS
    <3> QED
      BY <3>1
  <2>4. g \notin D
    BY <1>4, <1>8, <2>2, <2>3
  <2>5. Moves(g, place, D)
    <3> SUFFICES ASSUME NEW a \in Producers, NEW b \in Slots(a)
                 PROVE  Moves(g, place, D)!(a)!(b)
      BY DEF Moves
    <3>1. <<a, b>> = g => a = p /\ b = k
      BY <2>2
    <3>2. <<a, b>> \in D =>
             /\ \A u \in Senders : <<a, b>> \notin FramesOf(pipe[u])
             /\ \A u \in Receivers : <<a, b>> \in FramesOf(arrived[u]) => u = r
             /\ \A u \in Receivers : <<a, b>> \notin FrameOf(held[u])
             /\ ~Ahead(a, b)
      <4>1. <<a, b>> \in D => <<a, b>> \in FramesOf(arrived[r])
        BY <2>3
      <4> QED
        BY <1>1, <1>4, <4>1, Apart
    <3>3. \A u \in Senders : <<a, b>> \in FramesOf(pipe'[u]) =>
             \/ <<a, b>> \in FramesOf(pipe[u]) /\ <<a, b>> # g /\ <<a, b>> \notin D
             \/ <<a, b>> = g /\ place = <<"pipe", u>> /\ image[a][b] = Expected(Level(u))
      BY <1>4, <1>8, <1>9, <1>10, <1>11, <2>1, <2>2, <3>1, <3>2
    <3>4. \A u \in Receivers : <<a, b>> \in FramesOf(arrived'[u]) =>
             <<a, b>> \in FramesOf(arrived[u]) /\ <<a, b>> # g /\ <<a, b>> \notin D
      <4> TAKE u \in Receivers
      <4> HAVE <<a, b>> \in FramesOf(arrived'[u])
      <4>1. u \notin A /\ <<a, b>> \in FramesOf(arrived[u])
        BY <1>14, EmptyQueue
      <4> QED
        BY <1>8, <2>2, <2>3, <3>2, <4>1
    <3>5. \A u \in Receivers : <<a, b>> \in FrameOf(held'[u]) =>
             /\ <<a, b>> \in FrameOf(held[u]) /\ <<a, b>> # g /\ <<a, b>> \notin D
             /\ pc'[u] = pc[u]
      <4> TAKE u \in Receivers
      <4> HAVE <<a, b>> \in FrameOf(held'[u])
      <4>1. u # r /\ <<a, b>> \in FrameOf(held[u])
        BY <1>13, NoFrames
      <4>2. pc'[u] = pc[u]
        BY <1>13, <4>1 DEF Actors
      <4> QED
        BY <1>8, <2>2, <3>2, <4>1, <4>2
    <3>6. <<a, b>> \in accepted' \cup lost' =>
             <<a, b>> \in D \/ (<<a, b>> \in accepted \cup lost /\ <<a, b>> # g)
      BY <1>3, <1>8, <1>14, <2>2, <2>3
    <3>7. Ahead(a, b)' => Ahead(a, b) /\ <<a, b>> # g /\ <<a, b>> \notin D
      <4>1. Ahead(a, b)' = Ahead(a, b)
        <5>1. a # r /\ a \in Actors
          BY <1>4, Actors1
        <5> QED
          BY <1>13, <5>1 DEF Ahead
      <4> QED
        BY <1>8, <3>1, <3>2, <4>1
    <3> QED
      BY <3>3, <3>4, <3>5, <3>6, <3>7
  <2> QED
    BY <1>1, <1>3, <2>4, <2>5, MoveStep
<1> QED
  BY <1>13, <1>15, <1>16, <1>17, <1>18 DEF ChainInv

LEMMA ChainStep == ChainInv /\ [Next]_vars => ChainInv'
<1> SUFFICES ASSUME ChainInv, [Next]_vars PROVE ChainInv'
  OBVIOUS
<1>1. CASE UNCHANGED vars
  <2>1. /\ UNCHANGED <<pc, left, held, before, cached, image, expired, pipe, arrived, crashes>>
        /\ UNCHANGED <<accepted, lost>>
    BY <1>1 DEF vars, ends
  <2>2. TypeInv'
    BY <2>1 DEF ChainInv, TypeInv
  <2>3. Control'
    BY <2>1 DEF ChainInv, Control
  <2> QED
    BY <2>1, <2>2, <2>3, QuietStep DEF Same, ends
<1> QED
  BY <1>1, StartStep, CrashStep, ProduceStep, ExpireStep, DeliverStep, LingerStep,
     ReceiveStep, OpenStep, OpenFailsStep, LoadStep, StoreStep, ForwardStep, CheckStep
  DEF Next, Receiver

LEMMA ChainInvariance == Spec => []ChainInv
  BY ChainInit, ChainStep, PTL DEF Spec

-----------------------------------------------------------------------------
\* A send never waits: the high-water mark covers all messages of a run of a
\* process, so send_timeout_ms cannot end a stage between its write and its
\* send (producer.py:74, stage.py:51).
THEOREM SendsNeverWait == Spec => []SendNeverWaits
<1>1. ChainInv => SendNeverWaits
  <2> SUFFICES ASSUME ChainInv, NEW s \in Senders, pc[s] \in Running
               PROVE  Len(pipe[s]) < Hwm(s)
    BY Actors1 DEF SendNeverWaits, Senders, Running
  <2>1. s \in Actors /\ Hwm(s) \in Nat
    BY Actors1
  <2>2. left[s] \in Int /\ left[s] > 0 /\ pipe[s] \in Seq(Messages)
    BY <2>1, Actors1 DEF ChainInv, TypeInv, Control
  <2>3. Len(pipe[s]) \in Nat /\ Len(pipe[s]) + left[s] <= Hwm(s)
    BY <2>2 DEF ChainInv, Room
  <2> QED
    BY <2>1, <2>2, <2>3
<1> QED
  BY <1>1, ChainInvariance, PTL

\* The three kinds of places, and what a message in one of them is.
LEMMA PlaceKinds ==
    ASSUME NEW x \in Places
    PROVE  \/ \E s \in Senders : \E i \in DOMAIN pipe[s] :
                 x = <<"pipe", s, i>> /\ At(x) = pipe[s][i]
           \/ \E r \in Receivers : \E i \in DOMAIN arrived[r] :
                 x = <<"arrived", r, i>> /\ At(x) = arrived[r][i]
           \/ \E r \in Receivers :
                 held[r] # Nothing /\ x = <<"held", r, 0>> /\ At(x) = held[r]
<1>1. CASE \E s \in Senders : \E i \in DOMAIN pipe[s] : x = <<"pipe", s, i>>
  BY <1>1 DEF At
<1>2. CASE \E r \in Receivers : \E i \in DOMAIN arrived[r] : x = <<"arrived", r, i>>
  <2>1. x[1] # "pipe"
    BY <1>2
  <2> QED
    BY <1>2, <2>1 DEF At
<1>3. CASE \E r \in Receivers : held[r] # Nothing /\ x = <<"held", r, 0>>
  <2>1. x[1] # "pipe" /\ x[1] # "arrived"
    BY <1>3
  <2> QED
    BY <1>3, <2>1 DEF At
<1> QED
  BY <1>1, <1>2, <1>3 DEF Places

\* The frame of a message in a socket or a hand, and the byte it stands for.
LEMMA PipePlace ==
    ASSUME ChainInv, NEW s \in Senders, NEW i \in DOMAIN pipe[s]
    PROVE  pipe[s][i] \in Mail(Level(s)) /\ Frame(pipe[s][i]) \in FramesOf(pipe[s])
  BY DEF ChainInv, Sorted, FramesOf

LEMMA ArrivedPlace ==
    ASSUME ChainInv, NEW r \in Receivers, NEW i \in DOMAIN arrived[r]
    PROVE  arrived[r][i] \in Mail(r - 1) /\ Frame(arrived[r][i]) \in FramesOf(arrived[r])
  BY DEF ChainInv, Sorted, FramesOf

LEMMA HeldPlace ==
    ASSUME ChainInv, NEW r \in Receivers, held[r] # Nothing
    PROVE  held[r] \in Mail(r - 1) /\ Frame(held[r]) \in FrameOf(held[r])
  BY DEF ChainInv, Sorted, FrameOf

\* A message of mail, its frame and its slot.
LEMMA MailSlot ==
    ASSUME NEW n, NEW m \in Mail(n)
    PROVE  \E p \in Producers : \E k \in Slots(p) :
               Frame(m) = <<p, k>> /\ Slot(m) = image[p][k] /\ m.stage = n
<1>1. /\ m.producer \in Producers /\ m.sequence \in Slots(m.producer)
      /\ Frame(m) = <<m.producer, m.sequence>> /\ m.stage = n
  BY MailFacts
<1>2. Slot(m) = image[m.producer][m.sequence]
  BY DEF Slot
<1> QED
  BY <1>1, <1>2

\* The byte of a frame on its way holds what the stages it has passed added,
\* whatever crashes, expires or is lost, and the sink accepts it (README.md:10,
\* stage.py:93, sink.py:75-81).
THEOREM SlotsHoldTheirStages == Spec => []SlotHoldsItsStages
<1>1. ChainInv => SlotHoldsItsStages
  <2> SUFFICES ASSUME ChainInv PROVE SlotHoldsItsStages
    OBVIOUS
  <2>1. pc[Sink] # "refused"
    <3>1. Sink \in Actors
      BY Actors1 DEF Actors
    <3> QED
      BY <3>1 DEF ChainInv, TypeInv, Running
  <2>2. ASSUME NEW x \in Places, ~(x[1] = "held" /\ pc[x[2]] = "stored")
        PROVE  Slot(At(x)) = Expected(At(x).stage)
    <3>1. CASE \E s \in Senders : \E i \in DOMAIN pipe[s] :
                  x = <<"pipe", s, i>> /\ At(x) = pipe[s][i]
      <4>1. PICK s \in Senders : \E i \in DOMAIN pipe[s] : At(x) = pipe[s][i]
        BY <3>1
      <4>2. At(x) \in Mail(Level(s)) /\ Frame(At(x)) \in FramesOf(pipe[s])
        BY <4>1, PipePlace
      <4> QED
        BY <4>2, MailSlot DEF ChainInv, Housed, Byte
    <3>2. CASE \E r \in Receivers : \E i \in DOMAIN arrived[r] :
                  x = <<"arrived", r, i>> /\ At(x) = arrived[r][i]
      <4>1. PICK r \in Receivers : \E i \in DOMAIN arrived[r] : At(x) = arrived[r][i]
        BY <3>2
      <4>2. At(x) \in Mail(r - 1) /\ Frame(At(x)) \in FramesOf(arrived[r])
        BY <4>1, ArrivedPlace
      <4> QED
        BY <4>2, MailSlot DEF ChainInv, Housed, Byte
    <3>3. CASE \E r \in Receivers :
                  held[r] # Nothing /\ x = <<"held", r, 0>> /\ At(x) = held[r]
      <4>1. PICK r \in Receivers :
               held[r] # Nothing /\ x = <<"held", r, 0>> /\ At(x) = held[r]
        BY <3>3
      <4>2. At(x) \in Mail(r - 1) /\ Frame(At(x)) \in FrameOf(held[r])
        BY <4>1, HeldPlace
      <4>3. pc[r] # "stored"
        BY <2>2, <4>1
      <4> QED
        BY <4>2, <4>3, MailSlot DEF ChainInv, Housed, Byte
    <3> QED
      BY <3>1, <3>2, <3>3, PlaceKinds
  <2> QED
    BY <2>1, <2>2 DEF SlotHoldsItsStages
<1> QED
  BY <1>1, ChainInvariance, PTL

\* The home of the frame at a place.
LEMMA PlaceHome ==
    ASSUME ChainInv, NEW x \in Places
    PROVE  \E p \in Producers : \E k \in Slots(p) :
              /\ Frame(At(x)) = <<p, k>>
              /\ \A home : Home(p, k, home) =>
                    home = <<x[1], x[2]>> /\ <<p, k>> \notin accepted \cup lost
<1>1. CASE \E s \in Senders : \E i \in DOMAIN pipe[s] :
              x = <<"pipe", s, i>> /\ At(x) = pipe[s][i]
  <2>1. PICK s \in Senders : \E i \in DOMAIN pipe[s] :
           x = <<"pipe", s, i>> /\ At(x) = pipe[s][i]
    BY <1>1
  <2>2. At(x) \in Mail(Level(s)) /\ Frame(At(x)) \in FramesOf(pipe[s])
    BY <2>1, PipePlace
  <2>3. <<x[1], x[2]>> = <<"pipe", s>>
    BY <2>1
  <2> QED
    BY <2>2, <2>3, MailSlot DEF Home
<1>2. CASE \E r \in Receivers : \E i \in DOMAIN arrived[r] :
              x = <<"arrived", r, i>> /\ At(x) = arrived[r][i]
  <2>1. PICK r \in Receivers : \E i \in DOMAIN arrived[r] :
           x = <<"arrived", r, i>> /\ At(x) = arrived[r][i]
    BY <1>2
  <2>2. At(x) \in Mail(r - 1) /\ Frame(At(x)) \in FramesOf(arrived[r])
    BY <2>1, ArrivedPlace
  <2>3. <<x[1], x[2]>> = <<"arrived", r>>
    BY <2>1
  <2> QED
    BY <2>2, <2>3, MailSlot DEF Home
<1>3. CASE \E r \in Receivers :
              held[r] # Nothing /\ x = <<"held", r, 0>> /\ At(x) = held[r]
  <2>1. PICK r \in Receivers :
           held[r] # Nothing /\ x = <<"held", r, 0>> /\ At(x) = held[r]
    BY <1>3
  <2>2. At(x) \in Mail(r - 1) /\ Frame(At(x)) \in FrameOf(held[r])
    BY <2>1, HeldPlace
  <2>3. <<x[1], x[2]>> = <<"held", r>>
    BY <2>1
  <2> QED
    BY <2>2, <2>3, MailSlot DEF Home
<1> QED
  BY <1>1, <1>2, <1>3, PlaceKinds

\* No frame is in two places or in one twice, and none comes back that was
\* accepted or lost: no stage applies itself twice to a frame (stage.py:56-105).
THEOREM FramesHaveOneCopy == Spec => []OneCopy
<1>1. ChainInv => OneCopy
  <2> SUFFICES ASSUME ChainInv PROVE OneCopy
    OBVIOUS
  <2>1. TypeOK
    BY DEF ChainInv, TypeInv, Control, TypeOK
  <2>2. ASSUME NEW x \in Places, NEW y \in Places, Frame(At(x)) = Frame(At(y)) PROVE x = y
    <3>1. PICK p \in Producers : \E k \in Slots(p) :
              /\ Frame(At(x)) = <<p, k>>
              /\ \A home : Home(p, k, home) => home = <<x[1], x[2]>>
      BY PlaceHome
    <3>2. PICK k \in Slots(p) :
              /\ Frame(At(x)) = <<p, k>>
              /\ \A home : Home(p, k, home) => home = <<x[1], x[2]>>
      BY <3>1
    <3>3. \A home : Home(p, k, home) => home = <<y[1], y[2]>>
      <4>1. PICK a \in Producers : \E b \in Slots(a) :
                /\ Frame(At(y)) = <<a, b>>
                /\ \A home : Home(a, b, home) => home = <<y[1], y[2]>>
        BY PlaceHome
      <4>2. PICK b \in Slots(a) :
                /\ Frame(At(y)) = <<a, b>>
                /\ \A home : Home(a, b, home) => home = <<y[1], y[2]>>
        BY <4>1
      <4>3. a = p /\ b = k
        <5>1. Frame(At(y)) = <<a, b>> /\ Frame(At(x)) = <<p, k>>
          BY <3>2, <4>2
        <5>2. <<a, b>> = <<p, k>>
          BY <2>2, <5>1
        <5> QED
          BY <5>2
      <4> QED
        BY <4>2, <4>3
    <3>4. PICK home : Home(p, k, home)
      BY DEF ChainInv, Housed
    <3>5. <<x[1], x[2]>> = <<y[1], y[2]>>
      BY <3>2, <3>3, <3>4
    <3>6. x[1] = y[1] /\ x[2] = y[2]
      BY <3>5
    <3>7. CASE \E s \in Senders : \E i \in DOMAIN pipe[s] :
                  x = <<"pipe", s, i>> /\ At(x) = pipe[s][i]
      <4>1. PICK s \in Senders : \E i \in DOMAIN pipe[s] :
               x = <<"pipe", s, i>> /\ At(x) = pipe[s][i]
        BY <3>7
      <4>2. \E j \in DOMAIN pipe[s] : y = <<"pipe", s, j>> /\ At(y) = pipe[s][j]
        BY <3>6, <4>1, PlaceKinds
      <4>3. NoDuplicate(pipe[s])
        BY DEF ChainInv, Sorted
      <4> QED
        BY <2>2, <4>1, <4>2, <4>3 DEF NoDuplicate
    <3>8. CASE \E r \in Receivers : \E i \in DOMAIN arrived[r] :
                  x = <<"arrived", r, i>> /\ At(x) = arrived[r][i]
      <4>1. PICK r \in Receivers : \E i \in DOMAIN arrived[r] :
               x = <<"arrived", r, i>> /\ At(x) = arrived[r][i]
        BY <3>8
      <4>2. \E j \in DOMAIN arrived[r] : y = <<"arrived", r, j>> /\ At(y) = arrived[r][j]
        BY <3>6, <4>1, PlaceKinds
      <4>3. NoDuplicate(arrived[r])
        BY DEF ChainInv, Sorted
      <4> QED
        BY <2>2, <4>1, <4>2, <4>3 DEF NoDuplicate
    <3>9. CASE \E r \in Receivers :
                  held[r] # Nothing /\ x = <<"held", r, 0>> /\ At(x) = held[r]
      BY <3>6, <3>9, PlaceKinds
    <3> QED
      BY <3>7, <3>8, <3>9, PlaceKinds
  <2>3. ASSUME NEW x \in Places PROVE Frame(At(x)) \notin accepted \cup lost
    BY PlaceHome DEF ChainInv, Housed
  <2> QED
    BY <2>1, <2>2, <2>3 DEF OneCopy
<1> QED
  BY <1>1, ChainInvariance, PTL
=============================================================================
