------------------------------ MODULE ShmChain ------------------------------
(***************************************************************************)
(* The ZeroMQ pipeline over one mutable shared array                      *)
(* (examples/zeromq_mutable_shm_chain: producer.py, stage.py, sink.py, on  *)
(* the PUSH and PULL sockets of src/npb/_zmq.py).  A producer p creates an *)
(* array in mstore and sends Count[p] control messages naming it; stage    *)
(* r adds r to the message's byte of the array and forwards the message;   *)
(* the sink checks the byte.  Messages are lost with a process that holds  *)
(* them and when linger runs out; processes crash and are started again.   *)
(***************************************************************************)
EXTENDS Integers, Sequences

CONSTANTS
    Producers,     \* runs of producer.py, each with an array of its own
    N,             \* number of stages
    Count,         \* --count of each producer: frames it sends
    Loop,          \* --count of the stages and of the sink
    MinHwm,        \* the 4 of hwm=max(4, args.count)
    Modulus,       \* 256, the values of a uint8
    MaxCrashes     \* bound: crashes of processes

ASSUME ShmChainAssumption ==
    /\ Producers # {} /\ Producers \cap Int = {}
    /\ N \in Nat \ {0} /\ Count \in [Producers -> Nat \ {0}] /\ Loop \in Nat \ {0}
    /\ MinHwm \in Nat \ {0} /\ Modulus \in Nat \ {0}
    /\ MaxCrashes \in Nat

Stages == 1 .. N
Sink == N + 1
Receivers == 1 .. Sink
Senders == Producers \cup Stages
Actors == Producers \cup Receivers

\* Stage r binds endpoint(r - 1) and connects to endpoint(r).
Peer(s) == IF s \in Producers THEN 1 ELSE s + 1

Slots(p) == 0 .. Count[p] - 1
Frames == UNION {{p} \X Slots(p) : p \in Producers}
Messages == [producer : Producers, sequence : Nat, stage : 0 .. N]
Nothing == [producer |-> "none"]

\* The "pc" of a process: off, ready (in its loop, at recv or at the next
\* message), got (a frame is decoded), opened (the array is mapped), loaded
\* (the byte is read), stored (the byte is written), done, failed (an
\* exception ended it), killed.
VARIABLES
    pc, left,        \* per process: where it is, and loop rounds left
    held, before,    \* per receiver: the message in hand, the byte it read
    cached,          \* per receiver: producers whose array it has mapped
    image,           \* per producer: the slots of its array
    expired,         \* producers whose chain token's time is over
    pipe, arrived,   \* messages at the sending and at the receiving socket
    accepted,        \* frames the sink accepted
    lost,            \* frames dropped with a process or a socket (history)
    crashes

ends == <<accepted, lost>>
vars == <<pc, left, held, before, cached, image, expired, pipe, arrived, ends,
          crashes>>

Running == {"ready", "got", "opened", "loaded", "stored"}
Bound(r) == pc[r] \in Running

CountOf(a) == IF a \in Producers THEN Count[a] ELSE Loop
DefaultHwm(s) == MinHwm
Hwm(s) == IF CountOf(s) > MinHwm THEN CountOf(s) ELSE MinHwm

\* `for _ in range(args.count)'; a mutant is one short.
OneShort(a) == CountOf(a) - 1
Rounds(a) == CountOf(a)

Init ==
    /\ pc = [a \in Actors |-> "off"]
    /\ left = [a \in Actors |-> 0]
    /\ held = [r \in Receivers |-> Nothing]
    /\ before = [r \in Receivers |-> 0]
    /\ cached = [r \in Receivers |-> {}]
    /\ image = [p \in Producers |-> [k \in Slots(p) |-> 0]]
    /\ expired = {}
    /\ pipe = [s \in Senders |-> << >>]
    /\ arrived = [r \in Receivers |-> << >>]
    /\ accepted = {} /\ lost = {}
    /\ crashes = 0

----------------------------------------------------------------------------
\* Processes start; a stage that ended is started again, when its old
\* process has flushed or given up what it had to send.  Producers run once.
Start(a) ==
    /\ pc[a] = "off" \/ (a \in Receivers /\ pc[a] \in {"failed", "killed"})
    /\ a \in Senders => pipe[a] = << >>
    /\ pc' = [pc EXCEPT ![a] = "ready"]
    /\ left' = [left EXCEPT ![a] = Rounds(a)]
    /\ UNCHANGED <<held, before, cached, image, expired, pipe, arrived, ends,
                   crashes>>

Frame(m) == <<m.producer, m.sequence>>
FramesOf(q) == {Frame(q[i]) : i \in DOMAIN q}
InHand(r) == IF held[r] = Nothing THEN {} ELSE {Frame(held[r])}
Loses(frames) == lost' = lost \cup frames

\* The end of a process: its PULL socket drops what it has not read; its
\* mappings go; the PUSH socket lingers.
Ends(r, how) ==
    /\ pc' = [pc EXCEPT ![r] = how]
    /\ held' = [held EXCEPT ![r] = Nothing]
    /\ before' = [before EXCEPT ![r] = 0]
    /\ cached' = [cached EXCEPT ![r] = {}]
    /\ arrived' = [arrived EXCEPT ![r] = << >>]

\* One more round of the loop, or its end.
NextRound(r) ==
    /\ left' = [left EXCEPT ![r] = @ - 1]
    /\ IF left[r] > 1
       THEN /\ pc' = [pc EXCEPT ![r] = "ready"]
            /\ held' = [held EXCEPT ![r] = Nothing]
            /\ before' = [before EXCEPT ![r] = 0]
            /\ UNCHANGED <<cached, arrived, lost>>
       ELSE Ends(r, "done") /\ Loses(FramesOf(arrived[r]))

Crash(a) ==
    /\ crashes < MaxCrashes /\ pc[a] \in Running
    /\ crashes' = crashes + 1
    /\ IF a \in Receivers
       THEN Ends(a, "killed")
       ELSE /\ pc' = [pc EXCEPT ![a] = "killed"]
            /\ UNCHANGED <<held, before, cached, arrived>>
    /\ IF a \in Senders
       THEN pipe' = [pipe EXCEPT ![a] = << >>]
       ELSE UNCHANGED pipe
    /\ Loses((IF a \in Receivers THEN InHand(a) \cup FramesOf(arrived[a]) ELSE {})
             \cup (IF a \in Senders THEN FramesOf(pipe[a]) ELSE {}))
    /\ UNCHANGED <<left, image, expired, accepted>>

\* The chain token of p expires (--token-ttl).
Expire(p) ==
    /\ crashes < MaxCrashes /\ pc[p] # "off" /\ p \notin expired
    /\ expired' = expired \cup {p}
    /\ crashes' = crashes + 1
    /\ UNCHANGED <<pc, left, held, before, cached, image, pipe, arrived, ends>>

----------------------------------------------------------------------------
\* ZeroMQ: messages move to a bound peer; those of a closed socket are
\* dropped when linger_ms passes without one.
Deliver(s) ==
    /\ pipe[s] # << >> /\ Bound(Peer(s)) /\ Len(arrived[Peer(s)]) < Hwm(Peer(s))
    /\ arrived' = [arrived EXCEPT ![Peer(s)] = Append(@, Head(pipe[s]))]
    /\ pipe' = [pipe EXCEPT ![s] = Tail(@)]
    /\ UNCHANGED <<pc, left, held, before, cached, image, expired, ends, crashes>>

LingerExpires(s) ==
    /\ pipe[s] # << >> /\ pc[s] \notin Running
    /\ ~Bound(Peer(s)) \/ Len(arrived[Peer(s)]) >= Hwm(Peer(s))
    /\ pipe' = [pipe EXCEPT ![s] = << >>]
    /\ Loses(FramesOf(pipe[s]))
    /\ UNCHANGED <<pc, left, held, before, cached, image, expired, arrived, accepted,
                   crashes>>

\* sender.send waits while the socket is at its high-water mark.
Sends(s, m) ==
    /\ Len(pipe[s]) < Hwm(s)
    /\ pipe' = [pipe EXCEPT ![s] = Append(@, m)]

----------------------------------------------------------------------------
\* for sequence in range(args.count); a mutant gives all frames one slot.
FirstSlot(p) == 0
Sequence(p) == Count[p] - left[p]

Produce(p) ==
    /\ pc[p] = "ready" /\ left[p] > 0
    /\ Sends(p, [producer |-> p, sequence |-> Sequence(p), stage |-> 0])
    /\ left' = [left EXCEPT ![p] = @ - 1]
    /\ pc' = [pc EXCEPT ![p] = IF left[p] > 1 THEN "ready" ELSE "done"]
    /\ UNCHANGED <<held, before, cached, image, expired, arrived, ends, crashes>>

Receive(r) ==
    /\ pc[r] = "ready" /\ arrived[r] # << >>
    /\ held' = [held EXCEPT ![r] = Head(arrived[r])]
    /\ arrived' = [arrived EXCEPT ![r] = Tail(@)]
    /\ pc' = [pc EXCEPT ![r] = "got"]
    /\ UNCHANGED <<left, before, cached, image, expired, pipe, ends, crashes>>

\* client.open: a cached mapping is used whatever became of the token; the
\* daemon refuses an expired one.  What is mapped may be kept or not and take
\* the place of others (--no-cache, --cache-size).  The generation is the one
\* of the reference and the slot within the array in every message of a
\* producer, so those checks are left out.
Open(r) ==
    /\ pc[r] = "got"
    /\ held[r].producer \in cached[r] \/ held[r].producer \notin expired
    /\ \E kept \in SUBSET (cached[r] \cup {held[r].producer}) :
          cached' = [cached EXCEPT ![r] = kept]
    /\ pc' = [pc EXCEPT ![r] = "opened"]
    /\ UNCHANGED <<left, held, before, image, expired, pipe, arrived, ends, crashes>>

OpenFails(r) ==
    /\ pc[r] = "got"
    /\ held[r].producer \notin cached[r] /\ held[r].producer \in expired
    /\ Ends(r, "failed") /\ Loses(InHand(r) \cup FramesOf(arrived[r]))
    /\ UNCHANGED <<left, image, expired, pipe, accepted, crashes>>

Slot(m) == image[m.producer][m.sequence]

\* before = int(image[slot])
Load(r) ==
    /\ r \in Stages /\ pc[r] = "opened"
    /\ before' = [before EXCEPT ![r] = Slot(held[r])]
    /\ pc' = [pc EXCEPT ![r] = "loaded"]
    /\ UNCHANGED <<left, held, cached, image, expired, pipe, arrived, ends, crashes>>

\* image[slot] = (before + args.stage) & 0xFF
Mutated(byte, r) == (byte + r) % Modulus

Store(r) ==
    /\ pc[r] = "loaded"
    /\ image' = [image EXCEPT ![held[r].producer][held[r].sequence] =
                    Mutated(before[r], r)]
    /\ pc' = [pc EXCEPT ![r] = "stored"]
    /\ UNCHANGED <<left, held, before, cached, expired, pipe, arrived, ends, crashes>>

\* message.stage = args.stage
Unstamped(m, r) == m
Stamped(m, r) == [m EXCEPT !.stage = r]

Forward(r) ==
    /\ pc[r] = "stored"
    /\ Sends(r, Stamped(held[r], r))
    /\ NextRound(r)
    /\ UNCHANGED <<image, expired, accepted, crashes>>

\* sum(range(1, after_stage + 1)) & 0xFF
Expected(n) == ((n * (n + 1)) \div 2) % Modulus

\* The sink's checks of the message's stage and of the byte.  Its mapping was
\* opened for reading, which its last check confirms.
Check ==
    /\ pc[Sink] = "opened"
    /\ IF held[Sink].stage = N /\ Slot(held[Sink]) = Expected(N)
       THEN /\ accepted' = accepted \cup {Frame(held[Sink])}
            /\ NextRound(Sink)
       ELSE /\ Ends(Sink, "refused") /\ Loses(FramesOf(arrived[Sink]))
            /\ UNCHANGED <<left, accepted>>
    /\ UNCHANGED <<image, expired, pipe, crashes>>

Receiver(r) ==
    Receive(r) \/ Open(r) \/ OpenFails(r) \/ Load(r) \/ Store(r)

Next ==
    \/ \E a \in Actors : Start(a) \/ Crash(a)
    \/ \E p \in Producers : Produce(p) \/ Expire(p)
    \/ \E s \in Senders : Deliver(s) \/ LingerExpires(s)
    \/ \E r \in Receivers : Receiver(r)
    \/ \E r \in Stages : Forward(r)
    \/ Check

Spec == Init /\ [][Next]_vars

\* Each process is one thread that is scheduled, and is started again; ZeroMQ's
\* I/O threads move messages.  Nothing says that a linger expires.
Process(a) ==
    \/ Start(a)
    \/ a \in Producers /\ Produce(a)
    \/ a \in Receivers /\ Receiver(a)
    \/ a \in Stages /\ Forward(a)
    \/ a = Sink /\ Check

Fairness ==
    /\ \A a \in Actors : WF_vars(Process(a))
    /\ \A s \in Senders : WF_vars(Deliver(s))

FairSpec == Spec /\ Fairness

----------------------------------------------------------------------------
\* Where messages are: in a socket or in the hands of a process.
Places ==
    (UNION {{<<"pipe", s, i>> : i \in DOMAIN pipe[s]} : s \in Senders})
    \cup (UNION {{<<"arrived", r, i>> : i \in DOMAIN arrived[r]} : r \in Receivers})
    \cup {<<"held", r, 0>> : r \in {q \in Receivers : held[q] # Nothing}}

At(x) ==
    CASE x[1] = "pipe" -> pipe[x[2]][x[3]]
      [] x[1] = "arrived" -> arrived[x[2]][x[3]]
      [] x[1] = "held" -> held[x[2]]

\* Type invariant; bytes of the array stay bytes, loop counters do not wrap.
TypeOK ==
    /\ pc \in [Actors -> Running \cup {"off", "done", "failed", "killed", "refused"}]
    /\ \A a \in Actors : left[a] \in 0 .. CountOf(a)
    /\ held \in [Receivers -> Messages \cup {Nothing}]
    /\ before \in [Receivers -> 0 .. Modulus - 1]
    /\ cached \in [Receivers -> SUBSET Producers]
    /\ \A p \in Producers : image[p] \in [Slots(p) -> 0 .. Modulus - 1]
    /\ expired \subseteq Producers
    /\ pipe \in [Senders -> Seq(Messages)]
    /\ arrived \in [Receivers -> Seq(Messages)]
    /\ accepted \subseteq Frames /\ lost \subseteq Frames
    /\ crashes \in 0 .. MaxCrashes

\* The byte of a frame on its way holds what the stages it has passed added,
\* however many frames and producers are in flight and whichever process
\* crashed (README.md:10 "To make multiple in-flight messages safe"), and the
\* sink never raises over one, whatever was lost or expired (README.md:11).
SlotHoldsItsStages ==
    /\ \A x \in Places :
          \/ x[1] = "held" /\ pc[x[2]] = "stored"
          \/ Slot(At(x)) = Expected(At(x).stage)
    /\ pc[Sink] # "refused"

\* A frame is in one place at most: no stage handles it twice, and a stage
\* that crashed between its write and its send does not apply it again.  (With
\* the type invariant of the variables it is about.)
OneCopy ==
    /\ TypeOK
    /\ \A x, y \in Places :
          /\ Frame(At(x)) = Frame(At(y)) => x = y
          /\ Frame(At(x)) \notin accepted \cup lost

\* A send never waits, so send_timeout_ms cannot end a stage between its
\* write and its send: the high-water mark covers all its messages.
SendNeverWaits ==
    /\ \A p \in Producers : pc[p] = "ready" => Len(pipe[p]) < Hwm(p)
    /\ \A r \in Stages : pc[r] = "stored" => Len(pipe[r]) < Hwm(r)

\* Every frame of a producer that survives reaches the sink, unless it was lost
\* with a process or a socket that held it: nothing waits for ever, whoever
\* crashes and starts again; without a loss every process ends by itself
\* (producer.py:78, stage.py:56, sink.py:42).
AllArrive ==
    <>( /\ \A f \in Frames : f \in accepted \cup lost \/ pc[f[1]] = "killed"
        /\ crashes = 0 /\ lost = {} => \A a \in Actors : pc[a] = "done" )
=============================================================================
