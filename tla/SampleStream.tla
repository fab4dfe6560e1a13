---------------------------- MODULE SampleStream ----------------------------
(***************************************************************************)
(* One huge container per shared-memory sample                             *)
(* (examples/iceoryx2_huge_blob: publisher.py, subscriber.py, common.py).  *)
(* The publisher encodes each message into a chunk it has on loan and      *)
(* sends it; the subscriber decodes views into the chunk, checks them, and *)
(* gives it back.  The chunks are one pool, so a sample given back too     *)
(* early is written again under the views.  Of iceoryx2 the model has what *)
(* the service is configured for: a buffer of one sample, where a new one  *)
(* replaces one not yet received, one borrowed sample, one on loan, no     *)
(* history.                                                                *)
(***************************************************************************)
EXTENDS Integers, Sequences, FiniteSets

CONSTANTS
    Chunks,          \* the publisher's data segment
    Warmup,          \* --warmup of the publisher
    Iterations,      \* --iterations of the publisher
    Expected,        \* --iterations of the subscriber
    NoChunk

ASSUME SampleStreamAssumption ==
    /\ Warmup \in Nat /\ Iterations \in Nat \ {0} /\ Expected \in Nat \ {0}
    /\ NoChunk \notin Chunks
    /\ \E a, b, c \in Chunks : a # b /\ b # c /\ a # c

Total == Warmup + Iterations
Runs == 0 .. Total - 1
Torn == <<"torn">>     \* a chunk that holds no complete container

VARIABLES
    publisher, run,  \* where the publisher is; run_index
    loan,            \* the chunk it has on loan
    image,           \* per chunk: the metadata of its container, or Torn
    buffer,          \* the sample sent and not received
    subscriber,      \* where the subscriber is
    sample,          \* its `sample'
    borrowed,        \* chunks iceoryx2 keeps for the subscriber
    seen,            \* phase and sequence decoded from the sample
    received,        \* sequences of the measured samples, in order
    missed           \* runs whose sample will not be received (history)

publisherVars == <<publisher, run, loan>>
subscriberVars == <<subscriber, sample, borrowed, seen, received>>
vars == <<publisherVars, image, buffer, subscriberVars, missed>>

Init ==
    /\ publisher = "off" /\ run = 0 /\ loan = NoChunk
    /\ image = [c \in Chunks |-> Torn]
    /\ buffer = NoChunk
    /\ subscriber = "off" /\ sample = NoChunk /\ borrowed = {} /\ seen = Torn
    /\ received = << >> /\ missed = {}

Free == (Chunks \ {loan, buffer}) \ borrowed

\* set_iteration_metadata; the mutant keeps the metadata set before the loop.
FirstMetadata(r) == <<"M", 0>>
Metadata(r) == IF r < Warmup THEN <<"W", r>> ELSE <<"M", r - Warmup>>

\* The runs whose sample is lost when that in the buffer is.
Buffered == {r \in Runs : buffer # NoChunk /\ image[buffer] = Metadata(r)}
-----------------------------------------------------------------------------
StartPublisher ==
    /\ publisher = "off" /\ publisher' = "ready"
    /\ UNCHANGED <<run, loan, image, buffer, subscriberVars, missed>>

\* loan_slice_uninit, from any chunk not in use; it raises if there is none.
Loan ==
    /\ publisher = "ready"
    /\ IF Free = {}
       THEN publisher' = "failed" /\ UNCHANGED loan
       ELSE publisher' = "loaned" /\ \E c \in Free : loan' = c
    /\ UNCHANGED <<run, image, buffer, subscriberVars, missed>>

\* encode(message, out=shared_memory): the chunk is overwritten ...
EncodeBegins ==
    /\ publisher = "loaned" /\ publisher' = "encoding"
    /\ image' = [image EXCEPT ![loan] = Torn]
    /\ UNCHANGED <<run, loan, buffer, subscriberVars, missed>>

\* ... until it holds a container again.
EncodeEnds ==
    /\ publisher = "encoding" /\ publisher' = "encoded"
    /\ image' = [image EXCEPT ![loan] = Metadata(run)]
    /\ UNCHANGED <<run, loan, buffer, subscriberVars, missed>>

Subscribed == subscriber \notin {"off", "gone", "done", "failed"}

\* sample.send: to the buffer of a subscriber, in place of what is there.
Send ==
    /\ publisher = "encoded" /\ publisher' = "sent"
    /\ loan' = NoChunk
    /\ IF Subscribed
       THEN buffer' = loan /\ missed' = missed \cup Buffered
       ELSE missed' = missed \cup {run} /\ UNCHANGED buffer
    /\ UNCHANGED <<run, image, subscriberVars>>

\* The pause and the next run_index; after the last the publisher holds on.
NextRun ==
    /\ publisher = "sent"
    /\ run' = run + 1
    /\ publisher' = IF run + 1 < Total THEN "ready" ELSE "holding"
    /\ UNCHANGED <<loan, image, buffer, subscriberVars, missed>>

\* The publisher exits after hold_seconds, or is killed earlier; its undelivered
\* sample may go with it.
Exit ==
    /\ publisher \notin {"off", "gone", "failed"} /\ publisher' = "gone"
    /\ loan' = NoChunk
    /\ LET unsent == {r \in Runs : r > run \/ (r = run /\ publisher # "sent")}
       IN  \/ buffer' = buffer /\ missed' = missed \cup unsent
           \/ buffer' = NoChunk /\ missed' = missed \cup unsent \cup Buffered
    /\ UNCHANGED <<run, image, subscriberVars>>
-----------------------------------------------------------------------------
StartSubscriber ==
    /\ subscriber = "off" /\ subscriber' = "polling"
    /\ UNCHANGED <<publisherVars, image, buffer, sample, borrowed, seen, received, missed>>

\* subscriber.receive; it raises beyond subscriber_max_borrowed_samples(1),
\* whether a sample waits or not.
Receive ==
    /\ subscriber = "polling"
    /\ IF borrowed = {}
       THEN /\ buffer # NoChunk
            /\ subscriber' = "received"
            /\ sample' = buffer /\ borrowed' = {buffer} /\ buffer' = NoChunk
       ELSE subscriber' = "failed" /\ UNCHANGED <<sample, borrowed, buffer>>
    /\ UNCHANGED <<publisherVars, image, seen, received, missed>>

\* receive returned None: node.wait for 100 ms.
Wait ==
    /\ subscriber = "polling" /\ buffer = NoChunk /\ borrowed = {}
    /\ subscriber' = "waiting"
    /\ UNCHANGED <<publisherVars, image, buffer, sample, borrowed, seen, received, missed>>

Wake ==
    /\ subscriber = "waiting" /\ subscriber' = "polling"
    /\ UNCHANGED <<publisherVars, image, buffer, sample, borrowed, seen, received, missed>>

\* NodeWaitFailure: the subscriber returns.
WaitFails ==
    /\ subscriber = "waiting" /\ subscriber' = "gone"
    /\ buffer' = NoChunk
    /\ UNCHANGED <<publisherVars, image, sample, borrowed, seen, received, missed>>

\* The chunks kept while the views are in use; the mutant drops `sample' as
\* soon as the model is decoded.
DropAfterDecode == {}
WhileViewed == borrowed

\* slice_as_numpy: what the program sees through a view of the payload.
View(c) == image[c]

\* peek and decode: views into the chunk, phase and sequence from its manifest.
Decode ==
    /\ subscriber = "received"
    /\ subscriber' = IF View(sample) = Torn THEN "failed" ELSE "decoded"
    /\ seen' = View(sample)
    /\ borrowed' = WhileViewed
    /\ UNCHANGED <<publisherVars, image, buffer, sample, received, missed>>

\* check_markers: both ends of the blob; it may or may not notice a chunk that
\* is being written.
Checked == IF View(sample) = seen THEN {"verified"} ELSE {"verified", "failed"}

\* The sample is checked and counted.
Verify ==
    /\ subscriber = "decoded" /\ subscriber' \in Checked
    /\ received' = IF seen[1] = "M" THEN Append(received, seen[2]) ELSE received
    /\ UNCHANGED <<publisherVars, image, buffer, sample, borrowed, seen, missed>>

\* while received_measured < args.iterations; the mutant wants the warm-up too.
WithWarmup == Expected + Warmup
Wanted == Expected

\* What the subscriber still borrows after `del sample'; the mutant's
\* variable keeps it until the next sample is assigned.
KeptByName == borrowed
AfterDel == {}

\* del blob, obj, binary, sample; the next round, or the end.
Release ==
    /\ subscriber = "verified"
    /\ borrowed' = AfterDel
    /\ sample' = NoChunk /\ seen' = Torn
    /\ IF Len(received) < Wanted
       THEN subscriber' = "polling" /\ UNCHANGED buffer
       ELSE subscriber' = "done" /\ buffer' = NoChunk
    /\ UNCHANGED <<publisherVars, image, received, missed>>
-----------------------------------------------------------------------------
Publish == Loan \/ EncodeBegins \/ EncodeEnds \/ Send \/ NextRun
Subscribe == Receive \/ Wait \/ Wake \/ Decode \/ Verify \/ Release

Next ==
    \/ StartPublisher \/ Publish \/ Exit
    \/ StartSubscriber \/ Subscribe \/ WaitFails

Spec == Init /\ [][Next]_vars

\* Both programs are started, and each is one thread that is scheduled.
\* Nothing need interrupt or kill one.
FairSpec ==
    /\ Spec
    /\ WF_vars(StartPublisher \/ Publish) /\ WF_vars(StartSubscriber \/ Subscribe)
-----------------------------------------------------------------------------
Contents == {Torn} \cup {"W"} \X (0 .. Warmup - 1) \cup {"M"} \X (0 .. Iterations - 1)

\* Type invariant.
TypeOK ==
    /\ publisher \in {"off", "ready", "loaned", "encoding", "encoded", "sent",
                      "holding", "gone", "failed"}
    /\ subscriber \in {"off", "polling", "waiting", "received", "decoded",
                       "verified", "done", "gone", "failed"}
    /\ run \in 0 .. Total
    /\ {loan, buffer, sample} \subseteq Chunks \cup {NoChunk}
    /\ image \in [Chunks -> Contents]
    /\ borrowed \subseteq Chunks
    /\ seen \in Contents
    /\ received \in Seq(0 .. Iterations - 1)
    /\ missed \subseteq Runs

\* While the views of a decoded message are in use, their chunk holds the
\* container they were decoded from: the publisher never encodes into it
\* (README.md "Use them while `sample` is alive", subscriber.py:94-160).  (With
\* the type invariant.)
SampleStable ==
    /\ TypeOK
    /\ subscriber = "decoded" => image[sample] = seen

\* The pool is large enough for the loan, and a sample is back before the
\* next is asked for: iceoryx2 refuses neither of the programs
\* (publisher.py:128 and 164, subscriber.py:84-86 and 155-160).
NeverRefused == publisher # "failed" /\ subscriber # "failed"

\* What the subscriber measures are different samples, in the order sent,
\* whatever was replaced in the buffer (publisher.py:143-159).
MeasuredInOrder ==
    \A i, j \in DOMAIN received : i < j => received[i] < received[j]

\* The subscriber ends unless too many measured samples were replaced in its
\* buffer, sent without it, or lost with the publisher: only then it waits for
\* ever (subscriber.py:87).
SubscriberEnds ==
    <>( \/ subscriber \in {"done", "gone"}
        \/ Cardinality({r \in Runs : r >= Warmup} \ missed) < Expected )
=============================================================================
