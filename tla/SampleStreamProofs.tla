------------------------- MODULE SampleStreamProofs -------------------------
(***************************************************************************)
(* For every pool of three chunks or more and every number of runs:        *)
(* iceoryx2 refuses neither program, no chunk is written under the views   *)
(* of a decoded message, and the measured samples come in the order sent.  *)
(*                                                                         *)
(* The first two rest on who uses a chunk: the loan, the buffer and the    *)
(* subscriber have one each, never the same.  The third rests on the order *)
(* of the runs: counted, in hand, in the buffer, being encoded.            *)
(***************************************************************************)
EXTENDS SampleStream, TLAPS

Loaned == {"loaned", "encoding", "encoded"}
InHand == {"received", "decoded", "verified"}

TypeInv ==
    /\ publisher \in Loaned \cup {"off", "ready", "sent", "holding", "gone"}
    /\ subscriber \in InHand \cup {"off", "polling", "waiting", "done", "gone"}
    /\ run \in Nat
    /\ loan \in Chunks \cup {NoChunk} /\ buffer \in Chunks \cup {NoChunk}
    /\ sample \in Chunks \cup {NoChunk}
    /\ image \in [Chunks -> {Torn} \cup {Metadata(r) : r \in Nat}]
    /\ received \in Seq(Nat)

\* Every chunk has one user.
Users ==
    /\ loan # NoChunk <=> publisher \in Loaned
    /\ borrowed = IF subscriber \in InHand THEN {sample} ELSE {}
    /\ subscriber \in InHand => sample \in Chunks
    /\ loan # NoChunk => loan # buffer /\ loan \notin borrowed
    /\ buffer # NoChunk => buffer \notin borrowed

\* Where a container is complete.
Complete ==
    /\ publisher = "encoded" => image[loan] = Metadata(run)
    /\ buffer # NoChunk => image[buffer] # Torn
    /\ subscriber \in InHand => image[sample] # Torn
    /\ subscriber \in {"decoded", "verified"} => seen = image[sample]

\* The run of a container's metadata, and the first run that is not sent yet.
Number(m) == IF m[1] = "M" THEN m[2] + Warmup ELSE m[2]
Bound == IF publisher \in {"sent", "gone"} THEN run + 1 ELSE run
AllBefore(n) == \A i \in DOMAIN received : received[i] + Warmup < n

\* Runs: counted, then in hand, then in the buffer, then those to come.
Order ==
    /\ MeasuredInOrder
    /\ AllBefore(Bound)
    /\ buffer # NoChunk => /\ Number(image[buffer]) < Bound
                           /\ AllBefore(Number(image[buffer]))
    /\ subscriber \in InHand =>
          /\ Number(image[sample]) < Bound
          /\ buffer # NoChunk => Number(image[sample]) < Number(image[buffer])
    /\ subscriber \in {"received", "decoded"} => AllBefore(Number(image[sample]))

Inv == TypeInv /\ Users /\ Complete

\* Metadata(r) is a pair with the number of the run, Torn is not.
LEMMA MetadataNumber ==
    \A r \in Nat :
        /\ Metadata(r) # Torn
        /\ Number(Metadata(r)) = r
        /\ Metadata(r)[1] = "M" =>
              Metadata(r)[2] \in Nat /\ Metadata(r)[2] + Warmup = r
  <1> TAKE r \in Nat
  <1>1. CASE r < Warmup
    BY <1>1 DEF Metadata, Torn, Number
  <1>2. CASE ~(r < Warmup)
    BY <1>2, SampleStreamAssumption DEF Metadata, Torn, Number
  <1> QED BY <1>1, <1>2

LEMMA InitInv == Init => Inv /\ Order
  <1>1. Init => Inv
    BY SampleStreamAssumption DEF Init, Inv, TypeInv, Users, Complete, Loaned, InHand
  <1>2. Init => Order
    BY DEF Init, Order, MeasuredInOrder, AllBefore, Bound, InHand
  <1> QED BY <1>1, <1>2

\* Two chunks in use leave a third.
LEMMA ChunkLeft == ASSUME Inv, publisher = "ready" PROVE Free # {}
  <1>1. PICK a, b, c \in Chunks : a # b /\ b # c /\ a # c
    BY SampleStreamAssumption
  <1>2. loan = NoChunk
    BY DEF Inv, Users, Loaned
  <1>3. a \in Free \/ b \in Free \/ c \in Free
    BY <1>1, <1>2, SampleStreamAssumption DEF Free, Inv, Users
  <1> QED BY <1>3

LEMMA NextInv == Inv /\ [Next]_vars => Inv'
  <1> SUFFICES ASSUME Inv, [Next]_vars PROVE Inv'
    OBVIOUS
  <1> USE SampleStreamAssumption, MetadataNumber
  <1>1. CASE StartPublisher
    BY <1>1 DEF StartPublisher, subscriberVars, Inv, TypeInv, Users, Complete, Loaned, InHand
  <1>2. CASE Loan
    <2>1. loan' \in Free /\ publisher' = "loaned" /\ publisher = "ready"
      BY <1>2, ChunkLeft DEF Loan
    <2> QED
      BY <1>2, <2>1 DEF Loan, Free, subscriberVars, Inv, TypeInv, Users, Complete, Loaned, InHand
  <1>3. CASE EncodeBegins
    BY <1>3 DEF EncodeBegins, subscriberVars, Inv, TypeInv, Users, Complete, Loaned, InHand
  <1>4. CASE EncodeEnds
    BY <1>4 DEF EncodeEnds, subscriberVars, Inv, TypeInv, Users, Complete, Loaned, InHand
  <1>5. CASE Send
    BY <1>5 DEF Send, subscriberVars, Inv, TypeInv, Users, Complete, Loaned, InHand
  <1>6. CASE NextRun
    BY <1>6 DEF NextRun, subscriberVars, Inv, TypeInv, Users, Complete, Loaned, InHand
  <1>7. CASE Exit
    BY <1>7 DEF Exit, subscriberVars, Inv, TypeInv, Users, Complete, Loaned, InHand
  <1>8. CASE StartSubscriber \/ Wait \/ Wake \/ WaitFails
    BY <1>8 DEF StartSubscriber, Wait, Wake, WaitFails, publisherVars, Inv, TypeInv, Users, Complete, Loaned, InHand
  <1>9. CASE Receive
    BY <1>9 DEF Receive, publisherVars, Inv, TypeInv, Users, Complete, Loaned, InHand
  <1>10. CASE Decode
    BY <1>10 DEF Decode, View, WhileViewed, publisherVars, Inv, TypeInv, Users, Complete, Loaned, InHand
  <1>11. CASE Verify
    <2>1. received' \in Seq(Nat)
      <3>1. seen = image[sample] /\ sample \in Chunks /\ seen # Torn
        BY <1>11 DEF Verify, Inv, Users, Complete, InHand
      <3>2. PICK r \in Nat : seen = Metadata(r)
        BY <3>1 DEF Inv, TypeInv
      <3> QED BY <1>11, <3>2 DEF Verify, Inv, TypeInv
    <2> QED
      BY <1>11, <2>1 DEF Verify, Checked, View, publisherVars, Inv, TypeInv, Users, Complete, Loaned, InHand
  <1>12. CASE Release
    BY <1>12 DEF Release, AfterDel, publisherVars, Inv, TypeInv, Users, Complete, Loaned, InHand
  <1>13. CASE UNCHANGED vars
    BY <1>13 DEF vars, publisherVars, subscriberVars, Inv, TypeInv, Users, Complete, Loaned, InHand
  <1> QED
    BY <1>1, <1>2, <1>3, <1>4, <1>5, <1>6, <1>7, <1>8, <1>9, <1>10, <1>11, <1>12, <1>13
    DEF Next, Publish, Subscribe

LEMMA NextOrder == Inv /\ Order /\ [Next]_vars => Order'
  <1> SUFFICES ASSUME Inv, Order, [Next]_vars PROVE Order'
    OBVIOUS
  <1> USE SampleStreamAssumption
  <1>0. /\ run \in Nat /\ received \in Seq(Nat)
        /\ \A c \in Chunks : image[c] = Torn \/ \E r \in Nat : image[c] = Metadata(r)
        /\ \A c \in Chunks : image[c] # Torn => Number(image[c]) \in Nat
    BY MetadataNumber DEF Inv, TypeInv
  <1> USE DEF Order, AllBefore, Bound, MeasuredInOrder
  <1>1. CASE StartPublisher \/ Loan
    BY <1>0, <1>1 DEF StartPublisher, Loan, subscriberVars
  <1>2. CASE EncodeBegins \/ EncodeEnds
    <2>1. /\ \A c \in Chunks : c # loan => image'[c] = image[c]
          /\ buffer # NoChunk => buffer # loan /\ buffer \in Chunks
          /\ subscriber \in InHand => sample # loan /\ sample \in Chunks
      BY <1>2 DEF EncodeBegins, EncodeEnds, Inv, TypeInv, Users, Loaned
    <2>2. Bound' = Bound /\ UNCHANGED <<buffer, subscriberVars>>
      BY <1>2 DEF EncodeBegins, EncodeEnds
    <2> QED
      BY <1>0, <2>1, <2>2 DEF subscriberVars, InHand
  <1>3. CASE Send
    <2>1. image[loan] = Metadata(run) /\ Number(image[loan]) = run /\ publisher' = "sent"
      BY <1>0, <1>3, MetadataNumber DEF Send, Inv, Complete
    <2>2. CASE buffer' = buffer
      BY <1>0, <1>3, <2>2 DEF Send, subscriberVars, Inv, TypeInv, Users, Complete, InHand
    <2>3. CASE buffer' = loan
      BY <1>0, <1>3, <2>1, <2>3 DEF Send, subscriberVars, Inv, TypeInv, Users, Complete, InHand
    <2> QED BY <1>3, <2>2, <2>3 DEF Send
  <1>4. CASE NextRun
    BY <1>0, <1>4 DEF NextRun, subscriberVars
  <1>5. CASE Exit
    BY <1>0, <1>5 DEF Exit, subscriberVars, Inv, TypeInv, Users, Complete, InHand
  <1>6. CASE StartSubscriber \/ Wait \/ Wake \/ WaitFails
    BY <1>0, <1>6 DEF StartSubscriber, Wait, Wake, WaitFails, publisherVars, InHand
  <1>7. CASE Receive
    BY <1>0, <1>7 DEF Receive, publisherVars, Inv, Users, InHand
  <1>8. CASE Decode
    BY <1>0, <1>8 DEF Decode, publisherVars, InHand
  <1>9. CASE Verify
    <2>1. seen = image[sample] /\ sample \in Chunks /\ seen # Torn
      BY <1>9 DEF Verify, Inv, Users, Complete, InHand
    <2>2. PICK r \in Nat : seen = Metadata(r)
      BY <1>0, <2>1
    <2>3. CASE received' = received
      BY <1>0, <1>9, <2>3 DEF Verify, publisherVars, InHand, Checked
    <2>4. CASE seen[1] = "M" /\ received' = Append(received, seen[2])
      <3>1. seen[2] \in Nat /\ seen[2] + Warmup = Number(image[sample])
        BY <2>1, <2>2, <2>4, MetadataNumber
      <3>2. /\ DOMAIN received' = 1 .. Len(received) + 1
            /\ \A i \in DOMAIN received : received'[i] = received[i]
            /\ received'[Len(received) + 1] = seen[2]
            /\ DOMAIN received = 1 .. Len(received)
            /\ \A i \in DOMAIN received : received[i] \in Nat
            /\ Len(received) \in Nat
        BY <1>0, <2>4, <3>1
      <3>3. /\ AllBefore(Number(image[sample]))
            /\ UNCHANGED <<publisher, run, image, buffer, sample>>
            /\ subscriber' \in {"verified", "failed"} /\ subscriber = "decoded"
        BY <1>9 DEF Verify, publisherVars, Checked
      <3>4. \A i \in DOMAIN received : received[i] < seen[2]
        BY <3>1, <3>2, <3>3, <1>0
      <3>5. MeasuredInOrder'
        BY <3>1, <3>2, <3>4
      <3>6. ASSUME NEW n \in Int, AllBefore(n), Number(image[sample]) < n
            PROVE  AllBefore(n)'
        BY <3>1, <3>2, <3>6
      <3>7. Bound \in Int /\ Bound' = Bound
        BY <3>3, <1>0
      <3>8. AllBefore(Bound)'
        BY <3>3, <3>6, <3>7 DEF InHand
      <3>9. buffer # NoChunk => AllBefore(Number(image[buffer]))'
        <4>1. buffer # NoChunk =>
                 Number(image[buffer]) \in Int /\ Number(image[sample]) < Number(image[buffer])
          BY <1>0, <3>3 DEF InHand, Inv, TypeInv, Complete
        <4>2. ASSUME buffer # NoChunk PROVE AllBefore(Number(image[buffer]))'
          BY <3>1, <3>2, <3>3, <4>1, <4>2
        <4> QED BY <4>2
      <3> HIDE DEF AllBefore, MeasuredInOrder, Bound
      <3>10. /\ Number(image'[sample']) < Bound'
             /\ buffer' # NoChunk => Number(image'[sample']) < Number(image'[buffer'])
                                    /\ Number(image'[buffer']) < Bound'
        BY <3>3, <3>7 DEF InHand
      <3> QED
        BY <3>3, <3>5, <3>8, <3>9, <3>10 DEF InHand
    <2> QED BY <1>9, <2>3, <2>4 DEF Verify
  <1>10. CASE Release
    BY <1>0, <1>10 DEF Release, publisherVars, InHand
  <1>11. CASE UNCHANGED vars
    BY <1>0, <1>11 DEF vars, publisherVars, subscriberVars
  <1> QED
    BY <1>1, <1>2, <1>3, <1>4, <1>5, <1>6, <1>7, <1>8, <1>9, <1>10, <1>11
    DEF Next, Publish, Subscribe

LEMMA Invariance == Spec => [](Inv /\ Order)
  BY InitInv, NextInv, NextOrder, PTL DEF Spec

-----------------------------------------------------------------------------
\* What the type invariant adds: numbers are in their bounds.
Bounded ==
    /\ run <= Total
    /\ publisher \notin {"holding", "gone"} => run < Total
    /\ image \in [Chunks -> Contents] /\ seen \in Contents
    /\ received \in Seq(0 .. Iterations - 1)
    /\ missed \subseteq Runs

LEMMA MetadataContents == \A r \in Nat : r < Total => Metadata(r) \in Contents
  BY SampleStreamAssumption DEF Metadata, Contents, Total

LEMMA NextBounded == Inv /\ Bounded /\ [Next]_vars => Bounded'
  <1> SUFFICES ASSUME Inv, Bounded, [Next]_vars PROVE Bounded'
    OBVIOUS
  <1>0. run \in Nat /\ Total \in Nat /\ Torn \in Contents
    BY SampleStreamAssumption DEF Inv, TypeInv, Total, Contents
  <1>1. CASE UNCHANGED vars \/ StartPublisher \/ Loan \/ StartSubscriber \/ Wait \/ Wake
             \/ WaitFails \/ Receive
    BY <1>1 DEF vars, publisherVars, subscriberVars, Bounded, StartPublisher, Loan,
                StartSubscriber, Wait, Wake, WaitFails, Receive
  <1>2. CASE EncodeBegins \/ EncodeEnds
    <2>1. Metadata(run) \in Contents
      BY <1>0, <1>2, MetadataContents DEF EncodeBegins, EncodeEnds, Bounded
    <2> QED
      BY <1>0, <1>2, <2>1 DEF EncodeBegins, EncodeEnds, subscriberVars, Bounded
  <1>3. CASE Send
    <2>1. run \in Runs /\ Buffered \subseteq Runs
      BY <1>0, <1>3 DEF Send, Bounded, Buffered, Runs
    <2>2. missed' \subseteq Runs /\ run' = run /\ run < Total
      BY <1>0, <1>3, <2>1 DEF Send, Bounded
    <2>3. UNCHANGED <<image, seen, received>>
      BY <1>3 DEF Send, subscriberVars
    <2> QED
      BY <1>0, <2>2, <2>3 DEF Bounded
  <1>4. CASE NextRun
    BY <1>0, <1>4 DEF NextRun, subscriberVars, Bounded
  <1>5. CASE Exit
    <2>1. Buffered \subseteq Runs
      BY DEF Buffered
    <2>2. missed' \subseteq Runs /\ run' = run /\ publisher' = "gone"
      BY <1>5, <2>1 DEF Exit, Bounded, Inv, TypeInv
    <2>3. UNCHANGED <<image, seen, received>>
      BY <1>5 DEF Exit, subscriberVars
    <2> QED
      BY <1>0, <2>2, <2>3 DEF Bounded
  <1>6. CASE Decode
    <2>1. sample \in Chunks
      BY <1>6 DEF Decode, Inv, Users, InHand
    <2> QED
      BY <1>6, <2>1 DEF Decode, View, publisherVars, Bounded
  <1>7. CASE Verify
    <2>1. seen # Torn /\ seen \in Contents
      BY <1>7 DEF Verify, Inv, Users, Complete, InHand, Bounded
    <2>2. seen[1] = "M" => seen[2] \in 0 .. Iterations - 1
      BY <2>1 DEF Contents
    <2>3. received' \in Seq(0 .. Iterations - 1)
      <3> DEFINE S == 0 .. Iterations - 1
      <3>1. received \in Seq(S) /\ (seen[1] = "M" => seen[2] \in S)
        BY <2>2 DEF Bounded
      <3>2. received' = IF seen[1] = "M" THEN Append(received, seen[2]) ELSE received
        BY <1>7 DEF Verify
      <3> HIDE DEF S
      <3>3. received' \in Seq(S)
        BY <3>1, <3>2
      <3> QED BY <3>3 DEF S
    <2>4. UNCHANGED <<publisher, run, image, seen, missed>>
      BY <1>7 DEF Verify, publisherVars
    <2> QED
      BY <2>3, <2>4 DEF Bounded
  <1>8. CASE Release
    BY <1>0, <1>8 DEF Release, publisherVars, Bounded
  <1> QED
    BY <1>1, <1>2, <1>3, <1>4, <1>5, <1>6, <1>7, <1>8 DEF Next, Publish, Subscribe

LEMMA AlwaysBounded == Spec => []Bounded
  <1>1. Init => Bounded
    BY SampleStreamAssumption DEF Init, Bounded, Total, Contents
  <1> QED BY <1>1, NextBounded, Invariance, PTL DEF Spec

\* The publisher never encodes into the chunk of a decoded message
\* (README.md "Use them while `sample` is alive"); and the type invariant.
THEOREM ViewsAreStable == Spec => []SampleStable
  <1>1. Inv /\ Bounded => SampleStable
    BY DEF Inv, TypeInv, Complete, Users, Bounded, TypeOK, SampleStable, Loaned, InHand
  <1> QED BY <1>1, Invariance, AlwaysBounded, PTL

\* Neither a loan nor a receive is ever refused (publisher.py:128,
\* subscriber.py:85).
THEOREM PoolSuffices == Spec => []NeverRefused
  <1>1. Inv => NeverRefused
    BY DEF Inv, TypeInv, NeverRefused, Loaned, InHand
  <1> QED BY <1>1, Invariance, PTL

\* Measured samples are counted once and in the order sent (publisher.py:143).
THEOREM MeasuredOnceInOrder == Spec => []MeasuredInOrder
  <1>1. Order => MeasuredInOrder
    BY DEF Order
  <1> QED BY <1>1, Invariance, PTL
=============================================================================
