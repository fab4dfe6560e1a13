---------------------------- MODULE EncodeDecode ----------------------------
(***************************************************************************)
(* The encoder and the decoder on one buffer: decode reads what encode     *)
(* left there, or a container from somewhere else.                         *)
(***************************************************************************)
EXTENDS Codec, Decoder

CONSTANTS
    Containers,   \* buffers from elsewhere
    Given,        \* manifest entries that references of the application become
    OwnDecodes    \* bound: calls of the encoder before a decode of its buffer

\* A container from elsewhere is any bytes a decoder can be handed, and a
\* reference of the application any entry it can find.
ASSUME EncodeDecodeAssumption == Containers \subseteq Binary /\ Given \subseteq Entry

\* What a reader finds in the buffer of a finished call.  put_array returns a
\* reference of its store that is consistent.
ReferenceOf(e) ==
    [usable |-> TRUE, offset |-> IF e.key = "bin" THEN e.off ELSE 0, nbytes |-> e.n,
     itemsize |-> 1, items |-> e.n, negativeDim |-> FALSE]
EntryOf(e) ==
    CASE e.key = "bin" -> [key |-> "bin", ref |-> ReferenceOf(e)]
      [] e.key = "blob" -> [key |-> "blob", ref |-> ReferenceOf(e), store |-> "ours"]

\* The leaves of the application that look like a reference: a BlobRef is
\* nothing but a "$blob".
GivenLeaves == {l \in DOMAIN manifest : manifest[l].key = "given"}
Fitting(g) ==
    \A l \in GivenLeaves : model.leaves[l].kind = "ref" => g[l].key = "blob"

OwnBinary(g) ==
    [head |-> head, nbytes |-> size,
     top |-> IF ManifestIntact THEN "object" ELSE "invalid",
     entries |-> [l \in DOMAIN manifest |->
                     IF l \in GivenLeaves THEN g[l] ELSE EntryOf(manifest[l])]]

DecodeOwn ==
    /\ pc = "done" /\ calls <= OwnDecodes /\ step = "idle"
    /\ \E g \in [GivenLeaves -> Given], api \in {"decode_auto", "decode"},
          st \in {"none", "ours", "other"} :
          /\ Fitting(g)
          /\ Start([api |-> api, binary |-> OwnBinary(g), schema |-> OurSchema,
                    version |-> model.version, store |-> st])
    /\ UNCHANGED vars

DecodeOther ==
    /\ calls = 0 /\ step = "idle"
    /\ \E b \in Containers, api \in {"peek", "decode_auto", "decode"},
          st \in {"none", "ours", "other"} :
          Start([api |-> api, binary |-> b, schema |-> OurSchema,
                 version |-> 0, store |-> st])
    /\ UNCHANGED vars

\* Bound: a behaviour ends with one decode.
Encoding == step = "idle" /\ Next /\ UNCHANGED decodeVars
Decoding == DecodeStep /\ UNCHANGED vars

PairInit == Init /\ DecodeInit
PairNext == Encoding \/ DecodeOwn \/ DecodeOther \/ Decoding
PairSpec == PairInit /\ [][PairNext]_<<vars, decodeVars>>
-----------------------------------------------------------------------------
\* decode accepts the container encode returns: header, schema, manifest and
\* every array pass its checks.  It raises only if the store does, the model
\* refuses its values, an array was left in a store and decode has none or
\* one of another kind, or at a reference the application itself put into the
\* model, which encode does not look at (_codec.py:78-91 against 325-340).
EncodedIsAccepted ==
    step = "raised" /\ calls > 0 =>
        \/ error \in {"store", "validation"}
        \/ error = "store required" /\ request.store = "none"
        \/ /\ error = "format" /\ Leaf1 \in DOMAIN manifest
           /\ \/ Leaf1 \in GivenLeaves
              \/ manifest[Leaf1].key = "blob" /\ request.store = "other"
=============================================================================
