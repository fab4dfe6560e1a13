------------------------------ MODULE Decoder ------------------------------
(***************************************************************************)
(* peek(), decode_auto() and decode() of src/src/npb/_codec.py on any      *)
(* buffer, one action per check or per leaf of the manifest.               *)
(*                                                                         *)
(* A buffer is its header, its length, what its manifest is as JSON, and   *)
(* the leaves of the manifest in the order _restore_tree meets them.       *)
(***************************************************************************)
EXTENDS Container, Sequences

VARIABLES
    step,       \* where the call is; idle, returned, raised outside one
    request,    \* its arguments
    restored,   \* what _restore_tree has made of the leaves so far
    asked,      \* blob entries the store was asked for
    error       \* why the call raised

decodeVars == <<step, request, restored, asked, error>>

\* The fields of a reference; items is the product of its dimensions.
Reference == [usable : BOOLEAN, offset : Int, nbytes : Int, itemsize : Nat,
              items : Int, negativeDim : BOOLEAN]

Entry == [key : {"bin"}, ref : Reference]
         \cup [key : {"blob"}, ref : Reference, store : {"ours", "other"}]
         \cup [key : {"plain"}]

\* top: the manifest is no JSON, not an object, or an object.
Binary == [head : Header, nbytes : Nat, top : {"invalid", "list", "object"},
           entries : Seq(Entry)]

\* The blob_store argument: None, or a store of some kind.
Request == [api : {"peek", "decode_auto", "decode"}, binary : Binary,
            schema : Nat, version : Nat, store : {"none", "ours", "other"}]

DecodeInit ==
    /\ step = "idle" /\ request = [api |-> "none"]
    /\ restored = << >> /\ asked = {} /\ error = "none"

Start(r) ==
    /\ step = "idle" /\ step' = "header"
    /\ request' = r
    /\ UNCHANGED <<restored, asked, error>>

binary == request.binary
info == binary.head
Raise(why) == step' = "raised" /\ error' = why
GoOn(to) == step' = to /\ UNCHANGED error

\* The steps of a call behind a valid header.
AfterHeader(api) ==
    CASE api = "peek" -> "returned"
      [] api = "decode_auto" -> "manifest"
      [] api = "decode" -> "schema"

ParseHeader ==
    /\ step = "header"
    /\ IF HeaderAccepted(info, binary.nbytes)
       THEN GoOn(AfterHeader(request.api))
       ELSE Raise("format")
    /\ UNCHANGED <<request, restored, asked>>

\* decode compares the schema before it looks at the manifest.
CheckSchema ==
    /\ step = "schema"
    /\ IF info.schema = request.schema /\ info.version = request.version
       THEN GoOn("manifest")
       ELSE Raise("schema")
    /\ UNCHANGED <<request, restored, asked>>

ParseManifest ==
    /\ step = "manifest"
    /\ IF binary.top = "invalid" THEN Raise("format") ELSE GoOn("restore")
    /\ UNCHANGED <<request, restored, asked>>

Leaf1 == Len(restored) + 1
leaf == binary.entries[Leaf1]
Restoring(key) ==
    step = "restore" /\ Leaf1 \in DOMAIN binary.entries /\ leaf.key = key

\* The view np.frombuffer makes, as bytes of the buffer.
ViewOf(v) ==
    [key |-> "view", from |-> info.dataStart + v.offset,
     to |-> info.dataStart + v.offset + v.nbytes]

\* {"$bin": {"kind": "ndarray", ...}}; usable: its fields can be converted and
\* its dtype is a plain one.
RestoreView ==
    /\ Restoring("bin")
    /\ IF leaf.ref.usable /\ RefAccepted(leaf.ref, info, binary.nbytes)
       THEN restored' = Append(restored, ViewOf(leaf.ref)) /\ GoOn(step)
       ELSE Raise("format") /\ UNCHANGED restored
    /\ UNCHANGED <<request, asked>>

\* The store whose get_array is called; the mutant asks any store.
AnyStore(e) == request.store # "none"
StoreMatches(e) == request.store = e.store

\* {"$blob": ...}: refused, kept as a BlobRef, or fetched; get_array may raise.
RestoreBlob ==
    /\ Restoring("blob")
    /\ CASE ~BlobAccepted(leaf.ref) -> Raise("format") /\ UNCHANGED <<restored, asked>>
         [] BlobAccepted(leaf.ref) /\ request.store = "none" ->
               /\ restored' = Append(restored, [key |-> "unresolved"])
               /\ GoOn(step) /\ UNCHANGED asked
         [] BlobAccepted(leaf.ref) /\ request.store # "none" /\ ~StoreMatches(leaf) ->
               Raise("format") /\ UNCHANGED <<restored, asked>>
         [] OTHER ->
               /\ asked' = asked \cup {leaf}
               /\ \/ restored' = Append(restored, [key |-> "array"]) /\ GoOn(step)
                  \/ UNCHANGED restored /\ Raise("store")
    /\ UNCHANGED request

RestorePlain ==
    /\ Restoring("plain")
    /\ restored' = Append(restored, [key |-> "plain"])
    /\ UNCHANGED <<step, request, asked, error>>

\* _contains_unresolved_blob_ref looks at every leaf.
Unresolved == \E i \in DOMAIN restored : restored[i].key = "unresolved"

\* The end of _decode_tree, then of decode: model_validate may raise.
Finish ==
    /\ step = "restore" /\ Leaf1 \notin DOMAIN binary.entries
    /\ CASE binary.top # "object" -> Raise("format")
         [] binary.top = "object" /\ request.api = "decode" /\ Unresolved ->
               Raise("store required")
         [] binary.top = "object" /\ request.api = "decode" /\ ~Unresolved ->
               Raise("validation") \/ GoOn("returned")
         [] OTHER -> GoOn("returned")
    /\ UNCHANGED <<request, restored, asked>>

DecodeStep ==
    \/ ParseHeader \/ CheckSchema \/ ParseManifest
    \/ RestoreView \/ RestoreBlob \/ RestorePlain \/ Finish

DecodeNext == (\E r \in Request : Start(r)) \/ DecodeStep
DecodeSpec == DecodeInit /\ [][DecodeNext]_decodeVars
-----------------------------------------------------------------------------
\* A view returned to the application lies inside the data section the header
\* declares, behind header and manifest, and inside the buffer, whatever
\* header and reference claim (_format.py:100-114 with _codec.py:356-377).
ViewsInside ==
    \A i \in DOMAIN restored : restored[i].key = "view" =>
        /\ HEADER_SIZE + info.metadata <= restored[i].from
        /\ restored[i].from <= restored[i].to
        /\ restored[i].to <= info.dataStart + info.dataBytes
        /\ restored[i].to <= info.encoded /\ info.encoded <= binary.nbytes

\* A store is asked only for references of its own kind whose byte count is
\* that of their shape, and by decode only for those of a container of the
\* expected schema and version (_blob.py:51-66, _codec.py:334 and 486-497).
StoreAskedRightly ==
    asked # {} =>
        /\ \A e \in asked : /\ e.store = request.store
                            /\ e.ref.offset >= 0
                            /\ e.ref.nbytes = e.ref.itemsize * e.ref.items
        /\ request.api = "decode" =>
              info.schema = request.schema /\ info.version = request.version

\* The model a typed decode returns has no BlobRef in place of an array, in
\* any leaf (_codec.py:499), and its container has the expected schema.
TypedIsComplete ==
    step = "returned" /\ request.api = "decode" =>
        /\ Len(restored) = Len(binary.entries)
        /\ \A i \in DOMAIN restored : restored[i].key # "unresolved"
        /\ info.schema = request.schema /\ info.version = request.version
=============================================================================
