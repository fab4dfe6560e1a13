------------------------------- MODULE Codec -------------------------------
(***************************************************************************)
(* encode() and encoded_size() of src/src/npb/_codec.py, one action per    *)
(* step of the call that reads or writes state outside the call: the blob  *)
(* store during the tree walk, the output buffer afterwards.               *)
(*                                                                         *)
(* A byte of a buffer is a cell <<tag, call, leaf, at>>: where it came     *)
(* from, not its value.  The first HEADER_SIZE bytes are the record head,  *)
(* the others the function bin.  Bytes a buffer held before this module    *)
(* knew it are "junk".                                                     *)
(*                                                                         *)
(* A model is the sequence of the leaves in the order the tree walk meets  *)
(* them (dicts and lists only fix that order), the length of its manifest  *)
(* as JSON and the version of its schema.  A leaf may be a view of the     *)
(* very buffer the call writes to: decode() returns such views.            *)
(***************************************************************************)
EXTENDS Container, Sequences

CONSTANTS
    Models,       \* models the application passes in
    Thresholds,   \* values of externalize_min_bytes, NoThreshold for None
    OutSizes,     \* sizes of the application's reusable buffer
    U32,          \* first value struct's "I" does not take, 2^32 in the code
    MaxCalls      \* bound on the number of calls

Fresh == -1          \* "at" of a leaf that owns its memory
NoThreshold == -1    \* externalize_min_bytes is None

LeafKinds == {"array",      \* numeric ndarray
              "object",     \* ndarray of object or structured dtype
              "ref",        \* BlobRef
              "reserved",   \* dict whose only key is "$blob" or "$bin"
              "opaque"}     \* value to_json and _json_fallback refuse

Leaf == [kind : LeafKinds, n : Nat, at : Nat \cup {Fresh}]
Model == [leaves : Seq(Leaf), json : Nat, version : Nat]

ASSUME CodecAssumption ==
    /\ Models \subseteq Model
    /\ Thresholds \subseteq Nat \cup {NoThreshold}
    /\ OutSizes \subseteq {n \in Nat : n >= HEADER_SIZE}
    /\ U32 \in Nat \ {0}
    /\ MaxCalls \in Nat

VARIABLES
    pc,         \* where the call is
    call,       \* its arguments
    calls,      \* calls so far
    k,          \* leaves walked
    cursor,     \* _manifest_tree's cursor[0]
    arrays,     \* its list of inline arrays: [off, n, leaf]
    manifest,   \* the tree it returns, one entry per leaf
    head, bin,  \* the output buffer
    size,       \* its length in bytes
    before,     \* the buffer when the call started (history)
    j,          \* arrays copied
    prevEnd,    \* encode's previous_end
    store       \* contents of the objects put into the blob store

vars == <<pc, call, calls, k, cursor, arrays, manifest, head, bin, size,
          before, j, prevEnd, store>>
walkVars == <<call, calls, before, head, bin, size, j, prevEnd>>
treeVars == <<call, calls, k, cursor, arrays, manifest, before, store>>

Zero == <<"zero", 0, 0, 0>>
Junk(p) == <<"junk", 0, 0, p>>
Json(i) == <<"json", calls, 0, i>>
Data(l, i) == <<"data", calls, l, i>>

Buffer(n) == HEADER_SIZE .. n - 1
OurSchema == 1       \* schema UUID of the models
BinEntry(off, n) == [key |-> "bin", off |-> off, n |-> n]
BlobEntry(ref) == [key |-> "blob", off |-> ref, n |-> 0]
\* What looks like a reference and was put there by the application: a BlobRef
\* is written as it is, and so is a dict with a reserved key.
GivenEntry == [key |-> "given", off |-> 0, n |-> 0]

model == call.model
\* The value of byte i of leaf l when the call started.
Value(l, i) == LET at == model.leaves[l].at
               IN  IF at = Fresh THEN Data(l, i) ELSE before.bin[at + i]
\* Its value now: a leaf that is a view of the buffer follows the buffer.
\* With out=None the views stay on the caller's buffer.
Current(l, i) ==
    LET at == model.leaves[l].at
    IN  IF at = Fresh THEN Data(l, i)
        ELSE IF call.out = "none" THEN before.bin[at + i] ELSE bin[at + i]

dataStart == DataStart(model.json)
total == TotalSize(model.json, cursor)
-----------------------------------------------------------------------------
Init ==
    /\ pc = "idle"
    /\ call = [goal |-> "none"]
    /\ calls = 0 /\ k = 0 /\ cursor = 0 /\ j = 0 /\ prevEnd = 0
    /\ arrays = << >> /\ manifest = << >> /\ store = << >>
    /\ head = ZeroHeader
    /\ size \in OutSizes
    /\ bin = [p \in Buffer(size) |-> Junk(p)]
    /\ before = [head |-> head, bin |-> bin]

\* The local variables a call starts with.
Reset == /\ k' = 0 /\ cursor' = 0 /\ arrays' = << >> /\ manifest' = << >>
         /\ j' = 0 /\ prevEnd' = 0

\* encode(model, out=..., blob_store=..., externalize_min_bytes=...), or
\* encoded_size with the same arguments.  Views lie in the caller's buffer.
\* _analyze_model refuses a threshold without a store.
Call(goal, m, min, hasStore, out) ==
    /\ goal = "size" => out = "none"
    /\ \A l \in DOMAIN m.leaves :
          m.leaves[l].at # Fresh =>
              m.leaves[l].at .. m.leaves[l].at + m.leaves[l].n - 1
                  \subseteq Buffer(size)
    /\ call' = [goal |-> goal, model |-> m, min |-> min, store |-> hasStore,
                out |-> out]
    /\ calls' = calls + 1
    /\ Reset
    /\ before' = [head |-> head, bin |-> bin]
    /\ pc' = IF min # NoThreshold /\ ~hasStore THEN "failed" ELSE "walk"
    /\ UNCHANGED <<head, bin, size, store>>

NewCall ==
    /\ pc \in {"idle", "done", "sized", "failed"}
    /\ calls < MaxCalls
    /\ \E goal \in {"encode", "size"}, m \in Models, min \in Thresholds,
          hasStore \in BOOLEAN, out \in {"none", "usable", "unusable"} :
          Call(goal, m, min, hasStore, out)

\* should_externalize
External(leaf) == call.store /\ call.min # NoThreshold /\ leaf.n >= call.min

Next1 == k + 1
Walking(kind) == pc = "walk" /\ k < Len(model.leaves)
                 /\ model.leaves[Next1].kind = kind

\* rel_offset
PackedOffset == cursor
RelOffset == AlignUp(cursor, ARRAY_ALIGNMENT)

\* An ndarray that stays in the container gets the next aligned offset.
WalkInline ==
    /\ Walking("array")
    /\ LET leaf == model.leaves[Next1]
           off == RelOffset
       IN  /\ ~External(leaf)
           /\ cursor' = off + leaf.n
           /\ arrays' = Append(arrays, [off |-> off, n |-> leaf.n, leaf |-> Next1])
           /\ manifest' = Append(manifest, BinEntry(off, leaf.n))
    /\ k' = Next1
    /\ UNCHANGED <<pc, store, walkVars>>

\* put_array: the store copies the bytes and returns a reference.
WalkExternal ==
    /\ Walking("array")
    /\ LET leaf == model.leaves[Next1]
       IN  /\ External(leaf)
           /\ store' = Append(store, [i \in 0 .. leaf.n - 1 |-> Current(Next1, i)])
    /\ manifest' = Append(manifest, BlobEntry(Len(store')))
    /\ k' = Next1
    /\ UNCHANGED <<pc, cursor, arrays, walkVars>>

\* _validate_ndarray raises TypeError, or put_array fails, in the middle of
\* the walk.
WalkRefuse ==
    /\ \/ Walking("object")
       \/ Walking("array") /\ External(model.leaves[Next1])
    /\ pc' = "failed"
    /\ UNCHANGED <<k, cursor, arrays, manifest, store, walkVars>>

\* Every other leaf enters the manifest as it is.
WalkPlain ==
    /\ \E kind \in {"ref", "reserved", "opaque"} :
          /\ Walking(kind)
          /\ manifest' = Append(manifest,
                IF kind = "opaque" THEN [key |-> "opaque", off |-> 0, n |-> 0]
                ELSE GivenEntry)
    /\ k' = Next1
    /\ UNCHANGED <<pc, cursor, arrays, store, walkVars>>

\* to_json raises, or _analyze_model returns to encoded_size or to encode.
EndWalk ==
    /\ pc = "walk" /\ k = Len(model.leaves)
    /\ pc' = CASE \E e \in DOMAIN manifest : manifest[e].key = "opaque" -> "failed"
               [] OTHER -> IF call.goal = "size" THEN "sized" ELSE "prepare"
    /\ UNCHANGED <<k, cursor, arrays, manifest, store, walkVars>>
-----------------------------------------------------------------------------
\* What _prepare_output zeroes: the header fields and the bytes in front of
\* the data section.
OldHead == head
ClearedHead == ZeroHeader
AllBytes == Buffer(size)
Cleared == HEADER_SIZE .. dataStart - 1

\* _prepare_output allocates with np.empty, or checks the caller's buffer,
\* and zeroes everything in front of the data section.
Prepare ==
    /\ pc = "prepare"
    /\ CASE call.out = "none" ->
               /\ size' = total
               /\ bin' = [p \in Buffer(total) |->
                             IF p \in Cleared THEN Zero ELSE Junk(p)]
               /\ head' = ClearedHead /\ pc' = "pack"
         [] call.out = "usable" /\ size >= total ->
               /\ bin' = [p \in Buffer(size) |->
                             IF p \in Cleared THEN Zero ELSE bin[p]]
               /\ head' = ClearedHead /\ pc' = "pack"
               /\ UNCHANGED size
         [] OTHER -> pc' = "failed" /\ UNCHANGED <<head, bin, size>>
    /\ UNCHANGED <<treeVars, j, prevEnd>>

\* struct packs the fields from left to right and raises at the first one
\* out of range; the fields in front of it are in the buffer by then.
PackHeader ==
    /\ pc = "pack"
    /\ LET ident == [head EXCEPT !.known = TRUE, !.schema = OurSchema]
           named == [ident EXCEPT !.version = model.version]
       IN  CASE model.version >= U32 -> head' = ident /\ pc' = "failed"
             [] model.version < U32 /\ model.json >= U32 ->
                    head' = named /\ pc' = "failed"
             [] OTHER ->
                    /\ head' = [named EXCEPT !.metadata = model.json,
                                    !.dataStart = dataStart,
                                    !.dataBytes = cursor, !.encoded = total]
                    /\ pc' = "meta"
    /\ UNCHANGED <<treeVars, bin, size, j, prevEnd>>

WriteMetadata ==
    /\ pc = "meta"
    /\ bin' = [p \in Buffer(size) |->
                  IF p < HEADER_SIZE + model.json THEN Json(p - HEADER_SIZE) ELSE bin[p]]
    /\ pc' = "copy"
    /\ UNCHANGED <<treeVars, head, size, j, prevEnd>>

\* The alignment gap in front of array a, behind the previous array.
NoGap(a) == {}
Gap(a) == dataStart + prevEnd .. (dataStart + a.off) - 1

\* The bytes between the data and the end of the container; SlicePadding
\* takes the buffer for the container.
SlicePadding == dataStart + cursor .. size - 1
Padding == dataStart + cursor .. total - 1

\* One round of the copy loop: zero the alignment gap, then copy the array.
CopyArray ==
    /\ pc = "copy" /\ j < Len(arrays)
    /\ LET a == arrays[j + 1]
           start == dataStart + a.off
           zeroed(p) == IF p \in Gap(a) THEN Zero ELSE bin[p]
           at == model.leaves[a.leaf].at
           byte(i) == IF at # Fresh /\ call.out # "none" THEN zeroed(at + i)
                      ELSE Value(a.leaf, i)
       IN  /\ bin' = [p \in Buffer(size) |->
                         IF p \in start .. start + a.n - 1 THEN byte(p - start)
                         ELSE zeroed(p)]
           /\ prevEnd' = a.off + a.n
    /\ j' = j + 1
    /\ UNCHANGED <<treeVars, pc, head, size>>

\* np.ascontiguousarray finds no memory for the copy of a strided array; the
\* header, the manifest and the arrays in front of it are in the buffer by
\* then.  Whether an array with memory of its own is strided is left open; one
\* byte never is, and a view of the buffer is contiguous in this model.
CopyFails ==
    /\ pc = "copy" /\ j < Len(arrays)
    /\ LET a == arrays[j + 1]
       IN  model.leaves[a.leaf].at = Fresh /\ a.n > 1
    /\ pc' = "failed"
    /\ UNCHANGED <<treeVars, head, bin, size, j, prevEnd>>

\* Zero the frame padding behind the data and return the container.
PadFrame ==
    /\ pc = "copy" /\ j = Len(arrays)
    /\ bin' = [p \in Buffer(size) |->
                  IF p \in Padding THEN Zero ELSE bin[p]]
    /\ pc' = "done"
    /\ UNCHANGED <<treeVars, head, size, j, prevEnd>>

Next ==
    \/ NewCall
    \/ WalkInline \/ WalkExternal \/ WalkRefuse \/ WalkPlain \/ EndWalk
    \/ Prepare \/ PackHeader \/ WriteMetadata
    \/ CopyArray \/ CopyFails \/ PadFrame

Spec == Init /\ [][Next]_vars

-----------------------------------------------------------------------------
\* decode() of the buffer, for a container whose manifest is this call's.
ManifestIntact ==
    /\ head.metadata = model.json
    /\ \A i \in 0 .. model.json - 1 : bin[HEADER_SIZE + i] = Json(i)

Ref(e) == [offset |-> e.off, nbytes |-> e.n, itemsize |-> 1, items |-> e.n,
           negativeDim |-> FALSE]

\* _restore_tree raises FormatError for the entry.
RestoreRaises(e) == e.key = "bin" /\ ~RefAccepted(Ref(e), head, size)

\* What it returns for an array's entry otherwise.
Restored(e) ==
    IF e.key = "blob" THEN store[e.off]
    ELSE [i \in 0 .. e.n - 1 |-> bin[head.dataStart + e.off + i]]

\* No array the call copies lies in front of the place it is copied to.  A
\* model made of views into its own output buffer is encoded correctly under
\* this condition; without it the copy loop may overwrite a later source.
SourcesAhead ==
    call.out = "usable" =>
        \A a \in {arrays[i] : i \in DOMAIN arrays} :
            LET at == model.leaves[a.leaf].at
            IN  at # Fresh => at >= dataStart + a.off
-----------------------------------------------------------------------------
\* Type invariant: the output buffer is size bytes long, the walk and the
\* copy loop stay inside the model and the array list.
TypeOK ==
    /\ pc \in {"idle", "walk", "prepare", "pack", "meta", "copy", "done",
               "sized", "failed"}
    /\ calls \in 0 .. MaxCalls
    /\ k \in Nat /\ cursor \in Nat /\ prevEnd \in Nat /\ j \in 0 .. Len(arrays)
    /\ arrays \in Seq([off : Nat, n : Nat, leaf : Nat])
    /\ head \in Header
    /\ size \in Nat /\ size >= HEADER_SIZE
    /\ DOMAIN bin = Buffer(size)
    /\ pc # "idle" => k <= Len(model.leaves)

\* A finished container decodes to the values the leaves had when encode was
\* called, wherever they live: inline, in the store, or in the reused buffer
\* itself (as long as the sources lie ahead of their places).  What becomes of
\* references the application put into the model is in EncodedIsAccepted.
RoundTrip ==
    pc = "done" /\ SourcesAhead
    =>
        /\ HeaderAccepted(head, size)
        /\ head.schema = OurSchema /\ head.version = model.version
        /\ ManifestIntact
        /\ \A l \in DOMAIN model.leaves :
              model.leaves[l].kind = "array" =>
                  /\ ~RestoreRaises(manifest[l])
                  /\ Restored(manifest[l]) =
                        [i \in 0 .. model.leaves[l].n - 1 |-> Value(l, i)]

\* Which bytes of the data section the arrays own.
Owned(p) == \E i \in DOMAIN arrays :
                p \in dataStart + arrays[i].off
                        .. dataStart + arrays[i].off + arrays[i].n - 1

\* A finished container has no byte of what the buffer held before: padding
\* behind the manifest, between the arrays and behind the data is zero (the
\* comments at _codec.py:135, 299 and 307).
NoStaleByte ==
    pc = "done" =>
        /\ \A p \in HEADER_SIZE .. HEADER_SIZE + model.json - 1 :
              bin[p] = Json(p - HEADER_SIZE)
        /\ \A p \in HEADER_SIZE + model.json .. total - 1 :
              ~Owned(p) => bin[p] = Zero

\* The calls that are refused before the buffer is touched: the buffer is not
\* usable or too small, a leaf cannot be encoded, there is no store for the
\* threshold.
Refused ==
    \/ call.out = "unusable" \/ size < total
    \/ \E l \in DOMAIN model.leaves : model.leaves[l].kind \in {"object", "opaque"}
    \/ call.min # NoThreshold /\ ~call.store

\* encode writes nothing behind the container in a larger buffer, and no byte
\* of the buffer of a call it refuses: the caller may keep other data there,
\* an earlier container included (_codec.py:119-133).
SlackUntouched ==
    pc # "idle" /\ call.out # "none" =>
        /\ \A p \in Buffer(size) : p >= total => bin[p] = before.bin[p]
        /\ Refused => head = before.head /\ bin = before.bin

NewHead == [known |-> TRUE, schema |-> OurSchema, version |-> model.version,
            metadata |-> model.json, dataStart |-> dataStart, dataBytes |-> cursor,
            encoded |-> total]

\* A call that raises leaves the buffer as it was, or a header that decode
\* refuses, or the whole header and manifest of the new container: never an
\* old header over new content or a half new one.  The third is what is left
\* when an array cannot be made contiguous (_codec.py:297); its data and that
\* of the arrays behind it are then what the buffer held.
FailureNeverMixes ==
    pc = "failed" =>
        \/ head = before.head /\ bin = before.bin
        \/ ~HeaderAccepted(head, size)
        \/ /\ head = NewHead /\ ManifestIntact
           /\ j < Len(arrays) /\ model.leaves[arrays[j + 1].leaf].at = Fresh

\* While the call writes, no two arrays share a byte of the data section and
\* every array starts aligned and ends inside the declared data bytes.
ArraysDisjoint ==
    \A i \in DOMAIN arrays :
        /\ arrays[i].off % ARRAY_ALIGNMENT = 0
        /\ arrays[i].off + arrays[i].n <= cursor
        /\ \A h \in 1 .. i - 1 : arrays[h].off + arrays[h].n <= arrays[i].off
=============================================================================
