------------------------------ MODULE MCCodec ------------------------------
\* Instances of Codec and Decoder for TLC: frames of 4 bytes, arrays aligned to 2, a
\* header of 2.  JSON lengths 1 and 3 put the data section at byte 4 and 8.
EXTENDS EncodeDecode

A(n, at) == [kind |-> "array", n |-> n, at |-> at]
Other(kind) == [kind |-> kind, n |-> 0, at |-> Fresh]

SeqsUpTo(S, n) == UNION {[1 .. i -> S] : i \in 0 .. n}
ModelsOf(leaves, n, jsons, versions) ==
    [leaves : SeqsUpTo(leaves, n), json : jsons, version : versions]

\* Models of up to two leaves, views into the output buffer included.
TwoLeaves ==
    ModelsOf({A(0, Fresh), A(1, Fresh), A(3, Fresh), A(3, 5)}, 2, {1, 3}, {0})

\* Arrays in both orders of their sources, leaves that are refused or enter
\* the manifest as they are, and a version and a length "I" does not take.
OtherModels ==
    {[leaves |-> l, json |-> n, version |-> v] :
        l \in {<<A(1, Fresh), A(2, Fresh), A(1, 4)>>,
               <<A(3, Fresh), A(0, Fresh), A(3, Fresh)>>,
               <<A(3, 4), A(1, 10)>>, <<A(1, Fresh), Other("object")>>,
               <<A(3, 8), Other("opaque")>>, <<Other("ref"), A(2, Fresh)>>,
               <<Other("reserved"), A(1, Fresh)>>, <<Other("reserved"), Other("ref")>>},
        n \in {1, 5}, v \in {0, 5}}

CodecModels == TwoLeaves \cup OtherModels
CodecThresholds == {NoThreshold, 0, 2}

\* Containers from elsewhere: every combination of header fields around the
\* limits with one view, then every manifest of two leaves in two containers.
HeaderOf(schema, version, metadata, start, bytes, encoded) ==
    [known |-> TRUE, schema |-> schema, version |-> version, metadata |-> metadata,
     dataStart |-> start, dataBytes |-> bytes, encoded |-> encoded]

Heads ==
    {HeaderOf(s, 0, m, d, n, e) : s \in {OurSchema, 2}, m \in {1, 3},
        d \in {0, 4, 6, 8}, n \in {0, 3, 4, 5}, e \in {0, 4, 6, 8, 12}}
    \cup {HeaderOf(OurSchema, 1, 1, 4, 4, 8), [HeaderOf(OurSchema, 0, 1, 4, 4, 8) EXCEPT !.known = FALSE]}

View(off, n, item, items, negative) ==
    [key |-> "bin",
     ref |-> [usable |-> TRUE, offset |-> off, nbytes |-> n, itemsize |-> item,
              items |-> items, negativeDim |-> negative]]
Blob(st, off, n, items, negative) ==
    [key |-> "blob", ref |-> View(off, n, 1, items, negative).ref, store |-> st]

Entries ==
    {View(0, 4, 2, 2, FALSE), View(4, 0, 1, 0, FALSE), View(1, 4, 4, 1, FALSE),
     View(-1, 2, 1, 2, FALSE), View(0, 4, 3, 1, FALSE), View(0, 4, 1, 4, TRUE),
     View(0, 2, 1, 4, FALSE), [View(0, 1, 1, 1, FALSE) EXCEPT !.ref.usable = FALSE],
     Blob("ours", 0, 2, 2, FALSE), Blob("other", 0, 2, 2, FALSE),
     Blob("ours", -1, 2, 2, FALSE), Blob("ours", 0, 2, 3, FALSE),
     Blob("ours", 0, 4, 4, TRUE), [key |-> "plain"]}

File(h, n, top, entries) == [head |-> h, nbytes |-> n, top |-> top, entries |-> entries]

MCContainers ==
    {File(h, n, "object", <<View(0, 4, 2, 2, FALSE)>>) : h \in Heads, n \in {1, 8, 12}}
    \cup {File(HeaderOf(s, 0, 1, 4, 4, 8), 8, top, es) :
             s \in {OurSchema, 2}, top \in {"list", "object"}, es \in SeqsUpTo(Entries, 2)}
    \cup {File(HeaderOf(OurSchema, 0, 1, 4, 4, 8), 8, "invalid", << >>)}
=============================================================================
