----------------------------- MODULE Container -----------------------------
(***************************************************************************)
(* The physical NPB container (src/src/npb/_format.py): a fixed header,    *)
(* the JSON manifest, zero padding up to a frame boundary, the data        *)
(* section, zero padding up to a frame boundary.  Operators only, for the  *)
(* module Codec and for the facts CodecProofs proves about them.           *)
(***************************************************************************)
EXTENDS Integers

CONSTANTS
    FRAME_SIZE,        \* 64 KiB in the code
    ARRAY_ALIGNMENT,   \* 64 in the code
    HEADER_SIZE        \* 64 in the code

\* 64 divides 64 Ki and the header is shorter than a frame; nothing else
\* about the three numbers is used.
ASSUME ContainerAssumption ==
    /\ FRAME_SIZE \in Nat \ {0}
    /\ ARRAY_ALIGNMENT \in Nat \ {0}
    /\ HEADER_SIZE \in Nat \ {0}
    /\ HEADER_SIZE <= FRAME_SIZE
    /\ FRAME_SIZE % ARRAY_ALIGNMENT = 0

AlignUp(value, alignment) ==
    ((value + alignment - 1) \div alignment) * alignment

\* First byte of the data section behind a manifest of that many JSON bytes.
DataStart(metadata) == AlignUp(HEADER_SIZE + metadata, FRAME_SIZE)

\* Bytes of the whole container.
TotalSize(metadata, dataBytes) ==
    LET used == DataStart(metadata) + dataBytes
    IN  AlignUp(IF used < FRAME_SIZE THEN FRAME_SIZE ELSE used, FRAME_SIZE)

\* The fields of HEADER that parse_header and decode look at.  "known" stands
\* for magic, format version, flags and frame size having the one accepted
\* value each.
Header == [known : BOOLEAN, schema : Nat, version : Nat, metadata : Nat,
           dataStart : Nat, dataBytes : Nat, encoded : Nat]

\* What zeroing the first HEADER_SIZE bytes makes of the fields.
ZeroHeader == [known |-> FALSE, schema |-> 0, version |-> 0, metadata |-> 0,
               dataStart |-> 0, dataBytes |-> 0, encoded |-> 0]

\* The container fits the buffer; the mutant wants it to fill the buffer.
Fills(h, nbytes) == h.encoded = nbytes
Fits(h, nbytes) == h.encoded <= nbytes

\* parse_header returns instead of raising FormatError, for a buffer of
\* nbytes bytes that starts with header h.
HeaderAccepted(h, nbytes) ==
    /\ nbytes >= HEADER_SIZE
    /\ h.known
    /\ h.encoded >= FRAME_SIZE
    /\ Fits(h, nbytes)
    /\ h.encoded % FRAME_SIZE = 0
    /\ HEADER_SIZE + h.metadata <= h.dataStart
    /\ h.dataStart % FRAME_SIZE = 0
    /\ h.dataStart + h.dataBytes <= h.encoded

\* A reference ends inside the data section; the mutant looks at the end of
\* the buffer only.
EndsInBuffer(ref, h, nbytes) == h.dataStart + ref.offset + ref.nbytes <= nbytes
EndsInData(ref, h, nbytes) == ref.offset + ref.nbytes <= h.dataBytes

\* _restore_tree turns the $bin reference ref into a view instead of raising.
\* ref.items is the product of the dimensions of its shape, and
\* ref.negativeDim says that one of them is below zero.
RefAccepted(ref, h, nbytes) ==
    /\ ref.offset >= 0
    /\ ref.nbytes >= 0
    /\ ~ref.negativeDim
    /\ ref.itemsize > 0
    /\ ref.nbytes % ref.itemsize = 0
    /\ ref.items * ref.itemsize = ref.nbytes
    /\ EndsInData(ref, h, nbytes)
    /\ EndsInBuffer(ref, h, nbytes)

\* BlobRef.from_manifest accepts the fields of a $blob reference.  ref.usable
\* says that they are there, have their types, the names are not empty and the
\* dtype is a plain one.
BlobAccepted(ref) ==
    /\ ref.usable
    /\ ref.offset >= 0 /\ ref.nbytes >= 0
    /\ ~ref.negativeDim
    /\ ref.itemsize * ref.items = ref.nbytes
=============================================================================
