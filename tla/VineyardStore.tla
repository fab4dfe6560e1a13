---------------------------- MODULE VineyardStore ----------------------------
(***************************************************************************)
(* Pipeline stages that pass NPB messages with references to arrays in one *)
(* Vineyard daemon (src/npb/_vineyard.py).  A stage decodes a message into *)
(* views of the daemon's memory and may encode them again; its store looks *)
(* an array up by address, size, dtype and shape to send the object id it  *)
(* came from instead of a copy.  The daemon may give the memory of a       *)
(* deleted object to the next one.  dtype and size are the same throughout.*)
(***************************************************************************)
EXTENDS FiniteSets, Functions

CONSTANTS
    Stages,        \* processes, each with a VineyardStore
    Ids,           \* object ids the daemon may hand out
    Addrs,         \* places in its shared memory
    Data,          \* array contents
    Shapes         \* subset of {"scalar", "one", "square"}

ASSUME VineyardAssumption ==
    /\ Shapes \subseteq {"scalar", "one", "square"}
    /\ Addrs \cap {"unused", "deleted"} = {}
    /\ Ids # {}

\* A logical array is a content read plainly or transposed, or its first
\* element.
Values == Data \X {"plain", "transposed", "first"}
Flip(v) == <<v[1], IF v[2] = "plain" THEN "transposed" ELSE "plain">>
First(v) == <<v[1], "first">>

StoredShapes == {"one", "square"}
Refs == [id : Ids, shape : StoredShapes]
\* "from" is the object a view was decoded from (history).
Views == [addr : Addrs, shape : StoredShapes, of : {"whole", "transposed", "slice"},
          from : Ids]

VARIABLES
    place,       \* per object id: its address, unused, or deleted
    memory,      \* what is stored at each address
    views,       \* per stage: the arrays its decoded messages gave it
    resolved,    \* per stage: _resolved_refs
    messages     \* references sent, with what the sender encoded (history)

vars == <<place, memory, views, resolved, messages>>

Init ==
    /\ place = [i \in Ids |-> "unused"]
    /\ memory \in [Addrs -> Values]
    /\ views = [p \in Stages |-> {}]
    /\ resolved = [p \in Stages |-> << >>]
    /\ messages = {}

\* _key; its mutant leaves the shape out.
KeyWithoutShape(view) == <<view.addr>>
Key(view) == <<view.addr, view.shape>>

\* What the application reads through a view.
ValueOf(view) ==
    CASE view.of = "whole" -> memory[view.addr]
      [] view.of = "transposed" -> Flip(memory[view.addr])
      [] view.of = "slice" -> First(memory[view.addr])

\* Stages use a view while its object exists; after a delete, by any stage,
\* its memory may hold anything.
Exists(view) == place[view.from] = view.addr

\* ascontiguousarray turns a 0-d array into one of shape (1,).
StoredShape(shape) == IF shape = "scalar" THEN "one" ELSE shape

\* "of" is what of a decoded array was encoded, "own" for the stage's own.
Message(ref, shape, of, value) ==
    [ref |-> ref, shape |-> shape, of |-> of, value |-> value]

Used == {place[i] : i \in Ids}
FreshId == CHOOSE i \in Ids : place[i] = "unused"

\* client.put of the contiguous copy, and the message that names it.
Store(shape, of, value) ==
    /\ \E i \in Ids : place[i] = "unused"
    /\ \E a \in Addrs \ Used :
          /\ place' = [place EXCEPT ![FreshId] = a]
          /\ memory' = [memory EXCEPT ![a] = value]
    /\ messages' = messages \cup
          {Message([id |-> FreshId, shape |-> StoredShape(shape)], shape, of, value)}

\* put_array of an array the application made.
EncodeOwn(p, shape, value) ==
    /\ Store(shape, "own", value)
    /\ UNCHANGED <<views, resolved>>

\* put_array of a decoded array: its key is in _resolved_refs, or it is not.
EncodeReused(p, view) ==
    /\ view \in views[p] /\ Exists(view)
    /\ Key(view) \in DOMAIN resolved[p]
    /\ messages' = messages \cup
          {Message(resolved[p][Key(view)], view.shape, view.of, ValueOf(view))}
    /\ UNCHANGED <<place, memory, views, resolved>>

EncodeCopied(p, view) ==
    /\ view \in views[p] /\ Exists(view)
    /\ Key(view) \notin DOMAIN resolved[p]
    /\ Store(view.shape, view.of, ValueOf(view))
    /\ UNCHANGED <<views, resolved>>

\* _register_resolved; the mutant keeps an old reference.
KeepOld(table, view, ref) ==
    IF Key(view) \in DOMAIN table THEN table
    ELSE [k \in DOMAIN table \cup {Key(view)} |-> IF k = Key(view) THEN ref ELSE table[k]]
Registered(table, view, ref) ==
    [k \in DOMAIN table \cup {Key(view)} |-> IF k = Key(view) THEN ref ELSE table[k]]

\* get_array of a message's reference; it raises when the object is gone.
Decode(p, m) ==
    /\ place[m.ref.id] \in Addrs
    /\ LET view == [addr |-> place[m.ref.id], shape |-> m.ref.shape, of |-> "whole",
                    from |-> m.ref.id]
       IN  /\ views' = [views EXCEPT ![p] = @ \cup {view}]
           /\ resolved' = [resolved EXCEPT ![p] = Registered(@, view, m.ref)]
    /\ UNCHANGED <<place, memory, messages>>

\* The application takes array.T or array[:1, 0], views of the same memory.
Transpose(p, view) ==
    /\ view \in views[p] /\ Exists(view)
    /\ view.shape = "square" /\ view.of = "whole"
    /\ views' = [views EXCEPT ![p] = @ \cup {[view EXCEPT !.of = "transposed"]}]
    /\ UNCHANGED <<place, memory, resolved, messages>>

Slice(p, view) ==
    /\ view \in views[p] /\ Exists(view) /\ view.shape = "square"
    /\ views' = [views EXCEPT ![p] =
                    @ \cup {[view EXCEPT !.of = "slice", !.shape = "one"]}]
    /\ UNCHANGED <<place, memory, resolved, messages>>

\* store.delete: the object is gone for everybody.
Delete(m) ==
    /\ place[m.ref.id] \in Addrs
    /\ place' = [place EXCEPT ![m.ref.id] = "deleted"]
    /\ UNCHANGED <<memory, views, resolved, messages>>

\* A stage crashes and starts again: _resolved_refs is process-local.
Restart(p) ==
    /\ views' = [views EXCEPT ![p] = {}]
    /\ resolved' = [resolved EXCEPT ![p] = << >>]
    /\ UNCHANGED <<place, memory, messages>>

Stage(p) ==
    \/ \E s \in Shapes, d \in Data : EncodeOwn(p, s, <<d, "plain">>)
    \/ \E v \in views[p] : EncodeReused(p, v) \/ EncodeCopied(p, v)
                        \/ Transpose(p, v) \/ Slice(p, v)
    \/ \E m \in messages : Decode(p, m) \/ Delete(m)
    \/ Restart(p)

Next == \E p \in Stages : Stage(p)

Spec == Init /\ [][Next]_vars
-----------------------------------------------------------------------------
\* Type invariant; memory is given to one object at a time.
TypeOK ==
    /\ place \in [Ids -> Addrs \cup {"unused", "deleted"}]
    /\ \A i, j \in Ids : place[i] = place[j] /\ place[i] \in Addrs => i = j
    /\ memory \in [Addrs -> Values]
    /\ views \in [Stages -> SUBSET Views]
    /\ \A p \in Stages : Range(resolved[p]) \subseteq Refs
    /\ messages \subseteq [ref : Refs, shape : StoredShapes \cup Shapes,
                       of : {"own", "whole", "transposed", "slice"}, value : Values]

\* A reference names, as long as its object exists, the array that was
\* encoded: its shape and its contents, through any number of stages,
\* deletions and reused memory.  Excepted are a transposed square array, whose
\* contents the cache takes for the untransposed ones, and a 0-d array, which
\* is stored with shape (1,).
SameArray ==
    /\ TypeOK
    /\ \A m \in messages :
          /\ m.shape # "scalar" => m.ref.shape = m.shape
          /\ m.of # "transposed" /\ place[m.ref.id] \in Addrs =>
                memory[place[m.ref.id]] = m.value

\* The cache of "Exact ndarray views resolved by this client"
\* (_vineyard.py:62) answers no other view: a reference names the array that
\* was encoded, a transposed one included.
ExactViews ==
    \A m \in messages :
        place[m.ref.id] \in Addrs => memory[place[m.ref.id]] = m.value

\* A decoded array that still exists is sent as the object it came from, not
\* as a copy, an older object or another one, also when a stage has decoded
\* several, some deleted and their memory reused (README.md:289-292,
\* _vineyard.py:62-65).
SentAsItself ==
    \A p \in Stages : \A v \in views[p] :
        v.of = "whole" /\ Exists(v) =>
            /\ Key(v) \in DOMAIN resolved[p]
            /\ resolved[p][Key(v)].id = v.from
=============================================================================
