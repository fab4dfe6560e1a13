------------------------ MODULE VineyardStoreProofs ------------------------
(***************************************************************************)
(* SameArray and SentAsItself for any number of stages, objects, places    *)
(* and contents.                                                           *)
(***************************************************************************)
EXTENDS VineyardStore, TLAPS

\* The references in circulation: each object was stored with one shape, and
\* an object one of them names was stored.
Sent == {m.ref : m \in messages}

Named ==
    /\ \A r \in Sent : place[r.id] # "unused"
    /\ \A r, s \in Sent : r.id = s.id => r.shape = s.shape

\* What a message says of the array it names.
Faithful ==
    \A m \in messages :
        /\ m.shape # "scalar" => m.ref.shape = m.shape
        /\ m.of # "transposed" /\ place[m.ref.id] \in Addrs =>
              memory[place[m.ref.id]] = m.value

\* A view comes from a decoded reference; a slice is one of a square array.
Decoded ==
    \A p \in Stages : \A v \in views[p] :
        /\ [id |-> v.from, shape |-> IF v.of = "whole" THEN v.shape ELSE "square"] \in Sent
        /\ v.of = "slice" => v.shape = "one"
        /\ v.of = "transposed" => v.shape = "square"

\* A key leads to a reference in circulation that has its shape and, as long
\* as the object exists, its place.
Keyed ==
    /\ resolved = [p \in Stages |-> resolved[p]]
    /\ \A p \in Stages : \A k \in DOMAIN resolved[p] :
          /\ resolved[p][k] \in Sent
          /\ resolved[p][k].shape = k[2]
          /\ place[resolved[p][k].id] \in Addrs => place[resolved[p][k].id] = k[1]

Inv == TypeOK /\ Named /\ Faithful /\ Decoded /\ Keyed /\ SentAsItself

LEMMA Initial == Init => Inv
  <1> SUFFICES ASSUME Init PROVE Inv  OBVIOUS
  <1> USE DEF Init
  <1>1. TypeOK  BY VineyardAssumption DEF TypeOK, Range
  <1>2. Sent = {}  BY DEF Sent
  <1> QED
    BY <1>1, <1>2 DEF Inv, Named, Faithful, Decoded, Keyed, SentAsItself

\* client.put: the object is new, and so is its place.
LEMMA Fresh ==
    ASSUME \E i \in Ids : place[i] = "unused"
    PROVE  FreshId \in Ids /\ place[FreshId] = "unused"
  BY DEF FreshId

\* The part of the invariant that a new object leaves as it was.
LEMMA StoreKeeps ==
    ASSUME Inv, NEW shape \in StoredShapes \cup Shapes,
           NEW of \in {"own", "whole", "transposed", "slice"},
           NEW value \in Values,
           Store(shape, of, value), UNCHANGED <<views, resolved>>
    PROVE  Inv'
  <1> DEFINE f == FreshId
             ref == [id |-> f, shape |-> StoredShape(shape)]
             new == Message(ref, shape, of, value)
  <1>1. f \in Ids /\ place[f] = "unused"
    BY Fresh DEF Store
  <1>2. PICK a \in Addrs \ Used :
           /\ place' = [place EXCEPT ![f] = a]
           /\ memory' = [memory EXCEPT ![a] = value]
    BY DEF Store
  <1>3. messages' = messages \cup {new}
    BY DEF Store
  <1> HIDE DEF f
  <1>4. ref \in Refs /\ (shape # "scalar" => ref.shape = shape)
    BY <1>1, VineyardAssumption DEF StoredShape, Refs, StoredShapes
  <1>5. new \in [ref : Refs, shape : StoredShapes \cup Shapes,
                 of : {"own", "whole", "transposed", "slice"}, value : Values]
    BY <1>4 DEF Message
  <1>5a. new.ref = ref /\ new.shape = shape /\ new.of = of /\ new.value = value
    BY DEF Message
  <1> HIDE DEF ref, new
  <1>5b. ref.id = f  BY DEF ref
  <1>6. /\ TypeOK /\ Named /\ Faithful /\ Decoded /\ Keyed /\ SentAsItself
    BY DEF Inv
  <1>7. /\ \A i \in Ids : place[i] # "unused" => place'[i] = place[i]
        /\ place'[f] = a
        /\ place' \in [Ids -> Addrs \cup {"unused", "deleted"}]
        /\ memory'[a] = value
        /\ \A b \in Addrs : b # a => memory'[b] = memory[b]
        /\ \A i \in Ids : place[i] # a
    BY <1>1, <1>2, <1>6 DEF TypeOK, Used
  <1>8. Sent' = Sent \cup {ref}
    BY <1>3, <1>5a DEF Sent
  <1>9. \A r \in Sent : r \in Refs /\ r.id \in Ids /\ r.id # f /\ place'[r.id] = place[r.id]
                        /\ place[r.id] # "unused"
    BY <1>1, <1>6, <1>7 DEF Named, Sent, TypeOK, Refs
  <1>10. TypeOK'
    <2>1. \A i, h \in Ids : place'[i] = place'[h] /\ place'[i] \in Addrs => i = h
      BY <1>1, <1>2, <1>6, <1>7 DEF TypeOK, Used
    <2>2. memory' \in [Addrs -> Values]
      BY <1>2, <1>6 DEF TypeOK
    <2>3. views' \in [Stages -> SUBSET Views]
          /\ \A p \in Stages : Range(resolved'[p]) \subseteq Refs
      BY <1>6 DEF TypeOK
    <2> QED  BY <1>3, <1>5, <1>6, <1>7, <2>1, <2>2, <2>3 DEF TypeOK
  <1>11. Named'
    BY <1>2, <1>5b, <1>6, <1>7, <1>8, <1>9, VineyardAssumption DEF Named
  <1>12. Faithful'
    <2>1. ASSUME NEW m \in messages
          PROVE  /\ m.shape # "scalar" => m.ref.shape = m.shape
                 /\ m.of # "transposed" /\ place'[m.ref.id] \in Addrs =>
                       memory'[place'[m.ref.id]] = m.value
      BY <1>6, <1>7, <1>9 DEF Faithful, Sent
    <2>2. /\ new.shape # "scalar" => new.ref.shape = new.shape
          /\ memory'[place'[new.ref.id]] = new.value
      BY <1>4, <1>5a, <1>5b, <1>7
    <2> QED  BY <1>3, <2>1, <2>2 DEF Faithful
  <1>13. Decoded'
    BY <1>6, <1>8 DEF Decoded
  <1>14. Keyed'
    BY <1>6, <1>8, <1>9 DEF Keyed
  <1>15. SentAsItself'
    <2>1. ASSUME NEW p \in Stages, NEW v \in views[p], v.of = "whole"
          PROVE  Exists(v)' => Exists(v)
      BY <1>6, <1>9, <2>1 DEF Decoded, Exists
    <2> QED  BY <1>6, <2>1 DEF SentAsItself, Key
  <1> QED
    BY <1>10, <1>11, <1>12, <1>13, <1>14, <1>15 DEF Inv

\* A stage encodes what it decoded: as the object it came from, or as a copy.
LEMMA EncodeKeeps ==
    ASSUME Inv, NEW p \in Stages, NEW v \in views[p],
           EncodeReused(p, v) \/ EncodeCopied(p, v)
    PROVE  Inv'
  <1>1. /\ TypeOK /\ Named /\ Faithful /\ Decoded /\ Keyed /\ SentAsItself
    BY DEF Inv
  <1>2. /\ v \in Views /\ v.addr \in Addrs /\ v.shape \in StoredShapes
        /\ v.of \in {"whole", "transposed", "slice"} /\ v.from \in Ids
    BY <1>1 DEF TypeOK, Views
  <1>3. place[v.from] = v.addr
    BY DEF EncodeReused, EncodeCopied, Exists
  <1>4. ValueOf(v) \in Values
    <2>1. memory[v.addr] \in Values
      BY <1>1, <1>2 DEF TypeOK
    <2> QED  BY <1>2, <2>1 DEF ValueOf, Values, Flip, First
  <1>5. CASE EncodeCopied(p, v)
    BY <1>2, <1>4, <1>5, StoreKeeps DEF EncodeCopied
  <1>6. CASE EncodeReused(p, v)
    <2> DEFINE r == resolved[p][Key(v)]
               new == Message(r, v.shape, v.of, ValueOf(v))
    <2>1. /\ Key(v) \in DOMAIN resolved[p]
          /\ messages' = messages \cup {new}
          /\ UNCHANGED <<place, memory, views, resolved>>
      BY <1>6 DEF EncodeReused
    <2>2. new.ref = r /\ new.shape = v.shape /\ new.of = v.of /\ new.value = ValueOf(v)
      BY DEF Message
    <2>3. /\ r \in Sent /\ r \in Refs /\ r.id \in Ids /\ r.shape = v.shape
          /\ place[r.id] \in Addrs => place[r.id] = v.addr
      <3>1. r \in Sent /\ r.shape = Key(v)[2]
            /\ (place[r.id] \in Addrs => place[r.id] = Key(v)[1])
        BY <1>1, <2>1 DEF Keyed
      <3>2. r \in Refs  BY <1>1, <3>1 DEF Sent, TypeOK
      <3> QED  BY <3>1, <3>2 DEF Key, Refs
    <2>4. new \in [ref : Refs, shape : StoredShapes \cup Shapes,
                   of : {"own", "whole", "transposed", "slice"}, value : Values]
      BY <1>2, <1>4, <2>3 DEF Message
    <2> HIDE DEF r, new
    <2>5. Sent' = Sent  BY <2>1, <2>2, <2>3 DEF Sent
    \* A key with the place and the shape of a slice is never that of the
    \* object the slice is of: this one is square.
    <2>6. new.of # "transposed" /\ place[new.ref.id] \in Addrs =>
             memory[place[new.ref.id]] = new.value
      <3> SUFFICES ASSUME v.of # "transposed", place[r.id] \in Addrs
                   PROVE  memory[v.addr] = ValueOf(v)
        BY <2>2, <2>3
      <3>1. r.id = v.from
        BY <1>1, <1>2, <1>3, <2>3 DEF TypeOK
      <3>2. v.of # "slice"
        <4> SUFFICES ASSUME v.of = "slice" PROVE FALSE  OBVIOUS
        <4>1. [id |-> v.from, shape |-> "square"] \in Sent /\ v.shape = "one"
          BY <1>1 DEF Decoded
        <4>2. r.shape = "square"
          BY <1>1, <2>3, <3>1, <4>1 DEF Named
        <4> QED  BY <2>3, <4>1, <4>2
      <3> QED  BY <1>2, <3>2 DEF ValueOf
    <2>7. Faithful'
      BY <1>1, <2>1, <2>2, <2>3, <2>6 DEF Faithful
    <2>8. TypeOK'
      BY <1>1, <2>1, <2>4 DEF TypeOK
    <2>9. Named' /\ Decoded' /\ Keyed' /\ SentAsItself'
      BY <1>1, <2>1, <2>5 DEF Named, Decoded, Keyed, SentAsItself, Exists, Key
    <2> QED  BY <2>7, <2>8, <2>9 DEF Inv
  <1> QED  BY <1>5, <1>6

\* get_array: the newest reference of a key replaces an older one.
LEMMA DecodeKeeps ==
    ASSUME Inv, NEW p \in Stages, NEW m \in messages, Decode(p, m)
    PROVE  Inv'
  <1> DEFINE v == [addr |-> place[m.ref.id], shape |-> m.ref.shape, of |-> "whole",
                   from |-> m.ref.id]
             table == resolved[p]
  <1>1. /\ TypeOK /\ Named /\ Faithful /\ Decoded /\ Keyed /\ SentAsItself
    BY DEF Inv
  <1>2. /\ place[m.ref.id] \in Addrs
        /\ views' = [views EXCEPT ![p] = @ \cup {v}]
        /\ resolved' = [resolved EXCEPT ![p] = Registered(table, v, m.ref)]
        /\ UNCHANGED <<place, memory, messages>>
    BY DEF Decode
  <1>3. m.ref \in Refs /\ m.ref \in Sent /\ m.ref.id \in Ids /\ m.ref.shape \in StoredShapes
    BY <1>1 DEF TypeOK, Sent, Refs
  <1>4. m.ref = [id |-> m.ref.id, shape |-> m.ref.shape]
    BY <1>3 DEF Refs
  <1>5. /\ v.addr = place[m.ref.id] /\ v.shape = m.ref.shape /\ v.of = "whole"
        /\ v.from = m.ref.id /\ v \in Views
    BY <1>2, <1>3 DEF Views
  <1> HIDE DEF v
  <1>6. Sent' = Sent  BY <1>2 DEF Sent
  <1>7. /\ \A q \in Stages : q # p => resolved'[q] = resolved[q] /\ views'[q] = views[q]
        /\ views'[p] = views[p] \cup {v}
        /\ resolved'[p] = Registered(table, v, m.ref)
        /\ resolved' = [q \in Stages |-> resolved'[q]]
    BY <1>1, <1>2 DEF TypeOK, Keyed
  <1>8. /\ DOMAIN resolved'[p] = DOMAIN table \cup {Key(v)}
        /\ resolved'[p][Key(v)] = m.ref
        /\ \A k \in DOMAIN table : k # Key(v) => resolved'[p][k] = table[k]
    BY <1>7 DEF Registered
  <1>9. TypeOK'
    <2>1. \A q \in Stages : Range(resolved'[q]) \subseteq Refs
      BY <1>1, <1>3, <1>7, <1>8 DEF TypeOK, Range
    <2>2. views' \in [Stages -> SUBSET Views]
      BY <1>1, <1>2, <1>5 DEF TypeOK
    <2> QED  BY <1>1, <1>2, <2>1, <2>2 DEF TypeOK
  <1>10. Named' /\ Faithful'
    BY <1>1, <1>2, <1>6 DEF Named, Faithful
  <1>11. Decoded'
    <2>1. [id |-> v.from, shape |-> v.shape] \in Sent
      BY <1>3, <1>4, <1>5
    <2> QED  BY <1>1, <1>5, <1>6, <1>7, <2>1 DEF Decoded
  <1>12. Keyed'
    <2>1. ASSUME NEW q \in Stages, NEW k \in DOMAIN resolved'[q]
          PROVE  /\ resolved'[q][k] \in Sent
                 /\ resolved'[q][k].shape = k[2]
                 /\ place[resolved'[q][k].id] \in Addrs => place[resolved'[q][k].id] = k[1]
      <3>1. CASE q = p /\ k = Key(v)
        BY <1>3, <1>5, <1>8, <3>1 DEF Key
      <3>2. CASE ~(q = p /\ k = Key(v))
        BY <1>1, <1>7, <1>8, <3>2 DEF Keyed
      <3> QED  BY <3>1, <3>2
    <2> QED  BY <1>2, <1>6, <1>7, <2>1 DEF Keyed
  <1>13. SentAsItself'
    <2>1. ASSUME NEW q \in Stages, NEW w \in views'[q], w.of = "whole", Exists(w)
          PROVE  Key(w) \in DOMAIN resolved'[q] /\ resolved'[q][Key(w)].id = w.from
      <3>1. CASE w = v /\ q = p
        BY <1>5, <1>8, <3>1
      \* Another view of this key and of an existing object is of the same one.
      <3>2. CASE w # v /\ q = p /\ Key(w) = Key(v)
        <4>1. w.addr = v.addr /\ w \in views[q]
          BY <1>7, <3>2 DEF Key
        <4>2. w.from \in Ids /\ place[w.from] = place[m.ref.id]
          BY <1>1, <1>5, <2>1, <4>1 DEF TypeOK, Views, Exists
        <4>3. w.from = m.ref.id
          BY <1>1, <1>2, <1>3, <4>2 DEF TypeOK
        <4> QED  BY <1>8, <3>2, <4>3
      <3>3. CASE ~(q = p /\ Key(w) = Key(v))
        BY <1>1, <1>7, <1>8, <2>1, <3>3 DEF SentAsItself
      <3> QED  BY <3>1, <3>2, <3>3
    <2>2. \A w : Exists(w)' <=> Exists(w)
      BY <1>2 DEF Exists
    <2> QED  BY <2>1, <2>2 DEF SentAsItself, Key
  <1> QED  BY <1>9, <1>10, <1>11, <1>12, <1>13 DEF Inv

\* The application makes a view of a view.
LEMMA ViewKeeps ==
    ASSUME Inv, NEW p \in Stages, NEW v \in views[p], Transpose(p, v) \/ Slice(p, v)
    PROVE  Inv'
  <1>1. /\ TypeOK /\ Named /\ Faithful /\ Decoded /\ Keyed /\ SentAsItself
    BY DEF Inv
  <1>2. v \in Views  BY <1>1 DEF TypeOK
  <1>3. PICK w \in Views :
           /\ w.from = v.from
           /\ \/ w.of = "transposed" /\ w.shape = "square"
              \/ w.of = "slice" /\ w.shape = "one"
           /\ views' = [views EXCEPT ![p] = @ \cup {w}]
    <2>1. CASE Transpose(p, v)
      <3>1. [v EXCEPT !.of = "transposed"] \in Views  BY <1>2 DEF Views
      <3> QED  BY <1>2, <2>1, <3>1 DEF Transpose, Views
    <2>2. CASE Slice(p, v)
      <3>1. [v EXCEPT !.of = "slice", !.shape = "one"] \in Views
        BY <1>2 DEF Views, StoredShapes
      <3> QED  BY <1>2, <2>2, <3>1 DEF Slice, Views
    <2> QED  BY <2>1, <2>2
  <1>4. v.shape = "square" /\ UNCHANGED <<place, memory, resolved, messages>>
    BY DEF Transpose, Slice
  <1>5. [id |-> v.from, shape |-> "square"] \in Sent
    BY <1>1, <1>4 DEF Decoded
  <1>6. Sent' = Sent  BY <1>4 DEF Sent
  <1>7. /\ views'[p] = views[p] \cup {w}
        /\ \A q \in Stages : q # p => views'[q] = views[q]
        /\ views' \in [Stages -> SUBSET Views]
    BY <1>1, <1>3 DEF TypeOK
  <1>8. TypeOK'
    BY <1>1, <1>4, <1>7 DEF TypeOK
  <1>9. Decoded'
    BY <1>1, <1>3, <1>5, <1>6, <1>7 DEF Decoded
  <1>10. SentAsItself'
    BY <1>1, <1>3, <1>4, <1>7 DEF SentAsItself, Exists, Key
  <1> QED
    BY <1>1, <1>4, <1>6, <1>8, <1>9, <1>10 DEF Inv, Named, Faithful, Keyed

LEMMA DeleteKeeps ==
    ASSUME Inv, NEW m \in messages, Delete(m)
    PROVE  Inv'
  <1>1. /\ TypeOK /\ Named /\ Faithful /\ Decoded /\ Keyed /\ SentAsItself
    BY DEF Inv
  <1>2. /\ place' = [place EXCEPT ![m.ref.id] = "deleted"]
        /\ UNCHANGED <<memory, views, resolved, messages>>
    BY DEF Delete
  <1>3. /\ place' \in [Ids -> Addrs \cup {"unused", "deleted"}]
        /\ \A i \in Ids : place'[i] \in Addrs => place'[i] = place[i]
        /\ \A i \in Ids : place'[i] = "unused" => place[i] = "unused"
    BY <1>1, <1>2, VineyardAssumption DEF TypeOK
  <1>4. Sent' = Sent  BY <1>2 DEF Sent
  <1>5. /\ \A n \in messages : n.ref.id \in Ids
        /\ \A p \in Stages : \A k \in DOMAIN resolved[p] : resolved[p][k].id \in Ids
        /\ \A p \in Stages : \A v \in views[p] : v.from \in Ids /\ v.addr \in Addrs
    BY <1>1 DEF TypeOK, Refs, Range, Views
  <1>6. TypeOK'
    BY <1>1, <1>2, <1>3 DEF TypeOK
  <1>7. Named' /\ Faithful'
    BY <1>1, <1>2, <1>3, <1>4, <1>5 DEF Named, Faithful, Sent
  <1>8. Decoded' /\ Keyed'
    BY <1>1, <1>2, <1>3, <1>4, <1>5 DEF Decoded, Keyed
  <1>9. SentAsItself'
    BY <1>1, <1>2, <1>3, <1>5 DEF SentAsItself, Exists, Key
  <1> QED  BY <1>6, <1>7, <1>8, <1>9 DEF Inv

LEMMA RestartKeeps ==
    ASSUME Inv, NEW p \in Stages, Restart(p)
    PROVE  Inv'
  <1>1. /\ TypeOK /\ Named /\ Faithful /\ Decoded /\ Keyed /\ SentAsItself
    BY DEF Inv
  <1>2. /\ views'[p] = {} /\ resolved'[p] = << >>
        /\ \A q \in Stages : q # p => views'[q] = views[q] /\ resolved'[q] = resolved[q]
        /\ views' \in [Stages -> SUBSET Views]
        /\ resolved' = [q \in Stages |-> resolved'[q]]
        /\ UNCHANGED <<place, memory, messages>>
    BY <1>1 DEF Restart, TypeOK, Keyed
  <1>3. Sent' = Sent  BY <1>2 DEF Sent
  <1>4. DOMAIN resolved'[p] = {}  BY <1>2
  <1>5. TypeOK'
    BY <1>1, <1>2, <1>4 DEF TypeOK, Range
  <1>6. Named' /\ Faithful' /\ Decoded'
    BY <1>1, <1>2, <1>3 DEF Named, Faithful, Decoded
  <1>7. Keyed' /\ SentAsItself'
    BY <1>1, <1>2, <1>3, <1>4 DEF Keyed, SentAsItself, Exists, Key
  <1> QED  BY <1>5, <1>6, <1>7 DEF Inv

LEMMA Inductive == Inv /\ [Next]_vars => Inv'
  <1> SUFFICES ASSUME Inv, [Next]_vars PROVE Inv'  OBVIOUS
  <1>1. CASE Next
    <2>1. PICK p \in Stages : Stage(p)  BY <1>1 DEF Next
    <2>2. ASSUME NEW s \in Shapes, NEW d \in Data, EncodeOwn(p, s, <<d, "plain">>)
          PROVE  Inv'
      BY <2>2, StoreKeeps DEF EncodeOwn, Values
    <2> QED
      BY <2>1, <2>2, EncodeKeeps, DecodeKeeps, ViewKeeps, DeleteKeeps, RestartKeeps
      DEF Stage
  <1>2. CASE UNCHANGED vars
    BY <1>2 DEF vars, Inv, TypeOK, Named, Faithful, Decoded, Keyed, SentAsItself,
                Sent, Exists, Key
  <1> QED  BY <1>1, <1>2

LEMMA Invariance == Spec => []Inv
  BY Initial, Inductive, PTL DEF Spec

\* A reference names the array that was encoded, its shape and its contents,
\* whatever is decoded, sliced, encoded again, deleted and stored where
\* something else was (_vineyard.py:62-139), transposed and 0-d arrays
\* excepted.
THEOREM ReferenceNamesTheArray == Spec => []SameArray
  <1>1. Inv => SameArray
    BY DEF Inv, Faithful, SameArray
  <1> QED  BY <1>1, Invariance, PTL

\* A decoded array that still exists is sent as the object it came from
\* (_vineyard.py:62-65, 103-118).
THEOREM DecodedIsSentAsItself == Spec => []SentAsItself
  <1>1. Inv => SentAsItself
    BY DEF Inv
  <1> QED  BY <1>1, Invariance, PTL
=============================================================================
