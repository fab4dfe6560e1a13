---------------------------- MODULE CodecProofs ----------------------------
(***************************************************************************)
(* The layout arithmetic, the byte-level promises of encode(), for all     *)
(* models, buffers, frame sizes and alignments and for any number of calls *)
(* on one buffer, and what decode() makes of any buffer, header and        *)
(* manifest, written by encode or not.                                     *)
(***************************************************************************)
EXTENDS EncodeDecode, TLAPS

\* Division with remainder, in the form the solver can use.
LEMMA DivMod ==
    ASSUME NEW n \in Nat, NEW a \in Nat \ {0}
    PROVE  /\ n \div a \in Nat
           /\ n % a \in 0 .. a - 1
           /\ n = (n \div a) * a + (n % a)
  BY Z3

\* align_up returns the least multiple of the alignment from value on.
LEMMA AlignUpFacts ==
    ASSUME NEW v \in Nat, NEW a \in Nat \ {0}
    PROVE  /\ AlignUp(v, a) \in Nat
           /\ v <= AlignUp(v, a)
           /\ AlignUp(v, a) < v + a
           /\ AlignUp(v, a) % a = 0
  <1> DEFINE n == v + a - 1
             q == n \div a
             r == n % a
  <1>1. n \in Nat  OBVIOUS
  <1>2. q \in Nat /\ r \in 0 .. a - 1 /\ n = q * a + r
    BY <1>1, DivMod
  <1>3. q * a \in Nat /\ (q * a) % a = 0
    BY <1>2, Z3
  <1> HIDE DEF q, r, n
  <1>4. AlignUp(v, a) = q * a  BY DEF AlignUp, q, n
  <1>5. DEFINE m == q * a
  <1>6. m \in Nat /\ n = m + r  BY <1>2, <1>3
  <1> HIDE DEF m
  <1>7. v <= m /\ m < v + a  BY <1>2, <1>6 DEF n
  <1> QED  BY <1>3, <1>4, <1>7 DEF m

\* The sections follow each other without overlap: header and manifest, data,
\* padding; both sections start on a frame boundary.
LEMMA LayoutFacts ==
    ASSUME NEW m \in Nat, NEW d \in Nat
    PROVE  /\ DataStart(m) \in Nat
           /\ HEADER_SIZE + m <= DataStart(m)
           /\ DataStart(m) % FRAME_SIZE = 0
           /\ TotalSize(m, d) \in Nat
           /\ DataStart(m) + d <= TotalSize(m, d)
           /\ FRAME_SIZE <= TotalSize(m, d)
           /\ TotalSize(m, d) % FRAME_SIZE = 0
  <1>1. HEADER_SIZE + m \in Nat /\ FRAME_SIZE \in Nat \ {0}
    BY ContainerAssumption
  <1>2. /\ DataStart(m) \in Nat
        /\ HEADER_SIZE + m <= DataStart(m)
        /\ DataStart(m) % FRAME_SIZE = 0
    BY <1>1, AlignUpFacts DEF DataStart
  <1> DEFINE used == DataStart(m) + d
             v == IF used < FRAME_SIZE THEN FRAME_SIZE ELSE used
  <1>3. v \in Nat /\ used <= v /\ FRAME_SIZE <= v  BY <1>1, <1>2
  <1>4. TotalSize(m, d) = AlignUp(v, FRAME_SIZE)  BY DEF TotalSize
  <1> HIDE DEF v
  <1>5. /\ AlignUp(v, FRAME_SIZE) \in Nat
        /\ v <= AlignUp(v, FRAME_SIZE)
        /\ AlignUp(v, FRAME_SIZE) % FRAME_SIZE = 0
    BY <1>1, <1>3, AlignUpFacts
  <1>6. used <= AlignUp(v, FRAME_SIZE) /\ FRAME_SIZE <= AlignUp(v, FRAME_SIZE)
    BY <1>1, <1>2, <1>3, <1>5
  <1> QED  BY <1>2, <1>4, <1>5, <1>6
-----------------------------------------------------------------------------
\* Abbreviations of single expressions: expanded everywhere below.
USE DEF Reset, RelOffset, Cleared, ClearedHead, Gap, Padding

\* What the walk and the copy loop index is there; the arguments of a call
\* are what Call accepted.
TypeInv ==
    /\ TypeOK
    /\ bin = [p \in Buffer(size) |-> bin[p]]
    /\ pc # "idle" => call.model \in Models
    /\ pc \in {"walk", "prepare", "pack", "meta", "copy"} /\ call.out = "usable" =>
          \A l \in DOMAIN model.leaves :
              model.leaves[l].at # Fresh =>
                  model.leaves[l].at .. model.leaves[l].at + model.leaves[l].n - 1
                      \subseteq Buffer(size)

LEMMA ModelFacts ==
    ASSUME NEW m \in Models
    PROVE  /\ m.leaves \in Seq(Leaf) /\ m.json \in Nat /\ m.version \in Nat
           /\ \A l \in 1 .. Len(m.leaves) :
                 /\ m.leaves[l].n \in Nat
                 /\ m.leaves[l].at \in Nat \cup {Fresh}
                 /\ m.leaves[l].kind \in LeafKinds
  <1>1. m \in Model  BY CodecAssumption
  <1>2. m.leaves \in Seq(Leaf) /\ m.json \in Nat /\ m.version \in Nat
    BY <1>1 DEF Model
  <1> DEFINE s == m.leaves
  <1>3. s \in Seq(Leaf)  BY <1>2
  <1> HIDE DEF s
  <1>4. \A l \in 1 .. Len(s) : s[l] \in Leaf  BY <1>3
  <1>5. \A l \in 1 .. Len(s) :
           s[l].n \in Nat /\ s[l].at \in Nat \cup {Fresh} /\ s[l].kind \in LeafKinds
    BY <1>4 DEF Leaf
  <1> QED  BY <1>2, <1>5 DEF s

LEMMA TypeInductive == TypeInv /\ [Next]_vars => TypeInv'
  <1> SUFFICES ASSUME TypeInv, [Next]_vars PROVE TypeInv'
    OBVIOUS
  <1> DEFINE Places == {"idle", "walk", "prepare", "pack", "meta", "copy", "done",
                        "sized", "failed"}
             Counts(K, c, e, jj, as) ==
                 /\ K \in Nat /\ c \in Nat /\ e \in Nat
                 /\ jj \in 0 .. Len(as)
                 /\ as \in Seq([off : Nat, n : Nat, leaf : Nat])
             Mem(h, b, s) == /\ h \in Header /\ s \in Nat /\ s >= HEADER_SIZE
                             /\ DOMAIN b = Buffer(s)
                             /\ b = [p \in Buffer(s) |-> b[p]]
             Views(m, s) == \A l \in DOMAIN m.leaves :
                                m.leaves[l].at # Fresh =>
                                    m.leaves[l].at .. m.leaves[l].at + m.leaves[l].n - 1
                                        \subseteq Buffer(s)
             Args(q, c, K, s) ==
                 /\ q # "idle" => c.model \in Models /\ K <= Len(c.model.leaves)
                 /\ q \in {"walk", "prepare", "pack", "meta", "copy"} /\ c.out = "usable"
                        => Views(c.model, s)
  <1>0. /\ pc \in Places /\ calls \in 0 .. MaxCalls
        /\ Counts(k, cursor, prevEnd, j, arrays)
        /\ Mem(head, bin, size)
        /\ Args(pc, call, k, size)
    BY DEF TypeInv, TypeOK, model
  <1>a. SUFFICES /\ pc' \in Places /\ calls' \in 0 .. MaxCalls
                 /\ Counts(k', cursor', prevEnd', j', arrays')
                 /\ Mem(head', bin', size')
                 /\ Args(pc', call', k', size')
    BY DEF TypeInv, TypeOK, model, Buffer
  <1>b. ASSUME pc # "idle"
        PROVE  /\ model.json \in Nat /\ model.version \in Nat
               /\ Len(model.leaves) \in Nat
               /\ \A l \in 1 .. Len(model.leaves) : model.leaves[l].n \in Nat
               /\ dataStart \in Nat /\ total \in Nat /\ total >= HEADER_SIZE
    <2>1. model \in Models  BY <1>0, <1>b DEF model
    <2>2. /\ model.json \in Nat /\ model.version \in Nat
          /\ Len(model.leaves) \in Nat
          /\ \A l \in 1 .. Len(model.leaves) : model.leaves[l].n \in Nat
      BY <2>1, ModelFacts
    <2>3. dataStart \in Nat /\ total \in Nat /\ total >= FRAME_SIZE
      BY <1>0, <2>2, LayoutFacts, ContainerAssumption DEF dataStart, total
    <2> QED  BY <2>2, <2>3, ContainerAssumption
  <1> HIDE DEF Counts, Mem, Views, Args
  <1>1. CASE NewCall
    <2>1. PICK goal \in {"encode", "size"}, m \in Models, min \in Thresholds,
               hasStore \in BOOLEAN, out \in {"none", "usable", "unusable"} :
                  Call(goal, m, min, hasStore, out)
      BY <1>1 DEF NewCall
    <2>2. /\ k' = 0 /\ cursor' = 0 /\ arrays' = << >> /\ j' = 0 /\ prevEnd' = 0
          /\ head' = head /\ bin' = bin /\ size' = size
          /\ call' = [goal |-> goal, model |-> m, min |-> min, store |-> hasStore,
                      out |-> out]
          /\ pc' \in {"walk", "failed"} /\ calls' = calls + 1
          /\ \A l \in DOMAIN m.leaves :
                m.leaves[l].at # Fresh =>
                    m.leaves[l].at .. m.leaves[l].at + m.leaves[l].n - 1
                        \subseteq Buffer(size)
      BY <2>1 DEF Call
    <2>3. calls' \in 0 .. MaxCalls
      BY <1>0, <1>1, <2>2, CodecAssumption DEF NewCall
    <2>4. Counts(k', cursor', prevEnd', j', arrays')
      BY <2>2 DEF Counts
    <2>5. Args(pc', call', k', size')
      BY <2>2, ModelFacts DEF Args, Views
    <2> QED  BY <1>0, <2>2, <2>3, <2>4, <2>5
  <1>2. CASE WalkInline
    <2> DEFINE off == AlignUp(cursor, ARRAY_ALIGNMENT)
               here == model.leaves[k + 1]
    <2>1. /\ pc = "walk" /\ k < Len(model.leaves)
          /\ cursor' = off + here.n
          /\ arrays' = Append(arrays, [off |-> off, n |-> here.n, leaf |-> k + 1])
          /\ k' = k + 1
          /\ UNCHANGED <<pc, call, calls, head, bin, size, j, prevEnd>>
      BY <1>2 DEF WalkInline, Walking, Next1, walkVars
    <2>2. k \in Nat /\ cursor \in Nat  BY <1>0 DEF Counts
    <2>3. here.n \in Nat /\ off \in Nat
      <3>1. off \in Nat  BY <2>2, AlignUpFacts, ContainerAssumption
      <3>2. Len(model.leaves) \in Nat
            /\ \A l \in 1 .. Len(model.leaves) : model.leaves[l].n \in Nat
        BY <1>b, <2>1
      <3>3. k + 1 \in 1 .. Len(model.leaves)  BY <2>1, <2>2, <3>2
      <3> QED  BY <3>1, <3>2, <3>3
    <2> HIDE DEF off, here
    <2>4. Counts(k', cursor', prevEnd', j', arrays')
      BY <1>0, <2>1, <2>2, <2>3 DEF Counts
    <2>5. Args(pc', call', k', size')
      BY <1>0, <1>b, <2>1, <2>2 DEF Args, model
    <2> QED  BY <1>0, <2>1, <2>4, <2>5
  <1>3. CASE WalkExternal \/ WalkPlain
    <2>1. /\ pc = "walk" /\ k < Len(model.leaves) /\ k' = k + 1
          /\ UNCHANGED <<pc, call, calls, cursor, arrays, head, bin, size, j, prevEnd>>
      BY <1>3 DEF WalkExternal, WalkPlain, Walking, Next1, walkVars
    <2>2. Counts(k', cursor', prevEnd', j', arrays')
      BY <1>0, <2>1 DEF Counts
    <2>3. k \in Nat  BY <1>0 DEF Counts
    <2>4. Args(pc', call', k', size')
      BY <1>0, <1>b, <2>1, <2>3 DEF Args, model
    <2> QED  BY <1>0, <2>1, <2>2, <2>4
  <1>4. CASE WalkRefuse \/ EndWalk
    <2>1. /\ pc = "walk" /\ pc' \in {"failed", "sized", "prepare"}
          /\ UNCHANGED <<call, calls, k, cursor, arrays, head, bin, size, j, prevEnd>>
      BY <1>4 DEF WalkRefuse, EndWalk, Walking, walkVars
    <2> QED  BY <1>0, <2>1 DEF Args
  <1>5. CASE Prepare
    <2>1. /\ pc = "prepare"
          /\ UNCHANGED <<call, calls, k, cursor, arrays, j, prevEnd>>
      BY <1>5 DEF Prepare, treeVars
    <2>2. ZeroHeader \in Header  BY DEF ZeroHeader, Header
    <2>3. CASE call.out = "none"
      <3>1. /\ size' = total /\ head' = ZeroHeader /\ pc' = "pack"
            /\ bin' = [p \in Buffer(total) |-> IF p \in Cleared THEN Zero ELSE Junk(p)]
        BY <1>5, <2>3 DEF Prepare
      <3> QED  BY <1>0, <1>b, <2>1, <2>2, <2>3, <3>1 DEF Mem, Args
    <2>4. CASE call.out = "usable" /\ size >= total
      <3>1. /\ size' = size /\ head' = ZeroHeader /\ pc' = "pack"
            /\ bin' = [p \in Buffer(size) |-> IF p \in Cleared THEN Zero ELSE bin[p]]
        BY <1>5, <2>4 DEF Prepare
      <3> QED  BY <1>0, <2>1, <2>2, <3>1 DEF Mem, Args
    <2>5. CASE call.out # "none" /\ ~(call.out = "usable" /\ size >= total)
      <3>1. pc' = "failed" /\ UNCHANGED <<head, bin, size>>
        BY <1>5, <2>5 DEF Prepare
      <3> QED  BY <1>0, <2>1, <3>1 DEF Args
    <2> QED  BY <2>3, <2>4, <2>5
  <1>6. CASE PackHeader
    <2>1. /\ pc = "pack"
          /\ UNCHANGED <<call, calls, k, cursor, arrays, bin, size, j, prevEnd>>
      BY <1>6 DEF PackHeader, treeVars
    <2>2. head \in Header /\ cursor \in Nat  BY <1>0 DEF Mem, Counts
    <2>3. head' \in Header /\ pc' \in {"meta", "failed"}
      <3>1. /\ model.json \in Nat /\ model.version \in Nat
            /\ dataStart \in Nat /\ total \in Nat
        BY <1>b, <2>1
      <3> DEFINE ident == [head EXCEPT !.known = TRUE, !.schema = OurSchema]
                 named == [ident EXCEPT !.version = model.version]
                 full == [named EXCEPT !.metadata = model.json, !.dataStart = dataStart,
                                       !.dataBytes = cursor, !.encoded = total]
      <3>2. ident \in Header  BY <2>2 DEF Header, OurSchema
      <3>3. named \in Header  BY <3>1, <3>2 DEF Header
      <3>4. full \in Header  BY <2>2, <3>1, <3>3 DEF Header
      <3>5. /\ head' \in {ident, named, full}
            /\ pc' \in {"meta", "failed"}
        BY <1>6 DEF PackHeader
      <3> HIDE DEF ident, named, full
      <3> QED  BY <3>2, <3>3, <3>4, <3>5
    <2>4. Args(pc', call', k', size') /\ Mem(head', bin', size')
      BY <1>0, <2>1, <2>3 DEF Args, Mem
    <2> QED  BY <1>0, <2>1, <2>3, <2>4
  <1>7. CASE WriteMetadata \/ PadFrame \/ CopyFails
    <2>1. /\ pc \in {"meta", "copy"} /\ pc' \in {"copy", "done", "failed"}
          /\ UNCHANGED <<call, calls, k, cursor, arrays, head, size, j, prevEnd>>
      BY <1>7 DEF WriteMetadata, PadFrame, CopyFails, treeVars
    <2>2. DOMAIN bin' = Buffer(size) /\ bin' = [p \in Buffer(size) |-> bin'[p]]
      BY <1>0, <1>7 DEF WriteMetadata, PadFrame, CopyFails, Mem
    <2>3. Args(pc', call', k', size') /\ Mem(head', bin', size')
      BY <1>0, <2>1, <2>2 DEF Args, Mem
    <2> QED  BY <1>0, <2>1, <2>3
  <1>8. CASE CopyArray
    <2>1. /\ pc = "copy" /\ j < Len(arrays) /\ j' = j + 1
          /\ UNCHANGED <<pc, call, calls, k, cursor, arrays, head, size>>
          /\ prevEnd' = arrays[j + 1].off + arrays[j + 1].n
      BY <1>8 DEF CopyArray, treeVars
    <2>2. DOMAIN bin' = Buffer(size) /\ bin' = [p \in Buffer(size) |-> bin'[p]]
      BY <1>8 DEF CopyArray
    <2>3. Counts(k', cursor', prevEnd', j', arrays')
      <3>1. j + 1 \in 1 .. Len(arrays)  BY <1>0, <2>1 DEF Counts
      <3> DEFINE R == [off : Nat, n : Nat, leaf : Nat]
      <3>a. arrays \in Seq(R)  BY <1>0 DEF Counts
      <3> HIDE DEF R
      <3>b. arrays[j + 1] \in R  BY <3>1, <3>a
      <3>2. arrays[j + 1] \in [off : Nat, n : Nat, leaf : Nat]
        BY <3>b DEF R
      <3>3. prevEnd' \in Nat  BY <2>1, <3>2
      <3> QED  BY <1>0, <2>1, <3>1, <3>3 DEF Counts
    <2>4. Args(pc', call', k', size') /\ Mem(head', bin', size')
      BY <1>0, <2>1, <2>2 DEF Args, Mem
    <2> QED  BY <1>0, <2>1, <2>3, <2>4
  <1>9. CASE UNCHANGED vars
    BY <1>0, <1>9 DEF vars
  <1> QED
    BY <1>1, <1>2, <1>3, <1>4, <1>5, <1>6, <1>7, <1>8, <1>9 DEF Next

LEMMA TypeInitial == Init => TypeInv
  <1> SUFFICES ASSUME Init PROVE TypeInv
    OBVIOUS
  <1>1. ZeroHeader \in Header  BY DEF ZeroHeader, Header
  <1>2. size \in Nat /\ size >= HEADER_SIZE
    BY CodecAssumption DEF Init
  <1>3. MaxCalls \in Nat  BY CodecAssumption
  <1> QED  BY <1>1, <1>2, <1>3 DEF Init, TypeInv, TypeOK, Buffer

\* The type invariant, for all models, thresholds and buffer sizes.
THEOREM TypeCorrect == Spec => []TypeOK
  <1>1. TypeInv => TypeOK  BY DEF TypeInv
  <1> QED  BY TypeInitial, TypeInductive, <1>1, PTL DEF Spec
-----------------------------------------------------------------------------
\* What the walk builds and the copy loop follows: the arrays lie one behind
\* the other, the cursor is the end of the last one and previous_end the end
\* of the last one copied.
End(i) == arrays[i].off + arrays[i].n

LayoutInv ==
    /\ ArraysDisjoint
    /\ \A i \in DOMAIN arrays : arrays[i].leaf \in 1 .. k
                                /\ arrays[i].n = model.leaves[arrays[i].leaf].n
    /\ cursor = IF Len(arrays) = 0 THEN 0 ELSE End(Len(arrays))
    /\ prevEnd = IF j = 0 THEN 0 ELSE End(j)
    /\ pc \in {"walk", "prepare", "pack", "meta"} => j = 0
    /\ pc = "done" => j = Len(arrays)

LEMMA ArrayFacts ==
    ASSUME TypeInv, NEW i \in DOMAIN arrays
    PROVE  /\ arrays[i].off \in Nat /\ arrays[i].n \in Nat /\ arrays[i].leaf \in Nat
           /\ Len(arrays) \in Nat /\ i \in 1 .. Len(arrays)
  <1> DEFINE R == [off : Nat, n : Nat, leaf : Nat]
  <1>1. arrays \in Seq(R)  BY DEF TypeInv, TypeOK
  <1> HIDE DEF R
  <1>2. arrays[i] \in R /\ Len(arrays) \in Nat /\ i \in 1 .. Len(arrays)  BY <1>1
  <1> QED  BY <1>2 DEF R

LEMMA LayoutInductive == TypeInv /\ LayoutInv /\ [Next]_vars => LayoutInv'
  <1> SUFFICES ASSUME TypeInv, LayoutInv, [Next]_vars PROVE LayoutInv'
    OBVIOUS
  <1>0. /\ Len(arrays) \in Nat /\ DOMAIN arrays = 1 .. Len(arrays)
        /\ k \in Nat /\ cursor \in Nat /\ j \in 0 .. Len(arrays)
    BY DEF TypeInv, TypeOK
  <1>1. CASE NewCall
    <2>1. arrays' = << >> /\ cursor' = 0 /\ j' = 0 /\ prevEnd' = 0
          /\ pc' \in {"walk", "failed"}
      BY <1>1 DEF NewCall, Call
    <2> QED  BY <2>1 DEF LayoutInv, ArraysDisjoint, End
  <1>2. CASE WalkInline
    <2> DEFINE off == AlignUp(cursor, ARRAY_ALIGNMENT)
               here == model.leaves[k + 1]
               last == Len(arrays) + 1
    <2>1. /\ pc = "walk" /\ k < Len(model.leaves)
          /\ cursor' = off + here.n
          /\ arrays' = Append(arrays, [off |-> off, n |-> here.n, leaf |-> k + 1])
          /\ k' = k + 1
          /\ UNCHANGED <<pc, call, j, prevEnd>>
      BY <1>2 DEF WalkInline, Walking, Next1, walkVars
    <2>2. off \in Nat /\ cursor <= off /\ off % ARRAY_ALIGNMENT = 0
      BY <1>0, AlignUpFacts, ContainerAssumption
    <2>3. here.n \in Nat
      <3>1. model \in Models  BY <2>1 DEF TypeInv, model
      <3>2. k + 1 \in 1 .. Len(model.leaves)  BY <1>0, <2>1, <3>1, ModelFacts
      <3> QED  BY <3>1, <3>2, ModelFacts
    <2> HIDE DEF off, here
    <2>4. /\ Len(arrays') = last /\ DOMAIN arrays' = 1 .. last
          /\ \A i \in DOMAIN arrays : arrays'[i] = arrays[i]
          /\ arrays'[last] = [off |-> off, n |-> here.n, leaf |-> k + 1]
      BY <1>0, <2>1 DEF TypeInv, TypeOK
    <2>5. \A i \in DOMAIN arrays : End(i) <= cursor
      BY DEF LayoutInv, ArraysDisjoint, End
    <2>6. ArraysDisjoint'
      <3>1. ASSUME NEW i \in DOMAIN arrays'
            PROVE  /\ arrays'[i].off % ARRAY_ALIGNMENT = 0
                   /\ arrays'[i].off + arrays'[i].n <= cursor'
                   /\ \A h \in 1 .. i - 1 : arrays'[h].off + arrays'[h].n <= arrays'[i].off
        <4>1. CASE i = last
          <5>1. arrays'[i].off = off /\ arrays'[i].n = here.n  BY <2>4, <4>1
          <5>2. ASSUME NEW h \in 1 .. i - 1
                PROVE  arrays'[h].off + arrays'[h].n <= arrays'[i].off
            <6>1. h \in DOMAIN arrays  BY <1>0, <4>1
            <6>2. arrays'[h] = arrays[h] /\ End(h) <= cursor  BY <2>4, <2>5, <6>1
            <6>3. End(h) \in Nat  BY <6>1, ArrayFacts DEF End
            <6> QED  BY <1>0, <2>2, <5>1, <6>2, <6>3 DEF End
          <5> QED  BY <2>1, <2>2, <2>3, <5>1, <5>2
        <4>2. CASE i \in DOMAIN arrays
          <5>1. arrays'[i] = arrays[i]  BY <2>4, <4>2
          <5>2. \A h \in 1 .. i - 1 : h \in DOMAIN arrays /\ arrays'[h] = arrays[h]
            BY <1>0, <2>4, <4>2
          <5>3. arrays[i].off \in Nat /\ arrays[i].n \in Nat  BY <4>2, ArrayFacts
          <5>4. arrays[i].off + arrays[i].n <= cursor'
            BY <1>0, <2>1, <2>2, <2>3, <2>5, <4>2, <5>3 DEF End
          <5> QED  BY <4>2, <5>1, <5>2, <5>4 DEF LayoutInv, ArraysDisjoint
        <4> QED  BY <1>0, <2>4, <4>1, <4>2
      <3> QED  BY <3>1 DEF ArraysDisjoint
    <2>7. \A i \in DOMAIN arrays' : arrays'[i].leaf \in 1 .. k'
                                    /\ arrays'[i].n = model.leaves[arrays'[i].leaf].n
      <3>1. ASSUME NEW i \in DOMAIN arrays, arrays[i].leaf \in 1 .. k
            PROVE  arrays[i].leaf \in 1 .. k + 1
        BY <1>0, <3>1
      <3> QED  BY <1>0, <2>1, <2>4, <3>1 DEF LayoutInv, here
    <2>8. cursor' = End(Len(arrays))'
      BY <2>1, <2>4 DEF End
    <2>9. j = 0 /\ j' = 0 /\ prevEnd' = 0 /\ last # 0
      BY <1>0, <2>1 DEF LayoutInv
    <2> QED  BY <2>1, <2>4, <2>6, <2>7, <2>8, <2>9 DEF LayoutInv, model
  <1>3. CASE WalkExternal \/ WalkPlain
    <2>1. k' = k + 1 /\ UNCHANGED <<pc, call, cursor, arrays, j, prevEnd>>
      BY <1>3 DEF WalkExternal, WalkPlain, Next1, walkVars
    <2>2. ASSUME NEW i \in DOMAIN arrays PROVE arrays[i].leaf \in 1 .. k + 1
      <3>1. arrays[i].leaf \in 1 .. k  BY DEF LayoutInv
      <3> QED  BY <1>0, <3>1
    <2> QED  BY <2>1, <2>2 DEF LayoutInv, ArraysDisjoint, End, model
  <1>4. CASE WalkRefuse \/ EndWalk \/ Prepare \/ PackHeader \/ WriteMetadata \/ CopyFails
    <2>1. /\ pc' \in {"failed", "sized", "prepare", "pack", "meta", "copy"}
          /\ pc \in {"walk", "prepare", "pack", "meta"} \/ pc' = "failed"
          /\ UNCHANGED <<call, k, cursor, arrays, j, prevEnd>>
      <3>1. CASE WalkRefuse  BY <3>1 DEF WalkRefuse, Walking, walkVars
      <3>2. CASE EndWalk  BY <3>2 DEF EndWalk, walkVars
      <3>3. CASE Prepare  BY <3>3 DEF Prepare, treeVars
      <3>4. CASE PackHeader  BY <3>4 DEF PackHeader, treeVars
      <3>5. CASE WriteMetadata  BY <3>5 DEF WriteMetadata, treeVars
      <3>6. CASE CopyFails  BY <3>6 DEF CopyFails, treeVars
      <3> QED  BY <1>4, <3>1, <3>2, <3>3, <3>4, <3>5, <3>6
    <2> QED  BY <2>1 DEF LayoutInv, ArraysDisjoint, End, model
  <1>5. CASE CopyArray
    <2>1. /\ pc = "copy" /\ j < Len(arrays) /\ j' = j + 1
          /\ prevEnd' = End(j + 1)
          /\ UNCHANGED <<pc, call, k, cursor, arrays>>
      BY <1>5 DEF CopyArray, treeVars, End
    <2> QED  BY <1>0, <2>1 DEF LayoutInv, ArraysDisjoint, End, model
  <1>6. CASE PadFrame
    <2>1. pc' = "done" /\ j = Len(arrays)
          /\ UNCHANGED <<call, k, cursor, arrays, j, prevEnd>>
      BY <1>6 DEF PadFrame, treeVars
    <2> QED  BY <2>1 DEF LayoutInv, ArraysDisjoint, End, model
  <1>7. CASE UNCHANGED vars
    BY <1>7 DEF vars, LayoutInv, ArraysDisjoint, End, model
  <1> QED
    BY <1>1, <1>2, <1>3, <1>4, <1>5, <1>6, <1>7 DEF Next

LEMMA LayoutInitial == Init => LayoutInv
  BY DEF Init, LayoutInv, ArraysDisjoint, End
-----------------------------------------------------------------------------
\* What is in the buffer while the call fills it from the front: behind the
\* data copied so far a caller's buffer is as it was, in front of it every
\* byte is the one of the finished container.
Untouched(from) == \A p \in Buffer(size) : p >= from => bin[p] = before.bin[p]

Front ==
    /\ \A p \in HEADER_SIZE .. HEADER_SIZE + model.json - 1 :
          bin[p] = Json(p - HEADER_SIZE)
    /\ \A p \in HEADER_SIZE + model.json .. dataStart - 1 : bin[p] = Zero

GapsZero(upTo) == \A p \in dataStart .. upTo - 1 : ~Owned(p) => bin[p] = Zero

Copied(upTo) ==
    SourcesAhead =>
        \A i \in 1 .. upTo : \A b \in 0 .. arrays[i].n - 1 :
            bin[dataStart + arrays[i].off + b] = Value(arrays[i].leaf, b)

SlackAsBefore == pc # "idle" /\ call.out # "none" => Untouched(total)

BufferInv ==
    /\ pc \in {"walk", "prepare", "sized"} => head = before.head /\ bin = before.bin
    /\ pc \in {"pack", "meta", "copy", "done"} =>
          size >= total /\ call.out \in {"none", "usable"}
    /\ pc = "pack" => head = ZeroHeader
    /\ pc \in {"meta", "copy", "done"} => head = NewHead
    /\ pc \in {"pack", "meta"} =>
          \A p \in HEADER_SIZE .. dataStart - 1 : bin[p] = Zero
    /\ pc \in {"pack", "meta", "copy"} /\ call.out = "usable" =>
          Untouched(dataStart + prevEnd)
    /\ pc = "copy" => Front /\ GapsZero(dataStart + prevEnd) /\ Copied(j)
    /\ pc = "done" => Front /\ GapsZero(total) /\ Copied(Len(arrays))
    /\ SlackAsBefore
    /\ FailureNeverMixes

\* Numbers of a call in progress, from the invariants so far.
LEMMA CallFacts ==
    ASSUME TypeInv, LayoutInv, pc # "idle"
    PROVE  /\ model \in Models /\ model.json \in Nat /\ model.version \in Nat
           /\ dataStart \in Nat /\ total \in Nat /\ cursor \in Nat
           /\ prevEnd \in Nat /\ size \in Nat /\ HEADER_SIZE \in Nat
           /\ HEADER_SIZE + model.json <= dataStart
           /\ dataStart + cursor <= total
           /\ FRAME_SIZE <= total /\ total % FRAME_SIZE = 0
           /\ dataStart % FRAME_SIZE = 0
           /\ prevEnd <= cursor
           /\ Len(arrays) \in Nat /\ j \in 0 .. Len(arrays)
           /\ DOMAIN arrays = 1 .. Len(arrays)
  <1>1. /\ cursor \in Nat /\ prevEnd \in Nat /\ size \in Nat
        /\ Len(arrays) \in Nat /\ j \in 0 .. Len(arrays)
        /\ DOMAIN arrays = 1 .. Len(arrays)
    BY DEF TypeInv, TypeOK
  <1>2. model \in Models /\ model.json \in Nat /\ model.version \in Nat
    BY ModelFacts DEF TypeInv, model
  <1>3. /\ dataStart \in Nat /\ total \in Nat
        /\ HEADER_SIZE + model.json <= dataStart
        /\ dataStart + cursor <= total
        /\ FRAME_SIZE <= total /\ total % FRAME_SIZE = 0
        /\ dataStart % FRAME_SIZE = 0
    BY <1>1, <1>2, LayoutFacts DEF dataStart, total
  <1>4. prevEnd <= cursor
    <2>1. CASE j = 0  BY <1>1, <2>1 DEF LayoutInv
    <2>2. CASE j # 0
      <3>1. j \in DOMAIN arrays  BY <1>1, <2>2
      <3> QED  BY <2>2, <3>1 DEF LayoutInv, ArraysDisjoint, End
    <2> QED  BY <2>1, <2>2
  <1> QED  BY <1>1, <1>2, <1>3, <1>4, ContainerAssumption

\* Behind a packed header the front part is a manifest decode can read.
LEMMA FrontIsManifest ==
    ASSUME TypeInv, LayoutInv, pc # "idle", head = NewHead, Front
    PROVE  ManifestIntact
  <1>1. model.json \in Nat /\ HEADER_SIZE \in Nat
    BY CallFacts
  <1>2. ASSUME NEW i \in 0 .. model.json - 1
        PROVE  bin[HEADER_SIZE + i] = Json(i)
    <2>1. /\ HEADER_SIZE + i \in HEADER_SIZE .. HEADER_SIZE + model.json - 1
          /\ (HEADER_SIZE + i) - HEADER_SIZE = i
      BY <1>1
    <2> QED  BY <2>1 DEF Front
  <1> QED  BY <1>2 DEF ManifestIntact, NewHead

\* Before the copy loop nothing is copied; the buffer is as Prepare left it.
LEMMA BufferFill ==
    ASSUME TypeInv, LayoutInv, BufferInv, Prepare \/ PackHeader \/ WriteMetadata
    PROVE  BufferInv'
  <1>1. CASE Prepare
    <2>0. /\ pc = "prepare" /\ UNCHANGED <<call, calls, cursor, arrays, before, j, prevEnd>>
          /\ head = before.head /\ bin = before.bin
      BY <1>1 DEF Prepare, treeVars, BufferInv
    <2>1. /\ dataStart \in Nat /\ total \in Nat /\ dataStart <= total /\ prevEnd = 0
          /\ size \in Nat /\ HEADER_SIZE \in Nat
      BY <2>0, CallFacts DEF LayoutInv
    <2>2. UNCHANGED <<model, dataStart, total>>
      BY <2>0 DEF model, dataStart, total
    <2>3. CASE call.out = "none"
      <3>1. /\ size' = total /\ head' = ZeroHeader /\ pc' = "pack"
            /\ bin' = [p \in Buffer(total) |-> IF p \in Cleared THEN Zero ELSE Junk(p)]
        BY <1>1, <2>3 DEF Prepare
      <3>2. \A p \in HEADER_SIZE .. dataStart - 1 : bin'[p] = Zero
        BY <2>1, <3>1 DEF Buffer
      <3>3. Zero' = Zero  BY DEF Zero
      <3> QED  BY <2>0, <2>1, <2>2, <2>3, <3>1, <3>2, <3>3
               DEF BufferInv, SlackAsBefore, Untouched, FailureNeverMixes
    <2>4. CASE call.out = "usable" /\ size >= total
      <3>1. /\ size' = size /\ head' = ZeroHeader /\ pc' = "pack"
            /\ bin' = [p \in Buffer(size) |-> IF p \in Cleared THEN Zero ELSE bin[p]]
        BY <1>1, <2>4 DEF Prepare
      <3>2. \A p \in HEADER_SIZE .. dataStart - 1 : bin'[p] = Zero
        BY <2>1, <2>4, <3>1 DEF Buffer
      <3>3. \A p \in Buffer(size) : p >= dataStart => bin'[p] = before.bin[p]
        BY <2>0, <2>1, <3>1 DEF Buffer
      <3>4. Zero' = Zero  BY DEF Zero
      <3>5. Untouched(dataStart + prevEnd)'
        BY <2>0, <2>1, <2>2, <3>1, <3>3 DEF Untouched, Buffer
      <3>6. SlackAsBefore'
        BY <2>0, <2>1, <2>2, <3>1, <3>3 DEF SlackAsBefore, Untouched, Buffer
      <3> QED  BY <2>0, <2>1, <2>2, <2>4, <3>1, <3>2, <3>4, <3>5, <3>6
               DEF BufferInv, FailureNeverMixes
    <2>5. CASE call.out # "none" /\ ~(call.out = "usable" /\ size >= total)
      <3>1. pc' = "failed" /\ UNCHANGED <<head, bin, size>>
        BY <1>1, <2>5 DEF Prepare
      <3>2. SlackAsBefore'
        BY <2>0, <3>1 DEF SlackAsBefore, Untouched, Buffer
      <3> QED  BY <2>0, <3>1, <3>2 DEF BufferInv, FailureNeverMixes
    <2> QED  BY <2>3, <2>4, <2>5
  <1>2. CASE PackHeader
    <2>0. /\ pc = "pack" /\ head = ZeroHeader
          /\ UNCHANGED <<call, calls, cursor, arrays, before, bin, size, j, prevEnd>>
      BY <1>2 DEF PackHeader, treeVars, BufferInv
    <2>1. UNCHANGED <<model, dataStart, total, Zero>>
      BY <2>0 DEF model, dataStart, total, Zero
    <2>2. pc' \in {"failed", "meta"} /\ (pc' = "failed" => head'.encoded = 0)
      BY <1>2, <2>0 DEF PackHeader, ZeroHeader
    <2>3. FailureNeverMixes'
      BY <2>2, ContainerAssumption DEF FailureNeverMixes, HeaderAccepted
    <2>4. SlackAsBefore'
      BY <2>0, <2>1 DEF SlackAsBefore, Untouched, BufferInv, Buffer
    <2>5. Untouched(dataStart + prevEnd)' <=> Untouched(dataStart + prevEnd)
      BY <2>0, <2>1 DEF Untouched, Buffer
    <2>6. pc' = "meta" => head' = NewHead /\ NewHead' = NewHead
      BY <1>2, <2>0, <2>1 DEF PackHeader, ZeroHeader, NewHead
    <2> QED  BY <2>0, <2>1, <2>2, <2>3, <2>4, <2>5, <2>6 DEF BufferInv
  <1>3. CASE WriteMetadata
    <2>0. /\ pc = "meta" /\ pc' = "copy" /\ j = 0 /\ prevEnd = 0
          /\ UNCHANGED <<call, calls, cursor, arrays, before, head, size, j, prevEnd>>
          /\ bin' = [p \in Buffer(size) |->
                        IF p < HEADER_SIZE + model.json THEN Json(p - HEADER_SIZE)
                        ELSE bin[p]]
      BY <1>3 DEF WriteMetadata, treeVars, LayoutInv
    <2>1. /\ dataStart \in Nat /\ total \in Nat /\ model.json \in Nat
          /\ HEADER_SIZE + model.json <= dataStart /\ dataStart <= total
          /\ size \in Nat /\ HEADER_SIZE \in Nat /\ total <= size
      BY <2>0, CallFacts DEF BufferInv
    <2>2. UNCHANGED <<model, dataStart, total, Zero, NewHead>>
      BY <2>0 DEF model, dataStart, total, Zero, NewHead
    <2>3. Front'
      <3>1. \A p \in HEADER_SIZE .. HEADER_SIZE + model.json - 1 :
               bin'[p] = Json(p - HEADER_SIZE)
        BY <2>0, <2>1 DEF Buffer
      <3>2. \A p \in HEADER_SIZE + model.json .. dataStart - 1 : bin'[p] = Zero
        <4>1. ASSUME NEW p \in HEADER_SIZE + model.json .. dataStart - 1
              PROVE  bin'[p] = bin[p] /\ p \in HEADER_SIZE .. dataStart - 1
          BY <2>0, <2>1 DEF Buffer
        <4> QED  BY <2>0, <4>1 DEF BufferInv
      <3>3. \A i : Json(i)' = Json(i)  BY <2>0 DEF Json
      <3> QED  BY <2>2, <3>1, <3>2, <3>3 DEF Front
    <2>4. \A p \in Buffer(size) : p >= dataStart => bin'[p] = bin[p]
      BY <2>0, <2>1 DEF Buffer
    <2>5. call.out = "usable" => Untouched(dataStart + prevEnd)'
      BY <2>0, <2>1, <2>2, <2>4 DEF Untouched, BufferInv, Buffer
    <2>6. SlackAsBefore'
      BY <2>0, <2>1, <2>2, <2>4 DEF SlackAsBefore, Untouched, BufferInv, Buffer
    <2>7. GapsZero(dataStart + prevEnd)' /\ Copied(j)'
      BY <2>0, <2>1, <2>2 DEF GapsZero, Copied
    <2> QED
      BY <2>0, <2>2, <2>3, <2>5, <2>6, <2>7 DEF BufferInv, FailureNeverMixes
  <1> QED  BY <1>1, <1>2, <1>3

\* One round of the copy loop extends the finished part by one array; a
\* source that lies ahead of its place has not been overwritten yet.
LEMMA BufferCopy ==
    ASSUME TypeInv, LayoutInv, BufferInv, CopyArray
    PROVE  BufferInv'
  <1> DEFINE a == arrays[j + 1]
             start == dataStart + a.off
             gap == dataStart + prevEnd .. start - 1
             zeroed(p) == IF p \in gap THEN Zero ELSE bin[p]
             at == model.leaves[a.leaf].at
             byte(i) == IF at # Fresh /\ call.out # "none" THEN zeroed(at + i)
                        ELSE Value(a.leaf, i)
  <1>1. /\ pc = "copy" /\ j < Len(arrays) /\ j' = j + 1
        /\ prevEnd' = a.off + a.n
        /\ UNCHANGED <<call, calls, cursor, arrays, manifest, before, pc, head, size>>
    BY DEF CopyArray, treeVars
  <1>w. bin' = [p \in Buffer(size) |->
                   IF p \in start .. start + a.n - 1 THEN byte(p - start)
                   ELSE zeroed(p)]
    BY Zenon DEF CopyArray
  <1>2. /\ dataStart \in Nat /\ total \in Nat /\ model.json \in Nat /\ model \in Models
        /\ HEADER_SIZE + model.json <= dataStart /\ dataStart + cursor <= total
        /\ size \in Nat /\ HEADER_SIZE \in Nat /\ total <= size
        /\ prevEnd \in Nat /\ cursor \in Nat /\ Len(arrays) \in Nat
        /\ j \in 0 .. Len(arrays) /\ DOMAIN arrays = 1 .. Len(arrays)
    BY <1>1, CallFacts DEF BufferInv
  <1>3. j + 1 \in DOMAIN arrays  BY <1>1, <1>2
  <1>4. /\ a.off \in Nat /\ a.n \in Nat
        /\ prevEnd <= a.off /\ a.off + a.n <= cursor
    <2>1. a.off \in Nat /\ a.n \in Nat  BY <1>3, ArrayFacts
    <2>2. a.off + a.n <= cursor  BY <1>3 DEF LayoutInv, ArraysDisjoint
    <2>3. CASE j = 0  BY <2>1, <2>2, <2>3 DEF LayoutInv
    <2>4. CASE j # 0
      <3>1. j \in 1 .. (j + 1) - 1  BY <1>2, <2>4
      <3>2. arrays[j].off + arrays[j].n <= a.off
        BY <1>3, <3>1 DEF LayoutInv, ArraysDisjoint
      <3> QED  BY <2>1, <2>2, <2>4, <3>2 DEF LayoutInv, End
    <2> QED  BY <2>3, <2>4
  <1>5. UNCHANGED <<model, dataStart, total, Zero, NewHead>> /\ (SourcesAhead' <=> SourcesAhead)
    BY <1>1 DEF model, dataStart, total, Zero, SourcesAhead, NewHead
  <1>6. \A l, i : Value(l, i)' = Value(l, i)
    BY <1>1 DEF Value, Data, model
  <1>7. \A i : Json(i)' = Json(i)  BY <1>1 DEF Json
  <1>8. \A p : Owned(p)' <=> Owned(p)
    BY <1>1, <1>5 DEF Owned
  <1> HIDE DEF byte, a
  \* Where the step writes.
  <1>9. \A p \in Buffer(size) : p < dataStart + prevEnd => bin'[p] = bin[p]
    BY <1>w, <1>2, <1>4 DEF Buffer
  <1>10. \A p \in Buffer(size) : p >= start + a.n => bin'[p] = bin[p]
    <2>1. ASSUME NEW p \in Buffer(size), p >= start + a.n
          PROVE  p \notin start .. start + a.n - 1 /\ p \notin gap
      <3>1. p \in Int  BY <1>2 DEF Buffer
      <3>2. start \in Nat  BY <1>2, <1>4
      <3> HIDE DEF start
      <3> QED  BY <1>4, <2>1, <3>1, <3>2
    <2> QED  BY <1>w, <2>1
  <1>11. Front'
    <2>1. \A p \in HEADER_SIZE .. dataStart - 1 : bin'[p] = bin[p]
      BY <1>2, <1>9 DEF Buffer
    <2>2. Front  BY <1>1 DEF BufferInv
    <2>3. \A p \in HEADER_SIZE .. HEADER_SIZE + model.json - 1 :
             bin'[p] = Json(p - HEADER_SIZE)
      <3>1. ASSUME NEW p \in HEADER_SIZE .. HEADER_SIZE + model.json - 1
            PROVE  p \in HEADER_SIZE .. dataStart - 1
        BY <1>2
      <3> QED  BY <2>1, <2>2, <3>1 DEF Front
    <2>4. \A p \in HEADER_SIZE + model.json .. dataStart - 1 : bin'[p] = Zero
      <3>1. ASSUME NEW p \in HEADER_SIZE + model.json .. dataStart - 1
            PROVE  p \in HEADER_SIZE .. dataStart - 1
        BY <1>2
      <3> QED  BY <2>1, <2>2, <3>1 DEF Front
    <2> QED  BY <1>5, <1>7, <2>3, <2>4 DEF Front
  <1>12. GapsZero(dataStart + prevEnd)'
    <2>1. ASSUME NEW p \in dataStart .. (dataStart + prevEnd') - 1, ~Owned(p)
          PROVE  bin'[p] = Zero
      <3>1. p \in Buffer(size)  BY <1>1, <1>2, <1>4 DEF Buffer
      <3>2. CASE p < dataStart + prevEnd
        <4>1. p \in dataStart .. (dataStart + prevEnd) - 1  BY <1>1, <1>2, <1>4, <3>2
        <4>2. bin'[p] = bin[p]  BY <1>9, <3>1, <3>2
        <4>3. GapsZero(dataStart + prevEnd)  BY <1>1 DEF BufferInv
        <4> QED  BY <2>1, <4>1, <4>2, <4>3 DEF GapsZero
      <3>3. CASE p >= dataStart + prevEnd /\ p < start
        <4>1. p \in gap /\ p \notin start .. start + a.n - 1
          BY <1>2, <1>4, <3>3
        <4> QED  BY <1>w, <3>1, <4>1
      <3>4. CASE p >= start
        <4>1. p \in start .. start + a.n - 1  BY <1>1, <1>2, <1>4, <3>4
        <4> QED  BY <1>2, <1>3, <2>1, <4>1 DEF Owned, a
      <3> QED  BY <1>1, <1>2, <1>4, <3>2, <3>3, <3>4
    <2>2. dataStart' = dataStart /\ Zero' = Zero  BY <1>5
    <2>3. \A p \in dataStart .. (dataStart + prevEnd') - 1 :
             ~(Owned(p)') => bin'[p] = Zero
      BY <1>8, <2>1
    <2> QED  BY <2>2, <2>3 DEF GapsZero
  <1>13. call.out = "usable" => Untouched(dataStart + prevEnd)'
    <2>1. ASSUME call.out = "usable", NEW p \in Buffer(size), p >= dataStart + prevEnd'
          PROVE  bin'[p] = before.bin[p]
      <3>1. p >= start + a.n /\ p >= dataStart + prevEnd
        BY <1>1, <1>2, <1>4, <2>1 DEF Buffer
      <3> QED  BY <1>1, <1>10, <2>1, <3>1 DEF BufferInv, Untouched
    <2> QED  BY <1>1, <1>5, <2>1 DEF Untouched, Buffer
  <1>14. SlackAsBefore'
    <2>1. ASSUME NEW p \in Buffer(size), p >= total
          PROVE  bin'[p] = bin[p]
      <3>1. p \in Int  BY <1>2 DEF Buffer
      <3>2. start + a.n \in Int /\ start + a.n <= total  BY <1>2, <1>4
      <3> HIDE DEF start
      <3>3. p >= start + a.n  BY <1>2, <2>1, <3>1, <3>2
      <3> QED  BY <1>10, <3>3
    <2> QED  BY <1>1, <1>5, <2>1 DEF SlackAsBefore, Untouched, BufferInv, Buffer
  <1>15. Copied(j)'
    <2>1. ASSUME SourcesAhead, NEW b \in 0 .. a.n - 1
          PROVE  bin'[start + b] = Value(a.leaf, b)
      <3>1. start + b \in Buffer(size) /\ start + b \in start .. start + a.n - 1
            /\ (start + b) - start = b
        <4>1. b \in Int /\ 0 <= b /\ b < a.n /\ start \in Nat  BY <1>2, <1>4
        <4>2. start + b < dataStart + cursor  BY <1>2, <1>4, <4>1
        <4>3. start + b \in Nat /\ HEADER_SIZE <= start + b /\ start + b < size
          <5>1. HEADER_SIZE <= dataStart /\ dataStart + cursor <= size  BY <1>2
          <5>2. dataStart <= start  BY <1>2, <1>4
          <5> HIDE DEF start
          <5> QED  BY <1>2, <4>1, <4>2, <5>1, <5>2
        <4>4. start + b < start + a.n /\ (start + b) - start = b
          <5> HIDE DEF start
          <5> QED  BY <1>4, <4>1
        <4> HIDE DEF start
        <4> QED  BY <1>2, <1>4, <4>1, <4>3, <4>4 DEF Buffer
      <3>2. bin'[start + b] = byte(b)  BY <1>w, <3>1
      <3>3. CASE at = Fresh \/ call.out = "none"
        BY <3>2, <3>3 DEF byte
      <3>4. CASE at # Fresh /\ call.out = "usable"
        <4>1. at \in Nat /\ a.leaf \in DOMAIN model.leaves /\ a.n = model.leaves[a.leaf].n
          <5>1. a.leaf \in 1 .. k /\ a.n = model.leaves[a.leaf].n
            BY <1>3 DEF LayoutInv, a
          <5>2. k <= Len(model.leaves) /\ k \in Nat
            BY <1>1 DEF TypeInv, TypeOK
          <5>3. model.leaves \in Seq(Leaf) /\ Len(model.leaves) \in Nat
            BY <1>2, ModelFacts
          <5>4. a.leaf \in 1 .. Len(model.leaves)  BY <5>1, <5>2, <5>3
          <5>5. at \in Nat \cup {Fresh}  BY <1>2, <5>4, ModelFacts
          <5> QED  BY <3>4, <5>1, <5>3, <5>4, <5>5
        <4>2. at + b \in Buffer(size)
          <5>1. at .. at + a.n - 1 \subseteq Buffer(size)
            BY <1>1, <3>4, <4>1 DEF TypeInv
          <5>2. at + b \in at .. at + a.n - 1  BY <1>4, <4>1
          <5> QED  BY <5>1, <5>2
        <4>3. at >= start
          BY <1>3, <2>1, <3>4 DEF SourcesAhead, a
        <4>4. at + b \notin gap /\ at + b >= dataStart + prevEnd
          <5>1. b \in Int /\ 0 <= b  BY <1>4
          <5>2. start \in Nat /\ start >= dataStart + prevEnd  BY <1>2, <1>4
          <5>3. at + b >= start
            <6> HIDE DEF start, at
            <6> QED  BY <4>1, <4>3, <5>1, <5>2
          <5>4. at + b \in Nat  BY <4>1, <5>1
          <5> HIDE DEF start, at
          <5> QED  BY <1>2, <4>1, <5>2, <5>3, <5>4
        <4>5. zeroed(at + b) = bin[at + b] /\ bin[at + b] = before.bin[at + b]
          BY <1>1, <3>4, <4>2, <4>4 DEF BufferInv, Untouched
        <4>6. Value(a.leaf, b) = before.bin[at + b]
          BY <3>4 DEF Value
        <4> QED  BY <3>2, <3>4, <4>5, <4>6 DEF byte
      <3> QED  BY <1>1, <3>3, <3>4 DEF BufferInv
    <2>2. ASSUME SourcesAhead, NEW i \in 1 .. j, NEW b \in 0 .. arrays[i].n - 1
          PROVE  bin'[dataStart + arrays[i].off + b] = Value(arrays[i].leaf, b)
      <3>1. i \in DOMAIN arrays /\ j \in DOMAIN arrays /\ j # 0  BY <1>2
      <3>2. arrays[i].off \in Nat /\ arrays[i].n \in Nat  BY <3>1, ArrayFacts
      <3>3. arrays[j].off \in Nat /\ arrays[j].n \in Nat  BY <3>1, ArrayFacts
      <3>4. arrays[i].off + arrays[i].n <= prevEnd
        <4>1. prevEnd = arrays[j].off + arrays[j].n  BY <3>1 DEF LayoutInv, End
        <4>2. CASE i = j  BY <3>2, <4>1, <4>2
        <4>3. CASE i < j
          <5>1. arrays[i].off + arrays[i].n <= arrays[j].off
            <6>1. i \in 1 .. j - 1  BY <1>2, <3>1, <4>3
            <6> QED  BY <3>1, <6>1 DEF LayoutInv, ArraysDisjoint
          <5> QED  BY <3>2, <3>3, <4>1, <5>1
        <4> QED  BY <1>2, <4>2, <4>3
      <3>5. /\ dataStart + arrays[i].off + b \in Buffer(size)
            /\ dataStart + arrays[i].off + b < dataStart + prevEnd
        <4>1. b \in Int /\ 0 <= b /\ b < arrays[i].n  BY <3>2
        <4>2. dataStart + arrays[i].off + b < dataStart + prevEnd
          BY <1>2, <3>2, <3>4, <4>1
        <4>3. prevEnd <= cursor  BY <1>2, <1>4
        <4> DEFINE q == dataStart + arrays[i].off + b
        <4>4. q \in Int /\ dataStart <= q
          <5> DEFINE o == arrays[i].off
          <5>1. o \in Nat /\ b \in Int /\ 0 <= b /\ dataStart \in Nat
            BY <1>2, <3>2, <4>1
          <5> HIDE DEF o, dataStart
          <5>2. dataStart + o + b \in Int /\ dataStart <= dataStart + o + b  BY <5>1
          <5> QED  BY <5>2 DEF o
        <4>5. q < dataStart + prevEnd  BY <4>2
        <4> HIDE DEF q
        <4>6. q \in Buffer(size)  BY <1>2, <4>3, <4>4, <4>5 DEF Buffer
        <4> QED  BY <4>5, <4>6 DEF q
      <3>6. bin[dataStart + arrays[i].off + b] = Value(arrays[i].leaf, b)
        BY <1>1, <2>2 DEF BufferInv, Copied
      <3> QED  BY <1>9, <3>5, <3>6
    <2>3. ASSUME SourcesAhead, NEW i \in 1 .. j + 1, NEW b \in 0 .. arrays[i].n - 1
          PROVE  bin'[dataStart + arrays[i].off + b] = Value(arrays[i].leaf, b)
      <3>1. CASE i = j + 1  BY <2>1, <2>3, <3>1 DEF a
      <3>2. CASE i \in 1 .. j  BY <2>2, <2>3, <3>2
      <3> QED  BY <1>2, <3>1, <3>2
    <2> QED  BY <1>1, <1>5, <1>6, <2>3 DEF Copied
  <1> QED
    BY <1>1, <1>5, <1>11, <1>12, <1>13, <1>14, <1>15
    DEF BufferInv, FailureNeverMixes

\* The last step: behind the last array there is only padding.
LEMMA BufferPad ==
    ASSUME TypeInv, LayoutInv, BufferInv, PadFrame
    PROVE  BufferInv'
  <1> DEFINE tail == dataStart + cursor
  <1>1. /\ pc = "copy" /\ j = Len(arrays) /\ pc' = "done"
        /\ UNCHANGED <<call, calls, cursor, arrays, before, head, size, j>>
        /\ bin' = [p \in Buffer(size) |->
                      IF p \in tail .. total - 1 THEN Zero ELSE bin[p]]
    BY DEF PadFrame, treeVars
  <1>2. /\ dataStart \in Nat /\ total \in Nat /\ model.json \in Nat
        /\ HEADER_SIZE + model.json <= dataStart /\ tail <= total
        /\ size \in Nat /\ HEADER_SIZE \in Nat /\ total <= size
        /\ prevEnd \in Nat /\ cursor \in Nat /\ Len(arrays) \in Nat
        /\ DOMAIN arrays = 1 .. Len(arrays) /\ tail \in Nat
    BY <1>1, CallFacts DEF BufferInv
  <1>3. prevEnd = cursor  BY <1>1 DEF LayoutInv
  <1>4. UNCHANGED <<model, dataStart, total, Zero, NewHead>> /\ (SourcesAhead' <=> SourcesAhead)
    BY <1>1 DEF model, dataStart, total, Zero, SourcesAhead, NewHead
  <1>5. /\ \A l, i : Value(l, i)' = Value(l, i)
        /\ \A i : Json(i)' = Json(i)
        /\ \A p : Owned(p)' <=> Owned(p)
    BY <1>1, <1>4 DEF Value, Data, model, Json, Owned
  <1> HIDE DEF tail
  <1>6. \A p \in Buffer(size) : p < tail => bin'[p] = bin[p]
    BY <1>1, <1>2 DEF Buffer
  <1>7. \A p \in Buffer(size) : p >= total => bin'[p] = bin[p]
    BY <1>1, <1>2 DEF Buffer
  <1>8. dataStart <= tail  BY <1>2 DEF tail
  <1>9. Front'
    <2>1. ASSUME NEW p \in HEADER_SIZE .. dataStart - 1 PROVE bin'[p] = bin[p]
      BY <1>2, <1>6, <1>8 DEF Buffer
    <2>2. ASSUME NEW p \in HEADER_SIZE .. HEADER_SIZE + model.json - 1
          PROVE  bin'[p] = Json(p - HEADER_SIZE)
      <3>1. p \in HEADER_SIZE .. dataStart - 1  BY <1>2
      <3> QED  BY <1>1, <2>1, <3>1 DEF BufferInv, Front
    <2>3. ASSUME NEW p \in HEADER_SIZE + model.json .. dataStart - 1
          PROVE  bin'[p] = Zero
      <3>1. p \in HEADER_SIZE .. dataStart - 1  BY <1>2
      <3> QED  BY <1>1, <2>1, <3>1 DEF BufferInv, Front
    <2> QED  BY <1>4, <1>5, <2>2, <2>3 DEF Front
  <1>10. GapsZero(total)'
    <2>1. ASSUME NEW p \in dataStart .. total - 1, ~Owned(p) PROVE bin'[p] = Zero
      <3>1. p \in Buffer(size)  BY <1>2 DEF Buffer
      <3>2. CASE p < tail
        <4>1. p \in dataStart .. (dataStart + prevEnd) - 1
          BY <1>2, <1>3, <3>2 DEF tail
        <4>2. GapsZero(dataStart + prevEnd)  BY <1>1 DEF BufferInv
        <4> QED  BY <1>6, <2>1, <3>1, <3>2, <4>1, <4>2 DEF GapsZero
      <3>3. CASE p >= tail
        <4>1. p \in tail .. total - 1  BY <1>2, <3>3
        <4> QED  BY <1>1, <3>1, <4>1
      <3> QED  BY <1>2, <3>2, <3>3
    <2>2. \A p \in dataStart .. total - 1 : ~(Owned(p)') => bin'[p] = Zero
      BY <1>5, <2>1
    <2> QED  BY <1>4, <2>2 DEF GapsZero
  <1>11. Copied(Len(arrays))'
    <2>1. ASSUME SourcesAhead, NEW i \in 1 .. Len(arrays), NEW b \in 0 .. arrays[i].n - 1
          PROVE  bin'[dataStart + arrays[i].off + b] = Value(arrays[i].leaf, b)
      <3> DEFINE o == arrays[i].off
                 n == arrays[i].n
                 q == dataStart + o + b
      <3>1. o \in Nat /\ n \in Nat  BY <1>2, ArrayFacts
      <3>2. o + n <= cursor  BY <1>2 DEF LayoutInv, ArraysDisjoint
      <3>3. b \in Int /\ 0 <= b /\ b < n  BY <3>1
      <3> HIDE DEF o, n
      <3>4. q \in Nat /\ dataStart <= q /\ q < tail
        BY <1>2, <3>1, <3>2, <3>3 DEF tail
      <3>5. bin[q] = Value(arrays[i].leaf, b)
        BY <1>1, <2>1 DEF BufferInv, Copied, o, n
      <3> HIDE DEF q
      <3>6. q \in Buffer(size)  BY <1>2, <3>4 DEF Buffer
      <3>7. bin'[q] = Value(arrays[i].leaf, b)  BY <1>6, <3>4, <3>5, <3>6
      <3> QED  BY <3>7 DEF q, o
    <2>2. \A l, i : Value(l, i)' = Value(l, i)  BY <1>5
    <2> QED  BY <1>1, <1>4, <2>1, <2>2 DEF Copied
  <1>12. SlackAsBefore'
    BY <1>1, <1>4, <1>7 DEF SlackAsBefore, Untouched, BufferInv, Buffer
  <1> QED
    BY <1>1, <1>4, <1>9, <1>10, <1>11, <1>12 DEF BufferInv, FailureNeverMixes

LEMMA BufferInductive == TypeInv /\ LayoutInv /\ BufferInv /\ [Next]_vars => BufferInv'
  <1> SUFFICES ASSUME TypeInv, LayoutInv, BufferInv, [Next]_vars PROVE BufferInv'
    OBVIOUS
  <1>1. CASE NewCall
    <2>1. /\ pc' \in {"walk", "failed"} /\ UNCHANGED <<head, bin, size>>
          /\ before' = [head |-> head, bin |-> bin]
      BY <1>1 DEF NewCall, Call
    <2> QED  BY <2>1 DEF BufferInv, SlackAsBefore, Untouched, FailureNeverMixes
  <1>2. CASE WalkInline \/ WalkExternal \/ WalkRefuse \/ WalkPlain \/ EndWalk
    <2>1. /\ pc = "walk" /\ pc' \in {"walk", "failed", "sized", "prepare"}
          /\ UNCHANGED <<call, before, head, bin, size>>
      <3>1. CASE WalkInline  BY <3>1 DEF WalkInline, Walking, walkVars
      <3>2. CASE WalkExternal  BY <3>2 DEF WalkExternal, Walking, walkVars
      <3>3. CASE WalkRefuse  BY <3>3 DEF WalkRefuse, Walking, walkVars
      <3>4. CASE WalkPlain  BY <3>4 DEF WalkPlain, Walking, walkVars
      <3>5. CASE EndWalk  BY <3>5 DEF EndWalk, walkVars
      <3> QED  BY <1>2, <3>1, <3>2, <3>3, <3>4, <3>5
    <2>2. head = before.head /\ bin = before.bin  BY <2>1 DEF BufferInv
    <2> QED  BY <2>1, <2>2 DEF BufferInv, SlackAsBefore, Untouched, FailureNeverMixes
  <1>3. CASE Prepare \/ PackHeader \/ WriteMetadata
    BY <1>3, BufferFill
  <1>4. CASE CopyArray  BY <1>4, BufferCopy
  <1>5. CASE PadFrame  BY <1>5, BufferPad
  <1>7. CASE CopyFails
    <2>1. /\ pc = "copy" /\ pc' = "failed" /\ j < Len(arrays)
          /\ model.leaves[arrays[j + 1].leaf].at = Fresh
          /\ UNCHANGED <<call, calls, cursor, arrays, before, head, bin, size, j>>
      BY <1>7 DEF CopyFails, treeVars
    <2>2. UNCHANGED <<model, dataStart, total, NewHead>>
      BY <2>1 DEF model, dataStart, total, NewHead
    <2>3. head = NewHead /\ ManifestIntact
      <3>1. head = NewHead /\ Front  BY <2>1 DEF BufferInv
      <3> QED  BY <2>1, <3>1, FrontIsManifest
    <2>4. ManifestIntact'
      BY <2>1, <2>2, <2>3 DEF ManifestIntact, Json
    <2>5. FailureNeverMixes'
      BY <2>1, <2>2, <2>3, <2>4 DEF FailureNeverMixes
    <2>6. SlackAsBefore'
      BY <2>1, <2>2 DEF SlackAsBefore, Untouched, BufferInv, Buffer
    <2> QED  BY <2>1, <2>5, <2>6 DEF BufferInv
  <1>6. CASE UNCHANGED vars
    <2>1. UNCHANGED <<pc, call, calls, cursor, arrays, before, head, bin, size, j, prevEnd>>
      BY <1>6 DEF vars
    <2>2. UNCHANGED <<model, dataStart, total, SourcesAhead, NewHead, ManifestIntact>>
      BY <2>1 DEF model, dataStart, total, SourcesAhead, NewHead, ManifestIntact, Json
    <2>3. /\ \A l, i : Value(l, i)' = Value(l, i)
          /\ \A i : Json(i)' = Json(i)
          /\ \A p : Owned(p)' <=> Owned(p)
      BY <2>1, <2>2 DEF Value, Data, model, Json, Owned
    <2>4. /\ Front' <=> Front
          /\ GapsZero(dataStart + prevEnd)' <=> GapsZero(dataStart + prevEnd)
          /\ GapsZero(total)' <=> GapsZero(total)
      BY <2>1, <2>2, <2>3 DEF Front, GapsZero, Zero
    <2>5. /\ Copied(j)' <=> Copied(j)
          /\ Copied(Len(arrays))' <=> Copied(Len(arrays))
      BY <2>1, <2>2, <2>3 DEF Copied
    <2>6. /\ Untouched(dataStart + prevEnd)' <=> Untouched(dataStart + prevEnd)
          /\ SlackAsBefore' <=> SlackAsBefore
          /\ FailureNeverMixes' <=> FailureNeverMixes
      BY <2>1, <2>2 DEF Untouched, SlackAsBefore, FailureNeverMixes, Buffer
    <2> QED  BY <2>1, <2>2, <2>4, <2>5, <2>6 DEF BufferInv, Zero
  <1> QED  BY <1>1, <1>2, <1>3, <1>4, <1>5, <1>6, <1>7 DEF Next

Inv == TypeInv /\ LayoutInv /\ BufferInv

LEMMA Invariance == Spec => []Inv
  <1>1. Init => Inv
    BY TypeInitial, LayoutInitial
    DEF Init, Inv, BufferInv, SlackAsBefore, FailureNeverMixes
  <1>2. Inv /\ [Next]_vars => Inv'
    BY TypeInductive, LayoutInductive, BufferInductive DEF Inv
  <1> QED  BY <1>1, <1>2, PTL DEF Spec

\* No two arrays of a container share a byte, each starts aligned and ends
\* inside the data section.
THEOREM DisjointArrays == Spec => []ArraysDisjoint
  <1>1. Inv => ArraysDisjoint  BY DEF Inv, LayoutInv
  <1> QED  BY <1>1, Invariance, PTL

\* A finished container holds nothing of what its buffer held before.
THEOREM NoStaleBytes == Spec => []NoStaleByte
  <1>1. ASSUME Inv, pc = "done"
        PROVE  /\ \A p \in HEADER_SIZE .. HEADER_SIZE + model.json - 1 :
                     bin[p] = Json(p - HEADER_SIZE)
               /\ \A p \in HEADER_SIZE + model.json .. total - 1 :
                     ~Owned(p) => bin[p] = Zero
    <2>1. Front /\ GapsZero(total)  BY <1>1 DEF Inv, BufferInv
    <2>2. /\ dataStart \in Nat /\ total \in Nat /\ model.json \in Nat
          /\ HEADER_SIZE \in Nat
      BY <1>1, CallFacts DEF Inv
    <2>3. ASSUME NEW p \in HEADER_SIZE + model.json .. total - 1, ~Owned(p)
          PROVE  bin[p] = Zero
      <3>1. CASE p < dataStart
        <4>1. p \in HEADER_SIZE + model.json .. dataStart - 1  BY <2>2, <3>1
        <4> QED  BY <2>1, <4>1 DEF Front
      <3>2. CASE p >= dataStart
        <4>1. p \in dataStart .. total - 1  BY <2>2, <3>2
        <4> QED  BY <2>1, <2>3, <4>1 DEF GapsZero
      <3> QED  BY <2>2, <3>1, <3>2
    <2> QED  BY <2>1, <2>3 DEF Front
  <1>2. Inv => NoStaleByte  BY <1>1 DEF NoStaleByte
  <1> QED  BY <1>2, Invariance, PTL

\* A call that raises leaves the buffer as it was, a header decode refuses, or
\* header and manifest of the new container complete: it never mixes two
\* containers (_codec.py:133-135, 276-297).
THEOREM FailureMixesNothing == Spec => []FailureNeverMixes
  <1>1. Inv => FailureNeverMixes  BY DEF Inv, BufferInv
  <1> QED  BY <1>1, Invariance, PTL
-----------------------------------------------------------------------------
\* What the walk has made of leaf l: the place of an array in the container or
\* its copy in the store, whose contents are those the leaf had when encode
\* was called.
Placed(l) ==
    /\ model.leaves[l].kind = "array"
    /\ \E i \in DOMAIN arrays :
          arrays[i].leaf = l /\ manifest[l] = BinEntry(arrays[i].off, arrays[i].n)

Stored(l) ==
    /\ model.leaves[l].kind = "array"
    /\ \E s \in 1 .. Len(store) :
          /\ manifest[l] = BlobEntry(s)
          /\ store[s] = [i \in 0 .. model.leaves[l].n - 1 |-> Value(l, i)]

Plain(l) ==
    \/ model.leaves[l].kind \in {"ref", "reserved"} /\ manifest[l] = GivenEntry
    \/ model.leaves[l].kind = "opaque" /\ manifest[l].key = "opaque"

Described(l) == Placed(l) \/ Stored(l) \/ Plain(l)

\* A finished walk has met every leaf, and none that JSON does not take.
Complete == k = Len(model.leaves) /\ \A l \in 1 .. k : manifest[l].key # "opaque"

\* A sequence, of no particular type.
IsList(q) == \E S : q \in Seq(S)

ManifestInv ==
    /\ IsList(store)
    /\ IsList(manifest)
    /\ pc # "idle" => Len(manifest) = k /\ \A l \in 1 .. k : Described(l)
    /\ pc \in {"prepare", "pack", "meta", "copy", "done"} => Complete

\* What Append does to one.
LEMMA AppendFacts ==
    ASSUME NEW q, NEW x, IsList(q)
    PROVE  /\ IsList(Append(q, x))
           /\ Len(q) \in Nat /\ DOMAIN q = 1 .. Len(q)
           /\ Len(Append(q, x)) = Len(q) + 1
           /\ DOMAIN Append(q, x) = 1 .. Len(Append(q, x))
           /\ Append(q, x)[Len(q) + 1] = x
           /\ \A i \in 1 .. Len(q) : Append(q, x)[i] = q[i]
  <1>1. PICK S : q \in Seq(S)  BY DEF IsList
  <1> DEFINE T == S \cup {x}
  <1>2. q \in Seq(T)  BY <1>1
  <1>3. x \in T  OBVIOUS
  <1> HIDE DEF T
  <1> QED  BY <1>2, <1>3 DEF IsList

LEMMA EmptyList == IsList(<< >>)
  <1>1. << >> \in Seq({})  OBVIOUS
  <1> QED  BY <1>1 DEF IsList

\* One more leaf: what was described stays so, for any way to go on.
LEMMA WalkDescribes ==
    ASSUME TypeInv, LayoutInv, BufferInv, ManifestInv,
           WalkInline \/ WalkExternal \/ WalkPlain
    PROVE  ManifestInv'
  <1>1. /\ pc = "walk" /\ pc' = "walk" /\ k' = k + 1 /\ k < Len(model.leaves)
        /\ UNCHANGED <<call, calls, before, model>>
        /\ k \in Nat
    BY DEF WalkInline, WalkExternal, WalkPlain, Walking, Next1, walkVars, TypeInv, TypeOK, model
  <1>2. /\ Len(manifest) = k /\ \A l \in 1 .. k : Described(l)
        /\ IsList(store)
        /\ IsList(manifest)
    BY <1>1 DEF ManifestInv
  <1>3. \A l, i : Value(l, i)' = Value(l, i)
    BY <1>1 DEF Value, Data, model
  <1>4. \E e : manifest' = Append(manifest, e)
    BY DEF WalkInline, WalkExternal, WalkPlain
  <1>5. /\ IsList(manifest')
        /\ Len(manifest') = k + 1
        /\ \A l \in 1 .. k : manifest'[l] = manifest[l]
    <2>1. PICK e : manifest' = Append(manifest, e)  BY <1>4
    <2>2. /\ IsList(Append(manifest, e))
          /\ Len(Append(manifest, e)) = Len(manifest) + 1
          /\ \A i \in 1 .. Len(manifest) : Append(manifest, e)[i] = manifest[i]
      BY <1>2, AppendFacts
    <2> QED  BY <1>2, <2>1, <2>2
  <1>6. /\ IsList(store')
        /\ Len(store) \in Nat /\ Len(store') \in Nat /\ Len(store) <= Len(store')
        /\ \A s \in 1 .. Len(store) : store'[s] = store[s]
    <2>1. CASE UNCHANGED store  BY <1>2, <2>1
    <2>2. CASE \E c : store' = Append(store, c)
      <3>1. PICK c : store' = Append(store, c)  BY <2>2
      <3>2. /\ IsList(Append(store, c))
            /\ Len(store) \in Nat /\ Len(Append(store, c)) = Len(store) + 1
            /\ \A i \in 1 .. Len(store) : Append(store, c)[i] = store[i]
        BY <1>2, AppendFacts
      <3> QED  BY <3>1, <3>2
    <2> QED  BY <2>1, <2>2 DEF WalkInline, WalkExternal, WalkPlain
  <1>7. /\ Len(arrays) \in Nat /\ DOMAIN arrays = 1 .. Len(arrays)
        /\ DOMAIN arrays \subseteq DOMAIN arrays'
        /\ \A i \in DOMAIN arrays : arrays'[i] = arrays[i]
    <2>1. IsList(arrays)  BY DEF TypeInv, TypeOK, IsList
    <2>2. Len(arrays) \in Nat /\ DOMAIN arrays = 1 .. Len(arrays)
      BY DEF TypeInv, TypeOK
    <2>3. CASE UNCHANGED arrays  BY <2>2, <2>3
    <2>4. CASE \E x : arrays' = Append(arrays, x)
      <3>1. PICK x : arrays' = Append(arrays, x)  BY <2>4
      <3>2. /\ IsList(Append(arrays, x))
            /\ Len(Append(arrays, x)) = Len(arrays) + 1
            /\ \A i \in 1 .. Len(arrays) : Append(arrays, x)[i] = arrays[i]
        BY <2>1, AppendFacts
      <3>3. DOMAIN Append(arrays, x) = 1 .. Len(Append(arrays, x))
        BY <2>1, AppendFacts
      <3> QED  BY <2>2, <3>1, <3>2, <3>3
    <2> QED  BY <2>3, <2>4 DEF WalkInline, WalkExternal, WalkPlain
  <1>8. ASSUME NEW l \in 1 .. k PROVE Described(l)'
    <2>1. Described(l) /\ manifest'[l] = manifest[l]  BY <1>2, <1>5
    <2>2. CASE Placed(l)
      BY <1>1, <1>7, <2>1, <2>2 DEF Placed, Described, BinEntry
    <2>3. CASE Stored(l)
      <3>1. PICK s \in 1 .. Len(store) :
               /\ manifest[l] = BlobEntry(s)
               /\ store[s] = [i \in 0 .. model.leaves[l].n - 1 |-> Value(l, i)]
        BY <2>3 DEF Stored
      <3>2. s \in 1 .. Len(store')  BY <1>6
      <3>3. /\ manifest'[l] = BlobEntry(s)'
            /\ store'[s] = [i \in 0 .. model.leaves[l].n - 1 |-> Value(l, i)]'
        BY <1>1, <1>3, <1>6, <2>1, <3>1 DEF BlobEntry
      <3> QED  BY <1>1, <2>3, <3>2, <3>3 DEF Stored, Described
    <2>4. CASE Plain(l)
      BY <1>1, <2>1, <2>4 DEF Plain, Described, GivenEntry
    <2> QED  BY <2>1, <2>2, <2>3, <2>4 DEF Described
  <1>9. ASSUME NEW new, new = k + 1
        PROVE  Described(new)'
    <2>1. \A e : manifest' = Append(manifest, e) => manifest'[new] = e
      BY <1>2, <1>9, AppendFacts
    <2>2. CASE WalkInline
      <3> DEFINE x == [off |-> RelOffset, n |-> model.leaves[new].n, leaf |-> new]
      <3>1. /\ model.leaves[new].kind = "array"
            /\ arrays' = Append(arrays, x)
            /\ manifest' = Append(manifest, BinEntry(x.off, x.n))
        BY <1>9, <2>2 DEF WalkInline, Walking, Next1
      <3>2. /\ arrays'[Len(arrays) + 1] = x /\ Len(arrays) + 1 \in DOMAIN arrays'
        <4>1. IsList(arrays)  BY DEF TypeInv, TypeOK, IsList
        <4>2. DOMAIN Append(arrays, x) = 1 .. Len(Append(arrays, x))
          BY <4>1, AppendFacts
        <4> HIDE DEF x
        <4> QED  BY <3>1, <4>1, <4>2, AppendFacts
      <3>3. manifest'[new] = BinEntry(x.off, x.n)  BY <2>1, <3>1
      <3>4. x.leaf = new  OBVIOUS
      <3> HIDE DEF x
      <3> QED  BY <1>1, <3>1, <3>2, <3>3, <3>4 DEF Described, Placed, BinEntry
    <2>3. CASE WalkExternal
      <3> DEFINE c == [i \in 0 .. model.leaves[new].n - 1 |-> Current(new, i)]
      <3>1. /\ model.leaves[new].kind = "array"
            /\ store' = Append(store, c)
            /\ manifest' = Append(manifest, BlobEntry(Len(store')))
        BY <1>9, <2>3 DEF WalkExternal, Walking, Next1
      <3>2. \A i : Current(new, i) = Value(new, i)
        BY <1>1 DEF Current, Value, BufferInv
      <3>3. c = [i \in 0 .. model.leaves[new].n - 1 |-> Value(new, i)]
        BY <3>2
      <3> HIDE DEF c
      <3>4. Len(store') \in 1 .. Len(store') /\ store'[Len(store')] = c
        BY <1>2, <3>1, AppendFacts
      <3>5. manifest'[new] = BlobEntry(Len(store'))  BY <2>1, <3>1
      <3>6. c = [i \in 0 .. model.leaves[new].n - 1 |-> Value(new, i)]'
        BY <1>1, <1>3, <3>3
      <3> QED  BY <1>1, <3>1, <3>4, <3>5, <3>6 DEF Described, Stored, BlobEntry
    <2>4. CASE WalkPlain
      <3>1. PICK kind \in {"ref", "reserved", "opaque"} :
               /\ Walking(kind)
               /\ manifest' = Append(manifest,
                     IF kind = "opaque" THEN [key |-> "opaque", off |-> 0, n |-> 0]
                     ELSE GivenEntry)
        BY <2>4 DEF WalkPlain
      <3>2. model'.leaves[new].kind = kind
        BY <1>1, <1>9, <3>1 DEF Walking, Next1
      <3>3. manifest'[new] = IF kind = "opaque" THEN [key |-> "opaque", off |-> 0, n |-> 0]
                             ELSE GivenEntry
        BY <2>1, <3>1
      <3> QED  BY <3>2, <3>3 DEF Described, Plain, GivenEntry
    <2> QED  BY <2>2, <2>3, <2>4
  <1>10. \A l \in 1 .. k + 1 : Described(l)'
    <2>1. k + 1 \in Nat  BY <1>1
    <2>2. \A l \in 1 .. k + 1 : l \in 1 .. k \/ l = k + 1  BY <1>1
    <2> QED  BY <1>8, <1>9, <2>1, <2>2
  <1> QED  BY <1>1, <1>5, <1>6, <1>10 DEF ManifestInv

LEMMA ManifestInductive ==
    TypeInv /\ LayoutInv /\ BufferInv /\ ManifestInv /\ [Next]_vars => ManifestInv'
  <1> SUFFICES ASSUME TypeInv, LayoutInv, BufferInv, ManifestInv, [Next]_vars
               PROVE  ManifestInv'
    OBVIOUS
  <1>1. CASE NewCall
    <2>1. /\ manifest' = << >> /\ k' = 0 /\ pc' \in {"walk", "failed"} /\ UNCHANGED store
      BY <1>1 DEF NewCall, Call
    <2> QED  BY <2>1, EmptyList DEF ManifestInv
  <1>2. CASE WalkInline \/ WalkExternal \/ WalkPlain
    BY <1>2, WalkDescribes
  <1>3. ASSUME UNCHANGED <<call, calls, k, arrays, manifest, before, store>>
        PROVE  /\ \A l : Described(l)' <=> Described(l)
               /\ Complete' <=> Complete
    <2>1. UNCHANGED model /\ \A l, i : Value(l, i)' = Value(l, i)
      BY <1>3 DEF model, Value, Data
    <2>2. \A l : [i \in 0 .. model.leaves[l].n - 1 |-> Value(l, i)]'
                 = [i \in 0 .. model.leaves[l].n - 1 |-> Value(l, i)]
      BY <2>1
    <2>3. \A l : Placed(l)' <=> Placed(l)
      BY <1>3, <2>1 DEF Placed, BinEntry
    <2>4. \A l : Stored(l)' <=> Stored(l)
      BY <1>3, <2>1, <2>2 DEF Stored, BlobEntry
    <2>5. \A l : Plain(l)' <=> Plain(l)
      BY <1>3, <2>1 DEF Plain, GivenEntry
    <2> QED  BY <1>3, <2>1, <2>3, <2>4, <2>5 DEF Described, Complete
  <1>4. CASE WalkRefuse \/ EndWalk
    <2>1. /\ pc = "walk" /\ UNCHANGED <<call, calls, k, arrays, manifest, before, store>>
          /\ pc' \in {"failed", "sized", "prepare"}
      BY <1>4 DEF WalkRefuse, EndWalk, Walking, walkVars
    <2>2. pc' = "prepare" => Complete
      <3>1. ASSUME EndWalk, pc' = "prepare"
            PROVE  k = Len(model.leaves) /\ \A e \in DOMAIN manifest : manifest[e].key # "opaque"
        BY <3>1 DEF EndWalk
      <3>2. DOMAIN manifest = 1 .. k
        BY <2>1 DEF ManifestInv
      <3>3. WalkRefuse => pc' = "failed"  BY DEF WalkRefuse
      <3> QED  BY <1>4, <3>1, <3>2, <3>3 DEF Complete
    <2> QED  BY <1>3, <2>1, <2>2 DEF ManifestInv
  <1>5. CASE Prepare \/ PackHeader \/ WriteMetadata \/ CopyArray \/ CopyFails \/ PadFrame
    <2>1. /\ pc \in {"prepare", "pack", "meta", "copy"}
          /\ pc' \in {"pack", "meta", "copy", "done", "failed"}
          /\ UNCHANGED <<call, calls, k, arrays, manifest, before, store>>
      <3>1. CASE Prepare  BY <3>1 DEF Prepare, treeVars
      <3>2. CASE PackHeader  BY <3>2 DEF PackHeader, treeVars
      <3>3. CASE WriteMetadata  BY <3>3 DEF WriteMetadata, treeVars
      <3>4. CASE CopyArray  BY <3>4 DEF CopyArray, treeVars
      <3>5. CASE PadFrame  BY <3>5 DEF PadFrame, treeVars
      <3>6. CASE CopyFails  BY <3>6 DEF CopyFails, treeVars
      <3> QED  BY <1>5, <3>1, <3>2, <3>3, <3>4, <3>5, <3>6
    <2> QED  BY <1>3, <2>1 DEF ManifestInv
  <1>6. CASE UNCHANGED vars
    BY <1>3, <1>6 DEF vars, ManifestInv
  <1> QED  BY <1>1, <1>2, <1>4, <1>5, <1>6 DEF Next

LEMMA ManifestInvariance == Spec => []ManifestInv
  <1>1. Init => ManifestInv
    BY EmptyList DEF Init, ManifestInv
  <1>2. Inv /\ ManifestInv /\ [Next]_vars => ManifestInv'
    BY ManifestInductive DEF Inv
  <1> QED  BY <1>1, <1>2, Invariance, PTL DEF Spec

\* A call that is refused never gets as far as the buffer: a leaf that cannot
\* be encoded ends the walk or to_json, the length ends _prepare_output.
RefusedInv ==
    /\ pc \in {"walk", "prepare", "pack", "meta", "copy", "done"} =>
          call.min = NoThreshold \/ call.store
    /\ pc \in {"pack", "meta", "copy", "done"} => ~Refused
    /\ pc # "idle" /\ call.out # "none" /\ Refused =>
          head = before.head /\ bin = before.bin

LEMMA RefusedInductive ==
    TypeInv /\ LayoutInv /\ BufferInv /\ ManifestInv /\ RefusedInv /\ [Next]_vars => RefusedInv'
  <1> SUFFICES ASSUME TypeInv, LayoutInv, BufferInv, ManifestInv, RefusedInv, [Next]_vars
               PROVE  RefusedInv'
    OBVIOUS
  <1>1. CASE NewCall
    <2>1. PICK goal \in {"encode", "size"}, m \in Models, min \in Thresholds,
               hasStore \in BOOLEAN, out \in {"none", "usable", "unusable"} :
                  Call(goal, m, min, hasStore, out)
      BY <1>1 DEF NewCall
    <2>2. /\ pc' \in {"walk", "failed"} /\ UNCHANGED <<head, bin>>
          /\ before' = [head |-> head, bin |-> bin]
          /\ call'.min = min /\ call'.store = hasStore
          /\ pc' = "walk" => min = NoThreshold \/ hasStore
      BY <2>1 DEF Call
    <2> QED  BY <2>2 DEF RefusedInv
  <1>2. CASE WalkInline \/ WalkExternal \/ WalkRefuse \/ WalkPlain \/ EndWalk
    <2>1. /\ pc = "walk" /\ pc' \in {"walk", "failed", "sized", "prepare"}
          /\ UNCHANGED <<call, before, head, bin>>
      <3>1. CASE WalkInline  BY <3>1 DEF WalkInline, Walking, walkVars
      <3>2. CASE WalkExternal  BY <3>2 DEF WalkExternal, Walking, walkVars
      <3>3. CASE WalkRefuse  BY <3>3 DEF WalkRefuse, Walking, walkVars
      <3>4. CASE WalkPlain  BY <3>4 DEF WalkPlain, Walking, walkVars
      <3>5. CASE EndWalk  BY <3>5 DEF EndWalk, walkVars
      <3> QED  BY <1>2, <3>1, <3>2, <3>3, <3>4, <3>5
    <2>2. head = before.head /\ bin = before.bin  BY <2>1 DEF BufferInv
    <2> QED  BY <2>1, <2>2 DEF RefusedInv
  <1>3. CASE Prepare
    <2>1. /\ pc = "prepare" /\ UNCHANGED <<call, calls, cursor, before>>
          /\ head = before.head /\ bin = before.bin
      BY <1>3 DEF Prepare, treeVars, BufferInv
    <2>2. UNCHANGED <<model, total>>
      BY <2>1 DEF model, total
    <2>3. CASE pc' = "failed"
      <3>1. UNCHANGED <<head, bin>>  BY <1>3, <2>3 DEF Prepare
      <3> QED  BY <2>1, <2>3, <3>1 DEF RefusedInv
    <2>4. CASE pc' # "failed"
      <3>1. pc' = "pack" /\ size' >= total /\ call.out # "unusable"
        <4>1. total \in Nat  BY <2>1, CallFacts
        <4> QED  BY <1>3, <2>4, <4>1 DEF Prepare
      <3>2. \A l \in DOMAIN model.leaves : model.leaves[l].kind \notin {"object", "opaque"}
        <4>1. /\ k = Len(model.leaves)
              /\ \A l \in 1 .. k : Described(l) /\ manifest[l].key # "opaque"
          BY <2>1 DEF ManifestInv, Complete
        <4>2. DOMAIN model.leaves = 1 .. k
          <5>1. model.leaves \in Seq(Leaf)  BY <2>1, CallFacts, ModelFacts
          <5> QED  BY <4>1, <5>1
        <4> QED  BY <4>1, <4>2 DEF Described, Placed, Stored, Plain, GivenEntry
      <3>3. call.min = NoThreshold \/ call.store  BY <2>1 DEF RefusedInv
      <3>4. ~(size' < total)
        <4>1. total \in Nat /\ size \in Nat  BY <2>1, CallFacts
        <4>2. size' \in Nat  BY <1>3, <2>4, <4>1 DEF Prepare
        <4> QED  BY <3>1, <4>1, <4>2
      <3>5. ~Refused'
        BY <2>1, <2>2, <3>1, <3>2, <3>3, <3>4 DEF Refused
      <3> QED  BY <2>1, <3>1, <3>3, <3>5 DEF RefusedInv
    <2> QED  BY <2>3, <2>4
  <1>4. CASE PackHeader \/ WriteMetadata \/ CopyArray \/ CopyFails \/ PadFrame
    <2>1. /\ pc \in {"pack", "meta", "copy"} /\ UNCHANGED <<call, cursor, size>>
          /\ pc' \in {"meta", "copy", "done", "failed"}
      <3>1. CASE PackHeader  BY <3>1 DEF PackHeader, treeVars
      <3>2. CASE WriteMetadata  BY <3>2 DEF WriteMetadata, treeVars
      <3>3. CASE CopyArray  BY <3>3 DEF CopyArray, treeVars
      <3>4. CASE CopyFails  BY <3>4 DEF CopyFails, treeVars
      <3>5. CASE PadFrame  BY <3>5 DEF PadFrame, treeVars
      <3> QED  BY <1>4, <3>1, <3>2, <3>3, <3>4, <3>5
    <2>2. ~Refused'
      BY <2>1 DEF RefusedInv, Refused, model, total
    <2> QED  BY <2>1, <2>2 DEF RefusedInv
  <1>5. CASE UNCHANGED vars
    BY <1>5 DEF vars, RefusedInv, Refused, model, total
  <1> QED  BY <1>1, <1>2, <1>3, <1>4, <1>5 DEF Next

\* encode never writes behind the container, nor one byte of the buffer of a
\* call it refuses (_codec.py:119-135).
THEOREM SlackIsUntouched == Spec => []SlackUntouched
  <1>1. Init => RefusedInv  BY DEF Init, RefusedInv
  <1>2. Inv /\ ManifestInv /\ RefusedInv /\ [Next]_vars => RefusedInv'
    BY RefusedInductive DEF Inv
  <1>3. Inv /\ RefusedInv => SlackUntouched
    BY DEF Inv, BufferInv, SlackAsBefore, Untouched, RefusedInv, SlackUntouched
  <1> QED  BY <1>1, <1>2, <1>3, Invariance, ManifestInvariance, PTL DEF Spec

\* A finished container: decode takes its header, its manifest and every array
\* of its own; what the application gave as a reference is its affair.
LEMMA FinishedIsAccepted ==
    ASSUME Inv, ManifestInv, pc = "done"
    PROVE  /\ HeaderAccepted(head, size)
           /\ head.schema = OurSchema /\ head.version = model.version
           /\ ManifestIntact
           /\ DOMAIN manifest = DOMAIN model.leaves
           /\ \A l \in DOMAIN manifest :
                 /\ Placed(l) => RefAccepted(Ref(manifest[l]), head, size)
                 /\ Described(l) /\ manifest[l].key # "opaque"
  <1>1. /\ model.json \in Nat /\ dataStart \in Nat /\ total \in Nat /\ cursor \in Nat
        /\ size \in Nat /\ HEADER_SIZE \in Nat
        /\ HEADER_SIZE + model.json <= dataStart /\ dataStart + cursor <= total
        /\ FRAME_SIZE <= total /\ total % FRAME_SIZE = 0 /\ dataStart % FRAME_SIZE = 0
        /\ model \in Models
    BY CallFacts DEF Inv
  <1>2. /\ size >= total
        /\ head = [known |-> TRUE, schema |-> OurSchema, version |-> model.version,
                   metadata |-> model.json, dataStart |-> dataStart,
                   dataBytes |-> cursor, encoded |-> total]
        /\ head = NewHead /\ Front
    BY DEF Inv, BufferInv, NewHead
  <1>3. HeaderAccepted(head, size)
    <2>1. FRAME_SIZE \in Nat /\ HEADER_SIZE <= FRAME_SIZE  BY ContainerAssumption
    <2>2. size >= HEADER_SIZE /\ total <= size  BY <1>1, <1>2, <2>1
    <2> QED  BY <1>1, <1>2, <2>2 DEF HeaderAccepted, Fits
  <1>4. ManifestIntact
    BY <1>2, FrontIsManifest DEF Inv
  <1>5. DOMAIN manifest = 1 .. k /\ DOMAIN model.leaves = 1 .. k
    <2>1. PICK S : manifest \in Seq(S)  BY DEF ManifestInv, IsList
    <2>2. Len(manifest) = k /\ k = Len(model.leaves)  BY DEF ManifestInv, Complete
    <2>3. model.leaves \in Seq(Leaf)  BY <1>1, ModelFacts
    <2> QED  BY <2>1, <2>2, <2>3
  <1>6. ASSUME NEW l \in 1 .. k, Placed(l)
        PROVE  RefAccepted(Ref(manifest[l]), head, size)
    <2>1. PICK i \in DOMAIN arrays : manifest[l] = BinEntry(arrays[i].off, arrays[i].n)
      BY <1>6 DEF Placed
    <2> DEFINE o == arrays[i].off
               n == arrays[i].n
    <2>2. o \in Nat /\ n \in Nat  BY ArrayFacts DEF Inv
    <2>3. o + n <= cursor  BY DEF Inv, LayoutInv, ArraysDisjoint
    <2>4. Ref(manifest[l]) = [offset |-> o, nbytes |-> n, itemsize |-> 1, items |-> n,
                              negativeDim |-> FALSE]
      BY <2>1 DEF Ref, BinEntry
    <2> HIDE DEF o, n
    <2>5. n % 1 = 0 /\ n * 1 = n  BY <2>2
    <2>6. dataStart + o + n <= size  BY <1>1, <1>2, <2>2, <2>3
    <2> QED  BY <1>2, <2>2, <2>3, <2>4, <2>5, <2>6
             DEF RefAccepted, EndsInData, EndsInBuffer
  <1>7. \A l \in 1 .. k : Described(l) /\ manifest[l].key # "opaque"
    BY DEF ManifestInv, Complete
  <1>8. head.schema = OurSchema /\ head.version = model.version
    BY <1>2
  <1> QED  BY <1>3, <1>4, <1>5, <1>6, <1>7, <1>8

\* A finished container decodes to what the leaves held when encode was
\* called, inline, in the store, or as views of the buffer itself
\* (_codec.py:268-313, 343-392).
THEOREM FinishedDecodes == Spec => []RoundTrip
  <1>1. ASSUME Inv, ManifestInv, pc = "done", SourcesAhead,
               NEW l \in DOMAIN model.leaves, model.leaves[l].kind = "array"
        PROVE  /\ ~RestoreRaises(manifest[l])
               /\ Restored(manifest[l]) = [i \in 0 .. model.leaves[l].n - 1 |-> Value(l, i)]
    <2>1. /\ Placed(l) => RefAccepted(Ref(manifest[l]), head, size)
          /\ Placed(l) \/ Stored(l)
      BY <1>1, FinishedIsAccepted DEF Described, Plain
    <2>2. CASE Placed(l)
      <3>1. PICK i \in DOMAIN arrays :
               arrays[i].leaf = l /\ manifest[l] = BinEntry(arrays[i].off, arrays[i].n)
        BY <2>2 DEF Placed
      <3>2. head.dataStart = dataStart /\ Copied(Len(arrays))
        BY <1>1 DEF Inv, BufferInv, NewHead
      <3>3. i \in 1 .. Len(arrays) /\ arrays[i].n = model.leaves[l].n
        BY <1>1, <3>1, ArrayFacts DEF Inv, LayoutInv
      <3>4. \A b \in 0 .. model.leaves[l].n - 1 :
               bin[dataStart + arrays[i].off + b] = Value(l, b)
        BY <1>1, <3>1, <3>2, <3>3 DEF Copied
      <3>5. Restored(manifest[l])
               = [b \in 0 .. model.leaves[l].n - 1 |-> bin[dataStart + arrays[i].off + b]]
        BY <3>1, <3>2, <3>3 DEF Restored, BinEntry
      <3>6. ~RestoreRaises(manifest[l])
        BY <2>1, <2>2, <3>1 DEF RestoreRaises, BinEntry
      <3> QED  BY <3>4, <3>5, <3>6
    <2>3. CASE Stored(l)
      <3>1. PICK s \in 1 .. Len(store) :
               /\ manifest[l] = BlobEntry(s)
               /\ store[s] = [i \in 0 .. model.leaves[l].n - 1 |-> Value(l, i)]
        BY <2>3 DEF Stored
      <3> QED  BY <3>1 DEF RestoreRaises, Restored, BlobEntry
    <2> QED  BY <2>1, <2>2, <2>3
  <1>2. Inv /\ ManifestInv => RoundTrip
    BY <1>1, FinishedIsAccepted DEF RoundTrip
  <1> QED  BY <1>2, Invariance, ManifestInvariance, PTL
-----------------------------------------------------------------------------
\* The steps behind a header that was accepted.
Behind == {"schema", "manifest", "restore", "returned"}

Sane ==
    /\ step \in Behind \cup {"idle", "header", "raised"}
    /\ step # "idle" => request \in Request
    /\ restored \in Seq([key : {"view"}, from : Int, to : Int]
                        \cup [key : {"unresolved", "array", "plain"}])
    /\ step \notin {"restore", "returned", "raised"} => restored = << >> /\ asked = {}
    /\ step = "restore" => Len(restored) <= Len(binary.entries)

\* What has been checked by the time of a step.
Checked ==
    /\ step \in Behind \/ restored # << >> => HeaderAccepted(info, binary.nbytes)
    /\ request.api = "decode" /\ (step \in {"manifest", "restore", "returned"} \/ asked # {}) =>
          info.schema = request.schema /\ info.version = request.version
    /\ step = "schema" => request.api = "decode"
    /\ \A e \in asked : e.store = request.store /\ BlobAccepted(e.ref)

DecodeInv == Sane /\ Checked /\ ViewsInside /\ TypedIsComplete

LEMMA DecodeInitial == DecodeInit => DecodeInv
  BY DEF DecodeInit, DecodeInv, Sane, Checked, ViewsInside, TypedIsComplete, Behind

LEMMA RequestTypes ==
    ASSUME request \in Request
    PROVE  /\ request.api \in {"peek", "decode_auto", "decode"}
           /\ request.store \in {"none", "ours", "other"}
           /\ binary.nbytes \in Nat /\ binary.entries \in Seq(Entry)
           /\ info.metadata \in Nat /\ info.dataStart \in Nat
           /\ info.dataBytes \in Nat /\ info.encoded \in Nat
  BY DEF Request, Binary, Header, binary, info

\* An accepted reference in an accepted container.
LEMMA AcceptedIsInside ==
    ASSUME NEW h \in Header, NEW nbytes \in Nat, HeaderAccepted(h, nbytes),
           NEW v \in Reference,
           RefAccepted(v, h, nbytes)
    PROVE  /\ HEADER_SIZE + h.metadata <= h.dataStart + v.offset
           /\ h.dataStart + v.offset <= h.dataStart + v.offset + v.nbytes
           /\ h.dataStart + v.offset + v.nbytes <= h.dataStart + h.dataBytes
           /\ h.dataStart + v.offset + v.nbytes <= h.encoded
           /\ h.encoded <= nbytes
           /\ h.dataStart + v.offset \in Int
           /\ h.dataStart + v.offset + v.nbytes \in Int
  BY ContainerAssumption
  DEF Header, Reference, HeaderAccepted, RefAccepted, Fits, EndsInData, EndsInBuffer

LEMMA DecodeInductive == DecodeInv /\ [DecodeNext]_decodeVars => DecodeInv'
  <1> SUFFICES ASSUME DecodeInv, [DecodeNext]_decodeVars PROVE DecodeInv'
    OBVIOUS
  <1> USE DEF DecodeInv, Sane, Checked, TypedIsComplete, Behind, Raise, GoOn
  <1>0. ASSUME NEW key, Restoring(key), NEW x
        PROVE  Len(Append(restored, x)) <= Len(binary.entries)
    BY <1>0, RequestTypes DEF Restoring, Leaf1
  <1>1. ASSUME NEW r \in Request, Start(r) PROVE DecodeInv'
    BY <1>1 DEF Start, ViewsInside
  <1>2. CASE ParseHeader
    BY <1>2, RequestTypes DEF ParseHeader, AfterHeader, ViewsInside, binary, info
  <1>3. CASE CheckSchema
    BY <1>3 DEF CheckSchema, ViewsInside, binary, info
  <1>4. CASE ParseManifest
    BY <1>4 DEF ParseManifest, ViewsInside, binary, info
  <1>5. CASE RestoreView
    <2> USE DEF RestoreView, Restoring
    <2>1. CASE UNCHANGED restored
      BY <1>5, <2>1 DEF ViewsInside, binary, info
    <2>2. CASE /\ RefAccepted(leaf.ref, info, binary.nbytes)
               /\ restored' = Append(restored, ViewOf(leaf.ref))
               /\ UNCHANGED <<step, error>>
      <3>1. leaf \in Entry /\ leaf.key = "bin" /\ info \in Header /\ binary.nbytes \in Nat
        BY <1>5, RequestTypes DEF leaf, Leaf1, Request, Binary, binary, info
      <3>2. leaf.ref \in Reference
        BY <3>1 DEF Entry
      <3> DEFINE w == ViewOf(leaf.ref)
      <3>3. /\ HEADER_SIZE + info.metadata <= w.from /\ w.from <= w.to
            /\ w.to <= info.dataStart + info.dataBytes
            /\ w.to <= info.encoded /\ info.encoded <= binary.nbytes
            /\ w \in [key : {"view"}, from : Int, to : Int]
        BY <1>5, <2>2, <3>1, <3>2, AcceptedIsInside DEF ViewOf
      <3> HIDE DEF w
      <3>4. restored' = Append(restored, w) /\ UNCHANGED <<step, request, asked>>
        BY <1>5, <2>2 DEF w
      <3>5. /\ restored' \in Seq([key : {"view"}, from : Int, to : Int]
                                \cup [key : {"unresolved", "array", "plain"}])
            /\ \A i \in DOMAIN restored' :
                  restored'[i] = w \/ (i \in DOMAIN restored /\ restored'[i] = restored[i])
        BY <3>3, <3>4
      <3>6. ViewsInside'
        BY <3>3, <3>4, <3>5 DEF ViewsInside, binary, info
      <3>7. Len(restored') <= Len(binary.entries)
        BY <1>0, <1>5, <3>4
      <3> QED
        BY <1>5, <3>4, <3>5, <3>6, <3>7 DEF binary, info
    <2> QED BY <1>5, <2>1, <2>2
  <1>6. CASE RestoreBlob
    <2> USE DEF RestoreBlob, Restoring
    <2>1. CASE UNCHANGED <<restored, asked>>
      BY <1>6, <2>1 DEF ViewsInside, binary, info
    <2>2. CASE /\ restored' = Append(restored, [key |-> "unresolved"])
               /\ UNCHANGED <<step, asked>>
      <3>1. ViewsInside'
        BY <1>6, <2>2 DEF ViewsInside, binary, info
      <3>2. Len(restored') <= Len(binary.entries)
        BY <1>0, <1>6, <2>2
      <3> QED BY <1>6, <2>2, <3>1, <3>2 DEF binary, info
    <2>3. CASE /\ BlobAccepted(leaf.ref) /\ StoreMatches(leaf) /\ asked' = asked \cup {leaf}
               /\ \/ restored' = Append(restored, [key |-> "array"]) /\ UNCHANGED step
                  \/ UNCHANGED restored /\ step' = "raised"
      <3>1. CASE restored' = Append(restored, [key |-> "array"]) /\ UNCHANGED step
        <4>1. ViewsInside'
          BY <1>6, <3>1 DEF ViewsInside, binary, info
        <4>2. Len(restored') <= Len(binary.entries)
          BY <1>0, <1>6, <3>1
        <4> QED BY <1>6, <2>3, <3>1, <4>1, <4>2 DEF StoreMatches, binary, info
      <3>2. CASE UNCHANGED restored /\ step' = "raised"
        BY <1>6, <2>3, <3>2 DEF StoreMatches, ViewsInside, binary, info
      <3> QED BY <2>3, <3>1, <3>2
    <2> QED BY <1>6, <2>1, <2>2, <2>3
  <1>7. CASE RestorePlain
    <2>1. ViewsInside'
      BY <1>7 DEF RestorePlain, Restoring, ViewsInside, binary, info
    <2>2. Len(restored') <= Len(binary.entries)
      BY <1>0, <1>7 DEF RestorePlain
    <2> QED BY <1>7, <2>1, <2>2 DEF RestorePlain, Restoring, binary, info
  <1>8. CASE Finish
    <2>1. UNCHANGED <<request, restored, asked>> /\ step = "restore"
      BY <1>8 DEF Finish
    <2>2. ViewsInside'
      BY <2>1 DEF ViewsInside, binary, info
    <2>3. CASE step' = "raised"
      BY <2>1, <2>2, <2>3 DEF binary, info
    <2>4. CASE step' = "returned"
      <3>1. request.api = "decode" => ~Unresolved
        BY <1>8, <2>4 DEF Finish
      <3>2. Len(restored) + 1 \notin DOMAIN binary.entries
        BY <1>8 DEF Finish, Leaf1
      <3>3. Len(restored) = Len(binary.entries)
        <4>1. binary.entries \in Seq(Entry) /\ Len(restored) \in Nat
          BY <2>1, RequestTypes
        <4>2. Len(restored) <= Len(binary.entries)
          BY <2>1
        <4> QED BY <3>2, <4>1, <4>2
      <3>4. TypedIsComplete'
        BY <2>1, <3>1, <3>3 DEF Unresolved, binary, info
      <3> QED BY <2>1, <2>2, <2>4, <3>4 DEF binary, info
    <2> QED BY <1>8, <2>3, <2>4 DEF Finish
  <1>9. CASE UNCHANGED decodeVars
    BY <1>9 DEF decodeVars, ViewsInside, binary, info
  <1> QED
    BY <1>1, <1>2, <1>3, <1>4, <1>5, <1>6, <1>7, <1>8, <1>9 DEF DecodeNext, DecodeStep

LEMMA DecodeInvariance == DecodeSpec => []DecodeInv
  BY DecodeInitial, DecodeInductive, PTL DEF DecodeSpec

\* No view leaves the data section, whatever the header and the references of
\* a buffer claim (_format.py:100-114, _codec.py:356-377).
THEOREM ViewsStayInside == DecodeSpec => []ViewsInside
  BY DecodeInvariance, PTL DEF DecodeInv

\* A store gets only references of its kind, from a container of the schema
\* decode was called with (_codec.py:334, 486-497).
THEOREM StoreIsAskedRightly == DecodeSpec => []StoreAskedRightly
  <1>1. DecodeInv => StoreAskedRightly
    <2>1. ASSUME NEW e \in asked, DecodeInv
          PROVE  e.ref.nbytes = e.ref.itemsize * e.ref.items /\ e.ref.offset >= 0
      BY <2>1 DEF DecodeInv, Checked, BlobAccepted
    <2> QED
      BY <2>1 DEF DecodeInv, Checked, StoreAskedRightly
  <1> QED BY <1>1, DecodeInvariance, PTL

\* A typed decode returns no BlobRef in place of an array (_codec.py:499).
THEOREM TypedDecodeIsComplete == DecodeSpec => []TypedIsComplete
  <1>1. DecodeInv => TypedIsComplete
    BY DEF DecodeInv
  <1> QED BY <1>1, DecodeInvariance, PTL
-----------------------------------------------------------------------------
\* A decode of the encoder's own buffer: what it was asked, and what it may
\* have met so far.  The encoder waits while it runs.
Known(why) ==
    \/ why \in {"store", "validation"}
    \/ why = "store required" /\ request.store = "none"
    \/ /\ why = "format" /\ Leaf1 \in DOMAIN manifest
       /\ \/ Leaf1 \in GivenLeaves
          \/ manifest[Leaf1].key = "blob" /\ request.store = "other"

OwnInv ==
    step # "idle" /\ calls > 0 =>
        /\ pc = "done"
        /\ \E g \in [GivenLeaves -> Given] : request.binary = OwnBinary(g)
        /\ request.schema = OurSchema /\ request.version = model.version
        /\ request.api \in {"decode_auto", "decode"}
        /\ request.store \in {"none", "ours", "other"}
        /\ \A i \in DOMAIN restored : restored[i].key = "unresolved" => request.store = "none"
        /\ step = "raised" => Known(error)

PairInv ==
    /\ OwnInv
    /\ IsList(restored)
    /\ step = "idle" => restored = << >>
    /\ step # "idle" => request.api \in {"peek", "decode_auto", "decode"}

\* What a reader sees is the same as long as the encoder waits.
LEMMA SameBinary ==
    ASSUME UNCHANGED vars
    PROVE  /\ UNCHANGED <<pc, calls, model, manifest, GivenLeaves>>
           /\ \A g : OwnBinary(g)' = OwnBinary(g)
  <1>1. UNCHANGED <<pc, calls, model, manifest, head, size>> /\ (ManifestIntact' <=> ManifestIntact)
    BY DEF vars, model, ManifestIntact, Json
  <1>2. GivenLeaves' = GivenLeaves
    BY <1>1 DEF GivenLeaves
  <1>3. ASSUME NEW g PROVE OwnBinary(g)' = OwnBinary(g)
    BY <1>1, <1>2 DEF OwnBinary
  <1> QED  BY <1>1, <1>2, <1>3

\* The fields of the reference to an entry.
LEMMA ReferenceFacts ==
    ASSUME NEW e
    PROVE  /\ ReferenceOf(e).usable
           /\ ReferenceOf(e).offset = IF e.key = "bin" THEN e.off ELSE 0
           /\ ReferenceOf(e).nbytes = e.n /\ ReferenceOf(e).items = e.n
           /\ ReferenceOf(e).itemsize = 1 /\ ReferenceOf(e).negativeDim = FALSE
  BY DEF ReferenceOf

\* The next leaf of a manifest encode wrote, one of its own making.
LEMMA OwnLeaf ==
    ASSUME Inv, ManifestInv, pc = "done",
           NEW g \in [GivenLeaves -> Given], binary = OwnBinary(g),
           Leaf1 \in DOMAIN binary.entries, Leaf1 \notin GivenLeaves
    PROVE  /\ leaf.key = "bin" =>
                 leaf.ref.usable /\ RefAccepted(leaf.ref, info, binary.nbytes)
           /\ leaf.key = "blob" =>
                 /\ leaf.store = "ours" /\ BlobAccepted(leaf.ref)
                 /\ manifest[Leaf1].key = "blob"
           /\ leaf.key \in {"bin", "blob"}
  <1> DEFINE l == Leaf1
             e == manifest[l]
  <1>1. l \in DOMAIN manifest /\ leaf = EntryOf(e) /\ info = head /\ binary.nbytes = size
    BY DEF OwnBinary, leaf, info
  <1>2. l \in DOMAIN model.leaves /\ Described(l) /\ e.key # "opaque"
        /\ (Placed(l) => RefAccepted(Ref(e), head, size))
    BY <1>1, FinishedIsAccepted
  <1>g. e.key # "given"
    BY <1>1 DEF GivenLeaves
  <1> HIDE DEF l
  <1>3. CASE Placed(l)
    <2>1. PICK i \in DOMAIN arrays : e = BinEntry(arrays[i].off, arrays[i].n)
      BY <1>3 DEF Placed
    <2>2. leaf = [key |-> "bin", ref |-> ReferenceOf(e)]
      BY <1>1, <2>1 DEF EntryOf, BinEntry
    <2>3. RefAccepted(ReferenceOf(e), head, size) /\ ReferenceOf(e).usable
      <3> DEFINE o == arrays[i].off
                 n == arrays[i].n
      <3>1. Ref(e) = [offset |-> o, nbytes |-> n, itemsize |-> 1, items |-> n,
                      negativeDim |-> FALSE]
        BY <2>1 DEF Ref, BinEntry
      <3>2. /\ ReferenceOf(e).usable /\ ReferenceOf(e).negativeDim = FALSE
            /\ ReferenceOf(e).offset = o /\ ReferenceOf(e).nbytes = n
            /\ ReferenceOf(e).itemsize = 1 /\ ReferenceOf(e).items = n
        <4>1. e.key = "bin" /\ e.off = o /\ e.n = n  BY <2>1 DEF BinEntry
        <4> HIDE DEF e, o, n
        <4>2. ReferenceOf(e).usable /\ ReferenceOf(e).offset = o
          BY <4>1, ReferenceFacts, Zenon
        <4> QED  BY <4>1, <4>2, ReferenceFacts, Zenon
      <3>3. RefAccepted(Ref(e), head, size)  BY <1>2, <1>3
      <3> HIDE DEF o, n, e
      <3> QED  BY <3>1, <3>2, <3>3 DEF RefAccepted, EndsInData, EndsInBuffer
    <2> QED  BY <1>1, <2>2, <2>3
  <1>5. CASE Stored(l)
    <2>1. PICK s \in 1 .. Len(store) : e = BlobEntry(s)  BY <1>5 DEF Stored
    <2>2. leaf = [key |-> "blob", ref |-> ReferenceOf(e), store |-> "ours"]
      BY <1>1, <2>1 DEF EntryOf, BlobEntry
    <2>3. /\ ReferenceOf(e).usable /\ ReferenceOf(e).negativeDim = FALSE
          /\ ReferenceOf(e).offset = 0 /\ ReferenceOf(e).nbytes = 0
          /\ ReferenceOf(e).itemsize = 1 /\ ReferenceOf(e).items = 0
      <3>1. e.key = "blob" /\ e.off = s /\ e.n = 0  BY <2>1 DEF BlobEntry
      <3> HIDE DEF e
      <3>2. "blob" # "bin"  OBVIOUS
      <3>3. ReferenceOf(e).offset = 0
        BY <3>1, <3>2, ReferenceFacts
      <3> QED  BY <3>1, <3>3, ReferenceFacts, Zenon
    <2>4. e.key = "blob"  BY <2>1 DEF BlobEntry
    <2> QED  BY <2>2, <2>3, <2>4 DEF BlobAccepted, l
  <1>6. CASE Plain(l)
    <2>1. FALSE  BY <1>2, <1>g, <1>6 DEF Plain, GivenEntry
    <2> QED  BY <2>1
  <1> QED  BY <1>2, <1>3, <1>5, <1>6 DEF Described

\* A step of such a decode.
LEMMA OwnStep ==
    ASSUME Inv, ManifestInv, PairInv, DecodeStep, UNCHANGED vars
    PROVE  PairInv'
  <1>1. /\ UNCHANGED request /\ step # "idle" /\ step' # "idle"
        /\ UNCHANGED <<pc, calls, model, manifest, GivenLeaves>>
        /\ \A g : OwnBinary(g)' = OwnBinary(g)
    <2>1. UNCHANGED request /\ step # "idle" /\ step' # "idle"
      <3> USE DEF Restoring, Raise, GoOn
      <3>1. CASE ParseHeader
        <4>1. request.api \in {"peek", "decode_auto", "decode"}
          BY <3>1 DEF ParseHeader, PairInv
        <4> QED  BY <3>1, <4>1 DEF ParseHeader, AfterHeader
      <3>2. CASE CheckSchema  BY <3>2 DEF CheckSchema
      <3>3. CASE ParseManifest  BY <3>3 DEF ParseManifest
      <3>4. CASE RestoreView  BY <3>4 DEF RestoreView
      <3>5. CASE RestoreBlob  BY <3>5 DEF RestoreBlob
      <3>6. CASE RestorePlain  BY <3>6 DEF RestorePlain
      <3>7. CASE Finish  BY <3>7 DEF Finish
      <3> QED  BY <3>1, <3>2, <3>3, <3>4, <3>5, <3>6, <3>7 DEF DecodeStep
    <2> QED  BY <2>1, SameBinary
  <1>2. IsList(restored')
    <2>1. IsList(restored) /\ \A x : IsList(Append(restored, x))
      BY AppendFacts DEF PairInv
    <2>2. UNCHANGED restored \/ \E x : restored' = Append(restored, x)
      BY DEF DecodeStep, ParseHeader, CheckSchema, ParseManifest, RestoreView, RestoreBlob,
             RestorePlain, Finish
    <2> QED  BY <2>1, <2>2
  <1>3. ASSUME calls > 0
        PROVE  OwnInv'
    <2> DEFINE Resolved(q) == \A i \in DOMAIN q :
                                 q[i].key = "unresolved" => request.store = "none"
    <2>1. /\ pc = "done"
          /\ request.schema = OurSchema /\ request.version = model.version
          /\ request.api \in {"decode_auto", "decode"}
          /\ request.store \in {"none", "ours", "other"}
          /\ Resolved(restored)
          /\ step = "raised" => Known(error)
      BY <1>1, <1>3 DEF PairInv, OwnInv
    <2>g. PICK g \in [GivenLeaves -> Given] : binary = OwnBinary(g)
      BY <1>1, <1>3 DEF PairInv, OwnInv, binary
    <2>e. DOMAIN binary.entries = DOMAIN manifest
      BY <2>g DEF OwnBinary
    <2>2. SUFFICES Resolved(restored') /\ (step' = "raised" => Known(error)')
      <3>1. \E h \in [GivenLeaves' -> Given] : request'.binary = OwnBinary(h)'
        BY <1>1, <2>g DEF binary
      <3> QED  BY <1>1, <1>3, <2>1, <3>1 DEF OwnInv, vars
    <2>k. ASSUME UNCHANGED restored, step' = "raised",
                 \/ error' \in {"store", "validation"}
                 \/ error' = "store required" /\ request.store = "none"
                 \/ /\ error' = "format" /\ Leaf1 \in DOMAIN manifest
                    /\ \/ Leaf1 \in GivenLeaves
                       \/ manifest[Leaf1].key = "blob" /\ request.store = "other"
          PROVE  Known(error)'
      BY <1>1, <2>k DEF Known, Leaf1
    <2>3. /\ HeaderAccepted(info, binary.nbytes)
          /\ info.schema = OurSchema /\ info.version = model.version
          /\ binary.top = "object"
      BY <2>1, <2>g, FinishedIsAccepted DEF OwnBinary, info
    <2>4. ASSUME NEW x, x.key = "unresolved" => request.store = "none"
          PROVE  Resolved(Append(restored, x))
      <3>1. IsList(restored)  BY DEF PairInv
      <3>2. /\ Len(restored) \in Nat /\ DOMAIN restored = 1 .. Len(restored)
            /\ DOMAIN Append(restored, x) = 1 .. Len(restored) + 1
            /\ Append(restored, x)[Len(restored) + 1] = x
            /\ \A i \in 1 .. Len(restored) : Append(restored, x)[i] = restored[i]
        BY <3>1, AppendFacts
      <3>3. ASSUME NEW i \in DOMAIN Append(restored, x)
            PROVE  Append(restored, x)[i] = x \/
                   (i \in DOMAIN restored /\ Append(restored, x)[i] = restored[i])
        BY <3>2
      <3> QED  BY <2>1, <2>4, <3>3
    <2> HIDE DEF Resolved
    <2>5. CASE ParseHeader
      BY <1>1, <2>1, <2>3, <2>5 DEF ParseHeader, GoOn, AfterHeader
    <2>6. CASE CheckSchema
      BY <2>1, <2>3, <2>6 DEF CheckSchema, GoOn
    <2>7. CASE ParseManifest
      BY <2>1, <2>3, <2>7 DEF ParseManifest, GoOn
    <2>8. CASE RestoreView
      <3>1. step = "restore" /\ Leaf1 \in DOMAIN manifest
        BY <2>8, <2>e DEF RestoreView, Restoring
      <3>2. CASE leaf.ref.usable /\ RefAccepted(leaf.ref, info, binary.nbytes)
        <4>1. restored' = Append(restored, ViewOf(leaf.ref)) /\ step' = step
          BY <2>8, <3>2 DEF RestoreView, GoOn
        <4>2. ViewOf(leaf.ref).key = "view"  BY DEF ViewOf
        <4> QED  BY <2>4, <3>1, <4>1, <4>2
      <3>3. CASE ~(leaf.ref.usable /\ RefAccepted(leaf.ref, info, binary.nbytes))
        <4>1. UNCHANGED restored /\ step' = "raised" /\ error' = "format"
          BY <2>8, <3>3 DEF RestoreView, Raise
        <4>2. Leaf1 \in GivenLeaves
          BY <2>1, <2>8, <2>g, <3>3, OwnLeaf DEF RestoreView, Restoring
        <4> QED  BY <2>1, <2>k, <3>1, <4>1, <4>2
      <3> QED  BY <3>2, <3>3
    <2>9. CASE RestoreBlob
      <3>1. step = "restore" /\ Leaf1 \in DOMAIN manifest /\ leaf.key = "blob"
        BY <2>9, <2>e DEF RestoreBlob, Restoring
      <3>2. Leaf1 \in GivenLeaves \/
               (BlobAccepted(leaf.ref) /\ leaf.store = "ours" /\ manifest[Leaf1].key = "blob")
        BY <2>1, <2>9, <2>g, OwnLeaf DEF RestoreBlob, Restoring
      <3>3. CASE ~BlobAccepted(leaf.ref)
        <4>1. UNCHANGED restored /\ step' = "raised" /\ error' = "format"
          BY <2>9, <3>3 DEF RestoreBlob, Raise
        <4> QED  BY <2>1, <2>k, <3>1, <3>2, <3>3, <4>1
      <3>4. CASE BlobAccepted(leaf.ref) /\ request.store = "none"
        <4>1. restored' = Append(restored, [key |-> "unresolved"]) /\ step' = step
          BY <2>9, <3>4 DEF RestoreBlob, GoOn
        <4> QED  BY <2>4, <3>1, <3>4, <4>1
      <3>5. CASE BlobAccepted(leaf.ref) /\ request.store # "none" /\ ~StoreMatches(leaf)
        <4>1. UNCHANGED restored /\ step' = "raised" /\ error' = "format"
          BY <2>9, <3>5 DEF RestoreBlob, Raise
        <4>2. Leaf1 \in GivenLeaves \/
                 (manifest[Leaf1].key = "blob" /\ request.store = "other")
          BY <2>1, <3>2, <3>5 DEF StoreMatches
        <4> QED  BY <2>1, <2>k, <3>1, <4>1, <4>2
      <3>6. CASE BlobAccepted(leaf.ref) /\ request.store # "none" /\ StoreMatches(leaf)
        <4>1. \/ restored' = Append(restored, [key |-> "array"]) /\ step' = step
              \/ UNCHANGED restored /\ step' = "raised" /\ error' = "store"
          BY <2>9, <3>6 DEF RestoreBlob, GoOn, Raise
        <4>2. Resolved(Append(restored, [key |-> "array"]))  BY <2>4
        <4> QED  BY <2>1, <2>k, <3>1, <4>1, <4>2
      <3> QED  BY <3>3, <3>4, <3>5, <3>6
    <2>10. CASE RestorePlain
      <3>1. /\ restored' = Append(restored, [key |-> "plain"])
            /\ step = "restore" /\ step' = step
        BY <2>10 DEF RestorePlain, Restoring
      <3> QED  BY <2>4, <3>1
    <2>11. CASE Finish
      <3>1. Unresolved => request.store = "none"
        BY <2>1 DEF Unresolved, Resolved
      <3>2. UNCHANGED restored  BY <2>11 DEF Finish
      <3>3. \/ step' = "raised" /\ error' \in {"store required", "validation"}
               /\ (error' = "store required" => Unresolved)
            \/ step' = "returned"
        BY <2>3, <2>11 DEF Finish, Raise, GoOn
      <3> QED  BY <2>1, <2>k, <3>1, <3>2, <3>3
    <2> QED
      BY <2>5, <2>6, <2>7, <2>8, <2>9, <2>10, <2>11 DEF DecodeStep
  <1> QED  BY <1>1, <1>2, <1>3 DEF PairInv, OwnInv

LEMMA PairInductive ==
    ASSUME Inv, ManifestInv, PairInv, [PairNext]_<<vars, decodeVars>>
    PROVE  PairInv'
  <1>1. CASE Encoding
    BY <1>1 DEF Encoding, decodeVars, PairInv, OwnInv
  <1>2. CASE DecodeOwn
    <2>1. /\ step = "idle" /\ pc = "done" /\ UNCHANGED <<vars, restored>> /\ step' = "header"
          /\ \E g \in [GivenLeaves -> Given], api \in {"decode_auto", "decode"},
                st \in {"none", "ours", "other"} :
                request' = [api |-> api, binary |-> OwnBinary(g), schema |-> OurSchema,
                            version |-> model.version, store |-> st]
      BY <1>2 DEF DecodeOwn, Start
    <2>2. /\ UNCHANGED <<pc, model, GivenLeaves>>
          /\ \A g : OwnBinary(g)' = OwnBinary(g)
      BY <2>1, SameBinary
    <2>3. \E h \in [GivenLeaves' -> Given] : request'.binary = OwnBinary(h)'
      BY <2>1, <2>2
    <2> QED  BY <2>1, <2>2, <2>3 DEF PairInv, OwnInv
  <1>3. CASE DecodeOther
    BY <1>3 DEF DecodeOther, Start, vars, PairInv, OwnInv
  <1>4. CASE Decoding
    BY <1>4, OwnStep DEF Decoding
  <1>5. CASE UNCHANGED <<vars, decodeVars>>
    <2>1. /\ UNCHANGED <<pc, calls, model, manifest, GivenLeaves>>
          /\ \A g : OwnBinary(g)' = OwnBinary(g)
      BY <1>5, SameBinary
    <2>2. Known(error)' <=> Known(error)
      BY <1>5, <2>1 DEF decodeVars, Known, Leaf1
    <2> QED  BY <1>5, <2>1, <2>2 DEF decodeVars, PairInv, OwnInv
  <1> QED  BY <1>1, <1>2, <1>3, <1>4, <1>5 DEF PairNext

\* The decoder leaves the encoder alone.
LEMMA PairEncodes == PairSpec => Spec
  <1>1. [PairNext]_<<vars, decodeVars>> => [Next]_vars
    BY DEF PairNext, Encoding, DecodeOwn, DecodeOther, Decoding, vars
  <1> QED  BY <1>1, PTL DEF PairSpec, PairInit, Spec

\* decode takes every container encode returns: no check of the header, of the
\* manifest or of an array of encode's own makes it raise.  What can are the
\* store, the model, a missing or other store, and a reference the application
\* gave (_format.py:53-114, _codec.py:78-91, 325-392, 486-502).
THEOREM OwnContainersDecode == PairSpec => []EncodedIsAccepted
  <1>2. PairInit => PairInv
    BY EmptyList DEF PairInit, DecodeInit, PairInv, OwnInv
  <1>3. Inv /\ ManifestInv /\ PairInv /\ [PairNext]_<<vars, decodeVars>> => PairInv'
    BY PairInductive
  <1>4. PairInv => EncodedIsAccepted
    BY DEF PairInv, OwnInv, EncodedIsAccepted, Known
  <1> QED  BY <1>2, <1>3, <1>4, PairEncodes, Invariance, ManifestInvariance, PTL
           DEF PairSpec

\* What encode leaves in its buffer is a buffer the decoder model is about.
LEMMA OwnBinaryType ==
    ASSUME Inv, ManifestInv, pc = "done", NEW g \in [GivenLeaves -> Given]
    PROVE  OwnBinary(g) \in Binary
  <1>1. head \in Header /\ size \in Nat /\ k \in Nat
    BY DEF Inv, TypeInv, TypeOK
  <1>2. DOMAIN manifest = 1 .. k
    <2>1. PICK S : manifest \in Seq(S)  BY DEF ManifestInv, IsList
    <2>2. Len(manifest) = k  BY DEF ManifestInv
    <2> QED  BY <2>1, <2>2
  <1>3. ASSUME NEW l \in 1 .. k, l \notin GivenLeaves
        PROVE  EntryOf(manifest[l]) \in Entry
    <2> DEFINE e == manifest[l]
    <2>1. \/ e.key = "bin" /\ e.off \in Nat /\ e.n \in Nat
          \/ e.key = "blob" /\ e.off \in Int /\ e.n = 0
      <3>1. Described(l) /\ e.key # "opaque"
        BY <1>2, FinishedIsAccepted
      <3>2. CASE Placed(l)
        <4>1. PICK i \in DOMAIN arrays : e = BinEntry(arrays[i].off, arrays[i].n)
          BY <3>2 DEF Placed
        <4>2. arrays[i].off \in Nat /\ arrays[i].n \in Nat  BY ArrayFacts DEF Inv
        <4> QED  BY <4>1, <4>2 DEF BinEntry
      <3>3. CASE \E off \in Int : e = BlobEntry(off)
        BY <3>3 DEF BlobEntry
      <3>4. Stored(l) => \E off \in Int : e = BlobEntry(off)
        <4>1. \A s \in 1 .. Len(store) : s \in Int
          <5>1. Len(store) \in Nat  BY DEF ManifestInv, IsList
          <5> QED  BY <5>1
        <4> QED  BY <4>1 DEF Stored
      <3>5. ~Plain(l)
        BY <1>2, <1>3, <3>1 DEF Plain, GivenLeaves, GivenEntry
      <3> QED  BY <3>1, <3>2, <3>3, <3>4, <3>5 DEF Described
    <2> HIDE DEF e
    <2>2. ReferenceOf(e) \in Reference
      <3> DEFINE o == IF e.key = "bin" THEN e.off ELSE 0
      <3>1. ReferenceOf(e) = [usable |-> TRUE, offset |-> o, nbytes |-> e.n, itemsize |-> 1,
                              items |-> e.n, negativeDim |-> FALSE]
        BY DEF ReferenceOf
      <3>2. o \in Int /\ e.n \in Int  BY <2>1
      <3> HIDE DEF o
      <3> QED  BY <3>1, <3>2 DEF Reference
    <2>3. CASE e.key = "bin"
      <3>1. EntryOf(e) = [key |-> "bin", ref |-> ReferenceOf(e)]  BY <2>3 DEF EntryOf
      <3> QED  BY <2>2, <3>1 DEF Entry, e
    <2>4. CASE e.key = "blob"
      <3>1. EntryOf(e) = [key |-> "blob", ref |-> ReferenceOf(e), store |-> "ours"]
        BY <2>4 DEF EntryOf
      <3> QED  BY <2>2, <3>1 DEF Entry, e
    <2> QED  BY <2>1, <2>3, <2>4
  <1>4. OwnBinary(g).entries \in Seq(Entry)
    <2> DEFINE f == [l \in 1 .. k |-> IF l \in GivenLeaves THEN g[l] ELSE EntryOf(manifest[l])]
    <2>1. \A l \in 1 .. k : l \in GivenLeaves => g[l] \in Entry
      BY EncodeDecodeAssumption
    <2>2. f \in [1 .. k -> Entry]  BY <1>3, <2>1
    <2>3. OwnBinary(g).entries = f  BY <1>2 DEF OwnBinary
    <2> HIDE DEF f
    <2>4. f \in Seq(Entry)  BY <1>1, <2>2
    <2> QED  BY <2>3, <2>4
  <1> QED  BY <1>1, <1>4 DEF OwnBinary, Binary

\* Together with the encoder the decoder does what it does alone: its buffers
\* are some of those DecodeSpec is about, so the theorems above hold here too.
THEOREM PairDecodes == PairSpec => DecodeSpec
  <1>1. ASSUME Inv, ManifestInv, [PairNext]_<<vars, decodeVars>>
        PROVE  [DecodeNext]_decodeVars
    <2>1. CASE Encoding  BY <2>1 DEF Encoding
    <2>2. CASE DecodeOwn
      <3>1. PICK g \in [GivenLeaves -> Given], api \in {"decode_auto", "decode"},
                 st \in {"none", "ours", "other"} :
               Start([api |-> api, binary |-> OwnBinary(g), schema |-> OurSchema,
                      version |-> model.version, store |-> st])
        BY <2>2 DEF DecodeOwn
      <3>2. OwnBinary(g) \in Binary  BY <1>1, <2>2, OwnBinaryType DEF DecodeOwn
      <3>3. model.version \in Nat /\ OurSchema \in Nat
        BY <1>1, <2>2, CallFacts DEF DecodeOwn, Inv, OurSchema
      <3>4. [api |-> api, binary |-> OwnBinary(g), schema |-> OurSchema,
             version |-> model.version, store |-> st] \in Request
        BY <3>2, <3>3 DEF Request
      <3> QED  BY <3>1, <3>4 DEF DecodeNext
    <2>3. CASE DecodeOther
      <3>1. PICK r \in {[api |-> api, binary |-> b, schema |-> OurSchema,
                         version |-> 0, store |-> st] :
                           b \in Containers, api \in {"peek", "decode_auto", "decode"},
                           st \in {"none", "ours", "other"}} :
               Start(r)
        BY <2>3 DEF DecodeOther
      <3>2. r \in Request
        BY <3>1, EncodeDecodeAssumption DEF Request, OurSchema
      <3> QED  BY <3>1, <3>2 DEF DecodeNext
    <2>4. CASE Decoding  BY <2>4 DEF Decoding, DecodeNext
    <2>5. CASE UNCHANGED <<vars, decodeVars>>  BY <2>5
    <2> QED  BY <1>1, <2>1, <2>2, <2>3, <2>4, <2>5 DEF PairNext
  <1>2. PairInit => DecodeInit  BY DEF PairInit
  <1> QED  BY <1>1, <1>2, PairEncodes, Invariance, ManifestInvariance, PTL
           DEF PairSpec, DecodeSpec
=============================================================================
