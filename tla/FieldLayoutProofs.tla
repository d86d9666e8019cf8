-------------------------- MODULE FieldLayoutProofs --------------------------
(***************************************************************************)
(* Proofs about FieldLayout, for any sets of fields, any static starts and *)
(* hierarchies of any depth: the layout is sound at every moment of it,    *)
(* and the collector finds every reference of an object.                   *)
(***************************************************************************)
EXTENDS FieldLayout, FiniteSetTheorems, TLAPS

Fields == [type : FieldTypes, idx : Nat]
Gaps == [start : Nat, size : {1, 2, 4}]

-----------------------------------------------------------------------------
\* The inductive invariant of LayoutSound.

Types ==
    /\ super.depth \in 0..Depth /\ super.size \in Nat /\ super.size >= ObjectHeader
    /\ super.bitmap # WalkSuper => super.bitmap \subseteq 0 .. BitmapBits - 1
    /\ klass.fields \subseteq Fields /\ IsFiniteSet(klass.fields)
    /\ klass.static \in BOOLEAN /\ klass.reference \in BOOLEAN /\ klass.start \in Nat
    /\ todo \subseteq klass.fields
    /\ step \in {"idle", "refs", "shuffle"} /\ width \in {1, 2, 4, 8} /\ offset \in Nat
    /\ gaps \subseteq Gaps
    /\ placed \subseteq [field : klass.fields, at : Nat]
    /\ {p.field : p \in placed} = klass.fields \ todo

\* Where the linker is; a class is laid out from the end of its superclass.
Places ==
    /\ step \in {"idle", "refs"} => width = 8
    /\ step = "idle" => klass = NoKlass /\ todo = {} /\ placed = {} /\ gaps = {}
    /\ step # "idle" => /\ klass.start >= ObjectHeader /\ klass.start <= offset
                        /\ ~klass.static => klass.start = super.size
                        /\ super.depth < Depth
    /\ klass.reference => ~klass.static /\ super = Object /\ klass.fields # {}
                          /\ \A f \in klass.fields : f.type = "ref"

\* After the references there is no reference left, and no field that is larger
\* than what is being shuffled.
Sorted == step = "shuffle" => \A f \in todo : f.type # "ref" /\ FieldSize(f) <= width

\* What was laid out before ends with the superclass.
Inherited == \A s \in super.layout : s.at \in Nat /\ s.size \in Nat /\ s.at + s.size <= super.size

\* The fields ps lie apart from each other between lo and hi.
Disjoint(ps, lo, hi) ==
    /\ \A p \in ps : /\ IsAligned(FieldSize(p.field), p.at)
                     /\ lo <= p.at /\ p.at + FieldSize(p.field) <= hi
    /\ \A p, q \in ps : p # q => Apart(p.at, FieldSize(p.field), q.at, FieldSize(q.field))

\* The gaps gs are free, between lo and hi and beside the fields ps.
Free(gs, ps, lo, hi) ==
    \A g \in gs :
        /\ IsAligned(g.size, g.start) /\ lo <= g.start /\ g.start + g.size <= hi
        /\ \A h \in gs \ {g} : Apart(g.start, g.size, h.start, h.size)
        /\ \A p \in ps : Apart(g.start, g.size, p.at, FieldSize(p.field))

Sound == /\ Types /\ Places /\ Sorted /\ Inherited
         /\ Disjoint(placed, klass.start, offset) /\ Free(gaps, placed, klass.start, offset)

-----------------------------------------------------------------------------
\* Sizes, rounding and gaps.

LEMMA SizeIs == ASSUME NEW f \in Fields
                PROVE  /\ FieldSize(f) \in {1, 2, 4, 8}
                       /\ f.type = "ref" => FieldSize(f) = 4
<1>1. f.type \in FieldTypes
  BY DEF Fields
<1>2. FieldTypes = {"boolean", "byte", "char", "short", "int", "long", "float", "double", "ref"}
  BY DEF FieldTypes, PrimitiveSizes
<1>3. CASE f.type = "ref"
  BY <1>3 DEF FieldSize, RefSize
<1>4. CASE f.type # "ref"
  <2>1. FieldSize(f) = PrimitiveSizes[f.type]
    BY <1>4 DEF FieldSize
  <2>2. f.type \in {"boolean", "byte", "char", "short", "int", "long", "float", "double"}
    BY <1>1, <1>2, <1>4
  <2>3. QED BY <2>1, <2>2, <1>4 DEF PrimitiveSizes
<1>5. QED BY <1>3, <1>4

LEMMA RoundUpIs == ASSUME NEW x \in Nat, NEW n \in {1, 2, 4, 8}
                   PROVE  /\ RoundUp(x, n) \in Nat /\ RoundUp(x, n) % n = 0
                          /\ x <= RoundUp(x, n) /\ RoundUp(x, n) < x + n
<1>1. CASE n = 1  BY <1>1 DEF RoundUp
<1>2. CASE n = 2  BY <1>2 DEF RoundUp
<1>3. CASE n = 4  BY <1>3 DEF RoundUp
<1>4. CASE n = 8  BY <1>4 DEF RoundUp
<1>5. QED BY <1>1, <1>2, <1>3, <1>4

LEMMA PieceIs == ASSUME NEW a \in Nat, NEW b \in Nat, a < b
                 PROVE  /\ PieceAt(a, b) \in {1, 2, 4} /\ IsAligned(PieceAt(a, b), a)
                        /\ a + PieceAt(a, b) <= b
BY DEF PieceAt, IsAligned

LEMMA GapsAre == ASSUME NEW a \in Nat, NEW b \in Nat
                 PROVE  /\ AddFieldGap(a, b) \subseteq Gaps
                        /\ \A g \in AddFieldGap(a, b) :
                              /\ IsAligned(g.size, g.start) /\ a <= g.start /\ g.start + g.size <= b
                              /\ \A h \in AddFieldGap(a, b) \ {g} : Apart(g.start, g.size, h.start, h.size)
<1>1. ASSUME NEW g \in AddFieldGap(a, b)
      PROVE  /\ g \in Gaps /\ g.start \in Cuts(a, b) /\ g = [start |-> g.start, size |-> PieceAt(g.start, b)]
             /\ IsAligned(g.size, g.start) /\ a <= g.start /\ g.start + g.size <= b
  <2>1. PICK x \in Cuts(a, b) : g = [start |-> x, size |-> PieceAt(x, b)]
    BY DEF AddFieldGap
  <2>2. x \in Nat /\ a <= x /\ x < b
    BY DEF Cuts
  <2>3. PieceAt(x, b) \in {1, 2, 4} /\ IsAligned(PieceAt(x, b), x) /\ x + PieceAt(x, b) <= b
    BY <2>2, PieceIs
  <2>4. QED BY <2>1, <2>2, <2>3 DEF Gaps
<1>2. ASSUME NEW g \in AddFieldGap(a, b), NEW h \in AddFieldGap(a, b), g # h
      PROVE  Apart(g.start, g.size, h.start, h.size)
  <2>1. g.start # h.start /\ g.start \in Cuts(a, b) /\ h.start \in Cuts(a, b)
    BY <1>1, <1>2
  <2>2. /\ g.size = PieceAt(g.start, b) /\ h.size = PieceAt(h.start, b)
        /\ g.size \in Nat /\ h.size \in Nat /\ g.start \in Nat /\ h.start \in Nat
    BY <1>1 DEF Gaps
  <2>3. g.start < h.start => g.start + g.size <= h.start
    BY <2>1, <2>2 DEF Cuts
  <2>4. h.start < g.start => h.start + h.size <= g.start
    BY <2>1, <2>2 DEF Cuts
  <2>5. QED BY <2>1, <2>2, <2>3, <2>4 DEF Apart
<1>3. QED BY <1>1, <1>2

LEMMA ApartSym == ASSUME NEW a \in Nat, NEW m \in Nat, NEW b \in Nat, NEW n \in Nat
                  PROVE  Apart(a, m, b, n) <=> Apart(b, n, a, m)
BY DEF Apart

\* A gap at the end of what is laid out is free.
LEMMA Widened ==
    ASSUME NEW gs \in SUBSET Gaps, NEW K \in SUBSET Fields, NEW ps \in SUBSET [field : K, at : Nat],
           NEW lo \in Nat, NEW hi \in Nat, NEW r \in Nat, lo <= hi, hi <= r,
           Disjoint(ps, lo, hi), Free(gs, ps, lo, hi)
    PROVE  /\ Disjoint(ps, lo, r)
           /\ gs \union AddFieldGap(hi, r) \subseteq Gaps
           /\ Free(gs \union AddFieldGap(hi, r), ps, lo, r)
<1> DEFINE new == AddFieldGap(hi, r)
<1>0. \A p \in ps : p.at \in Nat /\ FieldSize(p.field) \in Nat
  BY SizeIs
<1>1. /\ new \subseteq Gaps
      /\ \A g \in new :
            /\ IsAligned(g.size, g.start) /\ hi <= g.start /\ g.start + g.size <= r
            /\ \A h \in new \ {g} : Apart(g.start, g.size, h.start, h.size)
  BY GapsAre
<1>2. /\ \A g \in gs : g.start \in Nat /\ g.size \in Nat
      /\ \A g \in new : g.start \in Nat /\ g.size \in Nat
  BY <1>1 DEF Gaps
<1> HIDE DEF new
<1>3. Disjoint(ps, lo, r)
  BY <1>0 DEF Disjoint
<1>4. ASSUME NEW g \in gs, NEW h \in new PROVE Apart(g.start, g.size, h.start, h.size) /\ Apart(h.start, h.size, g.start, g.size)
  <2>1. g.start + g.size <= hi /\ hi <= h.start
    BY <1>1 DEF Free
  <2>2. QED BY <2>1, <1>2 DEF Apart
<1>5. ASSUME NEW g \in new, NEW p \in ps PROVE Apart(g.start, g.size, p.at, FieldSize(p.field))
  <2>1. p.at + FieldSize(p.field) <= hi /\ hi <= g.start
    BY <1>1 DEF Disjoint
  <2>2. QED BY <2>1, <1>0, <1>2 DEF Apart
<1>6. ASSUME NEW g \in gs
      PROVE  /\ IsAligned(g.size, g.start) /\ lo <= g.start /\ g.start + g.size <= r
             /\ \A h \in (gs \union new) \ {g} : Apart(g.start, g.size, h.start, h.size)
             /\ \A p \in ps : Apart(g.start, g.size, p.at, FieldSize(p.field))
  BY <1>2, <1>4 DEF Free
<1>7. ASSUME NEW g \in new
      PROVE  /\ IsAligned(g.size, g.start) /\ lo <= g.start /\ g.start + g.size <= r
             /\ \A h \in (gs \union new) \ {g} : Apart(g.start, g.size, h.start, h.size)
             /\ \A p \in ps : Apart(g.start, g.size, p.at, FieldSize(p.field))
  BY <1>1, <1>2, <1>4, <1>5
<1>8. Free(gs \union new, ps, lo, r)
  BY <1>6, <1>7 DEF Free
<1>9. QED BY <1>1, <1>3, <1>8 DEF new

\* A field placed at the end of what is laid out.
LEMMA Appended ==
    ASSUME NEW gs \in SUBSET Gaps, NEW K \in SUBSET Fields, NEW ps \in SUBSET [field : K, at : Nat],
           NEW lo \in Nat, NEW hi \in Nat, lo <= hi, Disjoint(ps, lo, hi), Free(gs, ps, lo, hi),
           NEW f \in Fields, IsAligned(FieldSize(f), hi), NEW n \in Nat, n = FieldSize(f)
    PROVE  /\ Disjoint(ps \union {[field |-> f, at |-> hi]}, lo, hi + n)
           /\ Free(gs, ps \union {[field |-> f, at |-> hi]}, lo, hi + n)
<1> DEFINE new == [field |-> f, at |-> hi]
<1>0. \A p \in ps : p.at \in Nat /\ FieldSize(p.field) \in Nat
  BY SizeIs
<1>1. new.field = f /\ new.at = hi
  OBVIOUS
<1>2. \A g \in gs : g.start \in Nat /\ g.size \in Nat
  BY DEF Gaps
<1> HIDE DEF new
<1>3. \A p \in ps : Apart(p.at, FieldSize(p.field), hi, n) /\ Apart(hi, n, p.at, FieldSize(p.field))
  BY <1>0 DEF Disjoint, Apart
<1>4. \A g \in gs : Apart(g.start, g.size, hi, n)
  BY <1>2 DEF Free, Apart
<1>5. Disjoint(ps \union {new}, lo, hi + n)
  BY <1>0, <1>1, <1>3 DEF Disjoint
<1>6. Free(gs, ps \union {new}, lo, hi + n)
  BY <1>1, <1>2, <1>4 DEF Free
<1>7. QED BY <1>5, <1>6 DEF new

\* A field placed at the start of a free gap; what is left of the gap is free.
LEMMA Filled ==
    ASSUME NEW gs \in SUBSET Gaps, NEW K \in SUBSET Fields, NEW ps \in SUBSET [field : K, at : Nat],
           NEW lo \in Nat, NEW hi \in Nat, Disjoint(ps, lo, hi), Free(gs, ps, lo, hi),
           NEW f \in Fields, NEW top \in gs, FieldSize(f) <= top.size, NEW n \in Nat, n = FieldSize(f)
    PROVE  LET left == (gs \ {top}) \union AddFieldGap(top.start + n, top.start + top.size)
               now == ps \union {[field |-> f, at |-> top.start]}
           IN  left \subseteq Gaps /\ Disjoint(now, lo, hi) /\ Free(left, now, lo, hi)
<1> DEFINE new == [field |-> f, at |-> top.start]
           cut == AddFieldGap(top.start + n, top.start + top.size)
<1>0. \A p \in ps : p.at \in Nat /\ FieldSize(p.field) \in Nat
  BY SizeIs
<1>1. new.field = f /\ new.at = top.start
  OBVIOUS
<1>2. top.start \in Nat /\ top.size \in {1, 2, 4} /\ \A g \in gs : g.start \in Nat /\ g.size \in Nat
  BY DEF Gaps
<1>3. n \in {1, 2, 4} /\ IsAligned(n, top.start)
  <2>1. n \in {1, 2, 4} /\ n <= top.size
    BY <1>2, SizeIs
  <2>2. IsAligned(top.size, top.start)
    BY DEF Free
  <2>3. top.size = 1 => n = 1
    BY <2>1
  <2>4. top.size = 2 => n \in {1, 2}
    BY <2>1
  <2>5. top.start % 1 = 0 /\ (top.start % 4 = 0 => top.start % 2 = 0)
    BY <1>2
  <2>6. QED BY <1>2, <2>1, <2>2, <2>3, <2>4, <2>5 DEF IsAligned
<1>4. /\ cut \subseteq Gaps
      /\ \A g \in cut :
            /\ IsAligned(g.size, g.start) /\ top.start + n <= g.start /\ g.start + g.size <= top.start + top.size
            /\ \A h \in cut \ {g} : Apart(g.start, g.size, h.start, h.size)
  <2>1. top.start + n \in Nat /\ top.start + top.size \in Nat
    BY <1>2
  <2>2. QED BY <2>1, GapsAre
<1>5. \A g \in cut : g.start \in Nat /\ g.size \in Nat
  BY <1>4 DEF Gaps
<1> HIDE DEF new, cut
<1>6. /\ lo <= top.start /\ top.start + top.size <= hi
      /\ \A p \in ps : Apart(top.start, top.size, p.at, FieldSize(p.field))
      /\ \A g \in gs \ {top} : Apart(top.start, top.size, g.start, g.size)
  BY DEF Free
<1>7. \A p \in ps : Apart(p.at, FieldSize(p.field), top.start, n) /\ Apart(top.start, n, p.at, FieldSize(p.field))
  BY <1>0, <1>2, <1>6 DEF Apart
<1>8. Disjoint(ps \union {new}, lo, hi)
  BY <1>0, <1>1, <1>2, <1>3, <1>6, <1>7 DEF Disjoint
<1>9. ASSUME NEW g \in gs \ {top}
      PROVE  /\ Apart(g.start, g.size, top.start, n)
             /\ \A h \in cut : Apart(g.start, g.size, h.start, h.size) /\ Apart(h.start, h.size, g.start, g.size)
  BY <1>2, <1>4, <1>5, <1>6 DEF Apart
<1>10. ASSUME NEW g \in cut
       PROVE  /\ Apart(g.start, g.size, top.start, n)
              /\ \A p \in ps : Apart(g.start, g.size, p.at, FieldSize(p.field))
              /\ lo <= g.start /\ g.start + g.size <= hi
  BY <1>0, <1>2, <1>4, <1>5, <1>6 DEF Apart
<1>11. ASSUME NEW g \in gs \ {top}
       PROVE  /\ IsAligned(g.size, g.start) /\ lo <= g.start /\ g.start + g.size <= hi
              /\ \A h \in ((gs \ {top}) \union cut) \ {g} : Apart(g.start, g.size, h.start, h.size)
              /\ \A p \in ps \union {new} : Apart(g.start, g.size, p.at, FieldSize(p.field))
  BY <1>1, <1>9 DEF Free
<1>12. ASSUME NEW g \in cut
       PROVE  /\ IsAligned(g.size, g.start) /\ lo <= g.start /\ g.start + g.size <= hi
              /\ \A h \in ((gs \ {top}) \union cut) \ {g} : Apart(g.start, g.size, h.start, h.size)
              /\ \A p \in ps \union {new} : Apart(g.start, g.size, p.at, FieldSize(p.field))
  BY <1>1, <1>4, <1>9, <1>10
<1>13. Free((gs \ {top}) \union cut, ps \union {new}, lo, hi)
  BY <1>11, <1>12 DEF Free
<1>14. (gs \ {top}) \union cut \subseteq Gaps
  BY <1>4
<1>15. QED BY <1>8, <1>13, <1>14 DEF new, cut

-----------------------------------------------------------------------------
\* Sound is inductive.

LEMMA SoundInit == LayoutInit => Sound
<1> SUFFICES ASSUME LayoutInit PROVE Sound
  OBVIOUS
<1>1. Types
  BY ShapesAreFields, FS_EmptySet DEF LayoutInit, Types, Object, NoKlass, ObjectHeader, BitmapBits
<1>2. Places /\ Sorted /\ Inherited
  BY DEF LayoutInit, Places, Sorted, Inherited, NoKlass, Object
<1>3. Disjoint(placed, klass.start, offset) /\ Free(gaps, placed, klass.start, offset)
  BY DEF LayoutInit, Disjoint, Free
<1>4. QED BY <1>1, <1>2, <1>3 DEF Sound

LEMMA SoundLinkFields ==
    ASSUME Sound, NEW fs, NEW static \in BOOLEAN, NEW start, NEW reference \in BOOLEAN,
           LinkFields(fs, static, start, reference), fs \in Shapes[super.depth + 1] \/ fs \in Shapes[1],
           start \in Nat, start >= ObjectHeader, ~static => start = super.size
    PROVE  Sound'
<1>1. super.depth \in 0..Depth /\ super.depth < Depth /\ Depth \in Nat
  BY ShapesAreFields DEF Sound, Types, LinkFields
<1>2. fs \subseteq Fields /\ IsFiniteSet(fs)
  BY <1>1, ShapesAreFields DEF Fields
<1>3. /\ klass' = [fields |-> fs, static |-> static, reference |-> reference, start |-> start]
      /\ todo' = fs /\ offset' = start /\ gaps' = {} /\ placed' = {}
      /\ step' = "refs" /\ width' = 8 /\ super' = super
  BY DEF LinkFields
<1>4. Types'
  BY <1>2, <1>3 DEF Sound, Types
<1>5. Places'
  <2>1. start <= start
    OBVIOUS
  <2>2. QED BY <1>1, <1>3, <2>1 DEF Places, LinkFields
<1>6. Sorted' /\ Inherited'
  BY <1>3 DEF Sound, Sorted, Inherited
<1>7. (Disjoint(placed, klass.start, offset) /\ Free(gaps, placed, klass.start, offset))'
  BY <1>3 DEF Disjoint, Free
<1>8. QED BY <1>4, <1>5, <1>6, <1>7 DEF Sound

\* What a placed field does to the types; s is where it went.
LEMMA PlacedTypes ==
    ASSUME Sound, step # "idle", NEW f \in todo, NEW s \in Nat, todo' = todo \ {f},
           placed' = placed \union {[field |-> f, at |-> s]},
           gaps' \subseteq Gaps, offset' \in Nat, klass.start <= offset',
           UNCHANGED <<super, klass, step, width>>
    PROVE  Types' /\ Places' /\ Sorted' /\ Inherited'
<1>1. placed' \subseteq [field : klass.fields, at : Nat]
  BY DEF Sound, Types
<1>2. {p.field : p \in placed'} = klass.fields \ todo'
  <2>1. {p.field : p \in placed'} = {p.field : p \in placed} \union {f}
    <3> DEFINE new == [field |-> f, at |-> s]
    <3>1. placed' = placed \union {new} /\ new.field = f
      OBVIOUS
    <3> HIDE DEF new
    <3>2. QED BY <3>1
  <2>2. {p.field : p \in placed} = klass.fields \ todo /\ todo \subseteq klass.fields
    BY DEF Sound, Types
  <2>3. QED BY <2>1, <2>2
<1>3. Types'
  BY <1>1, <1>2 DEF Sound, Types
<1>4. Places' /\ Sorted' /\ Inherited'
  BY DEF Sound, Places, Sorted, Inherited
<1>5. QED BY <1>3, <1>4

LEMMA SoundPlaceReference == ASSUME Sound, PlaceReference PROVE Sound'
<1>1. PICK f \in todo : /\ f.type = "ref" /\ placed' = placed \union {[field |-> f, at |-> RefSlot]}
                        /\ todo' = todo \ {f}
  BY DEF PlaceReference
<1>2. /\ gaps' = GapsRounded(RefSize) /\ offset' = RefSlot + RefSize
      /\ step = "refs" /\ UNCHANGED <<super, klass, step, width>>
  BY DEF PlaceReference
<1>3. f \in Fields /\ FieldSize(f) = 4
  <2>1. f \in Fields
    BY DEF Sound, Types
  <2>2. QED BY <1>1, <2>1, SizeIs
<1>4. RefSlot \in Nat /\ offset <= RefSlot /\ RefSlot % 4 = 0 /\ RefSlot + 4 \in Nat
  <2>1. offset \in Nat /\ 4 \in {1, 2, 4, 8} /\ RefSlot = RoundUp(offset, 4)
    BY DEF Sound, Types, RefSlot, Rounded, RefSize
  <2>2. RefSlot \in Nat /\ offset <= RefSlot /\ RefSlot % 4 = 0
    BY <2>1, RoundUpIs
  <2>3. QED BY <2>2
<1>5. /\ gaps \in SUBSET Gaps /\ klass.fields \in SUBSET Fields
      /\ placed \in SUBSET [field : klass.fields, at : Nat]
      /\ klass.start \in Nat /\ offset \in Nat /\ klass.start <= offset
      /\ Disjoint(placed, klass.start, offset) /\ Free(gaps, placed, klass.start, offset)
  BY <1>2 DEF Sound, Types, Places
<1>6. gaps' = gaps \union AddFieldGap(offset, RefSlot)
  BY <1>2 DEF GapsRounded, RefSlot
<1>7. /\ Disjoint(placed, klass.start, RefSlot) /\ gaps' \subseteq Gaps
      /\ Free(gaps', placed, klass.start, RefSlot)
  BY <1>4, <1>5, <1>6, Widened
<1>8. klass.start <= RefSlot /\ IsAligned(FieldSize(f), RefSlot) /\ offset' = RefSlot + 4
  BY <1>2, <1>3, <1>4, <1>5 DEF IsAligned, RefSize
<1>9. Disjoint(placed', klass.start, offset') /\ Free(gaps', placed', klass.start, offset')
  BY <1>1, <1>3, <1>4, <1>5, <1>7, <1>8, Appended
<1>10. Types' /\ Places' /\ Sorted' /\ Inherited'
  <2>1. offset' \in Nat /\ klass.start <= offset'
    BY <1>4, <1>5, <1>8
  <2>2. QED BY <1>1, <1>2, <1>4, <1>7, <2>1, PlacedTypes
<1>11. klass' = klass
  BY <1>2
<1>12. QED BY <1>9, <1>10, <1>11 DEF Sound

LEMMA SoundShuffleForward == ASSUME Sound, ShuffleForward PROVE Sound'
<1> DEFINE open == GapsRounded(width)
<1>1. PICK f \in todo : /\ FieldSize(f) >= width /\ todo' = todo \ {f}
                        /\ \/ \E top \in open :
                                 /\ top.size >= width
                                 /\ placed' = placed \union {[field |-> f, at |-> top.start]}
                                 /\ offset' = Rounded(width)
                                 /\ gaps' = (open \ {top})
                                       \union AddFieldGap(top.start + width, top.start + top.size)
                           \/ /\ placed' = placed \union {[field |-> f, at |-> Rounded(width)]}
                              /\ offset' = Rounded(width) + width
                              /\ gaps' = open
  BY DEF ShuffleForward
<1>2. step = "shuffle" /\ UNCHANGED <<super, klass, step, width>>
  BY DEF ShuffleForward
<1>3. f \in Fields /\ FieldSize(f) = width /\ width \in {1, 2, 4, 8}
  <2>1. f \in Fields /\ width \in {1, 2, 4, 8} /\ FieldSize(f) <= width
    BY <1>2 DEF Sound, Types, Sorted
  <2>2. FieldSize(f) \in {1, 2, 4, 8}
    BY <2>1, SizeIs
  <2>3. QED BY <1>1, <2>1, <2>2
<1> DEFINE r == Rounded(width)
<1>4. r \in Nat /\ offset <= r /\ r % width = 0 /\ r + width \in Nat
  <2>1. r \in Nat /\ offset <= r /\ r % width = 0
    BY <1>3, RoundUpIs DEF Sound, Types, Rounded
  <2>2. QED BY <1>3, <2>1
<1>5. /\ gaps \in SUBSET Gaps /\ klass.fields \in SUBSET Fields
      /\ placed \in SUBSET [field : klass.fields, at : Nat]
      /\ klass.start \in Nat /\ offset \in Nat /\ klass.start <= offset
      /\ Disjoint(placed, klass.start, offset) /\ Free(gaps, placed, klass.start, offset)
  BY <1>2 DEF Sound, Types, Places
<1>6. open = gaps \union AddFieldGap(offset, r)
  BY DEF GapsRounded
<1> HIDE DEF open, r
<1>7. /\ Disjoint(placed, klass.start, r) /\ open \subseteq Gaps
      /\ Free(open, placed, klass.start, r)
  BY <1>4, <1>5, <1>6, Widened
<1>8. klass.start <= r /\ IsAligned(FieldSize(f), r)
  BY <1>3, <1>4, <1>5 DEF IsAligned
<1>9. CASE \E top \in open : /\ top.size >= width
                             /\ placed' = placed \union {[field |-> f, at |-> top.start]}
                             /\ offset' = r
                             /\ gaps' = (open \ {top}) \union AddFieldGap(top.start + width, top.start + top.size)
  <2>1. PICK top \in open : /\ top.size >= width
                            /\ placed' = placed \union {[field |-> f, at |-> top.start]}
                            /\ offset' = r
                            /\ gaps' = (open \ {top}) \union AddFieldGap(top.start + width, top.start + top.size)
    BY <1>9
  <2>2. FieldSize(f) <= top.size /\ width \in Nat /\ top.start \in Nat
    BY <1>3, <1>7, <2>1 DEF Gaps
  <2>3. gaps' \subseteq Gaps /\ Disjoint(placed', klass.start, offset') /\ Free(gaps', placed', klass.start, offset')
    <3>1. open \in SUBSET Gaps /\ top \in open /\ f \in Fields /\ width = FieldSize(f) /\ width \in Nat
      BY <1>3, <1>7, <2>1, <2>2
    <3>2. /\ klass.fields \in SUBSET Fields /\ placed \in SUBSET [field : klass.fields, at : Nat]
          /\ klass.start \in Nat /\ r \in Nat
          /\ Disjoint(placed, klass.start, r) /\ Free(open, placed, klass.start, r)
      BY <1>4, <1>5, <1>7
    <3>3. LET left == (open \ {top}) \union AddFieldGap(top.start + width, top.start + top.size)
              now == placed \union {[field |-> f, at |-> top.start]}
          IN  left \subseteq Gaps /\ Disjoint(now, klass.start, r) /\ Free(left, now, klass.start, r)
      BY <2>2, <3>1, <3>2, Filled
    <3>4. QED BY <2>1, <3>3
  <2>4. Types' /\ Places' /\ Sorted' /\ Inherited'
    BY <1>1, <1>2, <1>4, <1>8, <2>1, <2>2, <2>3, PlacedTypes
  <2>5. klass' = klass
    BY <1>2
  <2>6. QED BY <2>3, <2>4, <2>5 DEF Sound
<1>10. CASE /\ placed' = placed \union {[field |-> f, at |-> r]}
            /\ offset' = r + width
            /\ gaps' = open
  <2>1. width \in Nat
    BY <1>3
  <2>2. Disjoint(placed', klass.start, offset') /\ Free(gaps', placed', klass.start, offset')
    BY <1>3, <1>4, <1>5, <1>7, <1>8, <1>10, <2>1, Appended
  <2>3. offset' \in Nat /\ klass.start <= offset' /\ gaps' \subseteq Gaps
    BY <1>4, <1>7, <1>8, <1>10, <2>1, <1>5
  <2>4. Types' /\ Places' /\ Sorted' /\ Inherited'
    BY <1>1, <1>2, <1>4, <1>10, <2>3, PlacedTypes
  <2>5. klass' = klass
    BY <1>2
  <2>6. QED BY <2>2, <2>4, <2>5 DEF Sound
<1>11. QED BY <1>1, <1>9, <1>10 DEF r

\* What the comparator says of the fields behind the front.
LEMMA FrontFirst ==
    ASSUME NEW K \in SUBSET Fields, NEW f \in K, \A g \in K \ {f} : LinkFieldsComparator(f, g)
    PROVE  /\ f.type # "ref" => \A g \in K : g.type # "ref" /\ FieldSize(g) <= FieldSize(f)
           /\ f.type = "ref" => \A g \in K \ {f} : g.type = "ref" => f.idx < g.idx
<1>1. \A g \in K : FieldSize(g) \in {1, 2, 4, 8}
  BY SizeIs
<1>2. ASSUME f.type # "ref", NEW g \in K PROVE g.type # "ref" /\ FieldSize(g) <= FieldSize(f)
  <2>1. CASE g.type = f.type
    <3>1. FieldSize(g) = FieldSize(f)
      BY <2>1 DEF FieldSize
    <3>2. QED BY <1>1, <1>2, <2>1, <3>1
  <2>2. CASE g.type # f.type
    BY <1>1, <1>2, <2>2 DEF LinkFieldsComparator
  <2>3. QED BY <2>1, <2>2
<1>3. ASSUME f.type = "ref", NEW g \in K \ {f}, g.type = "ref" PROVE f.idx < g.idx
  BY <1>3 DEF LinkFieldsComparator
<1>4. QED BY <1>2, <1>3

LEMMA SoundEndReferences == ASSUME Sound, EndReferences PROVE Sound'
<1>1. /\ step = "refs" /\ step' = "shuffle" /\ UNCHANGED <<super, klass, todo, width, offset, gaps, placed>>
      /\ todo # {} => \E f \in todo : IsFront(f) /\ f.type # "ref"
  BY DEF EndReferences
<1>2. Types' /\ Places' /\ Inherited'
  BY <1>1 DEF Sound, Types, Places, Inherited
<1>3. ASSUME NEW g \in todo PROVE g.type # "ref" /\ FieldSize(g) <= 8
  <2>1. PICK f \in todo : IsFront(f) /\ f.type # "ref"
    BY <1>1, <1>3
  <2>2. todo \in SUBSET Fields
    BY DEF Sound, Types
  <2>3. g.type # "ref"
    BY <2>1, <2>2, FrontFirst DEF IsFront
  <2>4. FieldSize(g) \in {1, 2, 4, 8}
    BY <2>2, SizeIs
  <2>5. QED BY <2>3, <2>4
<1>4. width = 8
  BY <1>1 DEF Sound, Places
<1>5. Sorted'
  BY <1>1, <1>3, <1>4 DEF Sorted
<1>6. (Disjoint(placed, klass.start, offset) /\ Free(gaps, placed, klass.start, offset))'
  BY <1>1 DEF Sound, Disjoint, Free
<1>7. QED BY <1>2, <1>5, <1>6 DEF Sound

LEMMA SoundNextShuffle == ASSUME Sound, NextShuffle PROVE Sound'
<1>1. /\ step = "shuffle" /\ width > 1 /\ width' = width \div 2
      /\ UNCHANGED <<super, klass, todo, step, offset, gaps, placed>>
      /\ todo # {} => \E f \in todo : IsFront(f) /\ FieldSize(f) < width
  BY DEF NextShuffle
<1>2. width \in {2, 4, 8}
  BY <1>1 DEF Sound, Types
<1>3. width' \in {1, 2, 4, 8}
  BY <1>1, <1>2
<1>4. Types' /\ Places' /\ Inherited'
  <2>1. Types'
    BY <1>1, <1>3 DEF Sound, Types
  <2>2. QED BY <1>1, <2>1 DEF Sound, Places, Inherited
<1>5. ASSUME NEW g \in todo PROVE g.type # "ref" /\ FieldSize(g) <= width'
  <2>1. PICK f \in todo : IsFront(f) /\ FieldSize(f) < width
    BY <1>1, <1>5
  <2>2. todo \in SUBSET Fields /\ f.type # "ref"
    BY <1>1 DEF Sound, Types, Sorted
  <2>3. g.type # "ref" /\ FieldSize(g) <= FieldSize(f)
    BY <2>1, <2>2, FrontFirst DEF IsFront
  <2>4. FieldSize(f) \in {1, 2, 4, 8} /\ FieldSize(g) \in {1, 2, 4, 8}
    BY <2>2, SizeIs
  <2>5. QED BY <1>1, <1>2, <2>1, <2>3, <2>4
<1>6. Sorted'
  BY <1>1, <1>5 DEF Sorted
<1>7. (Disjoint(placed, klass.start, offset) /\ Free(gaps, placed, klass.start, offset))'
  BY <1>1 DEF Sound, Disjoint, Free
<1>8. QED BY <1>4, <1>6, <1>7 DEF Sound

LEMMA NumReferencesIs ==
    ASSUME Sound
    PROVE  /\ IsFiniteSet({f \in klass.fields : f.type = "ref"})
           /\ Cardinality({f \in klass.fields : f.type = "ref"}) \in Nat
           /\ NumReferences \in Nat
<1> DEFINE R == {f \in klass.fields : f.type = "ref"}
<1>1. IsFiniteSet(R) /\ Cardinality(R) \in Nat
  BY FS_Subset, FS_CardinalityType DEF Sound, Types
<1>2. klass.reference => Cardinality(R) # 0
  <2>1. klass.reference => R # {}
    BY DEF Sound, Places
  <2>2. QED BY <1>1, <2>1, FS_EmptySet
<1>3. NumReferences = Cardinality(R) - (IF klass.reference THEN 1 ELSE 0)
  BY DEF NumReferences
<1> HIDE DEF R
<1>4. NumReferences \in Nat
  BY <1>1, <1>2, <1>3
<1>5. QED BY <1>1, <1>4 DEF R

\* The bitmap of the class has its bits within 32, or says "walk super".
LEMMA BitmapType ==
    ASSUME Sound, CreateReferenceInstanceOffsets # WalkSuper
    PROVE  CreateReferenceInstanceOffsets \subseteq 0 .. BitmapBits - 1
<1>1. NumReferences \in Nat
  BY NumReferencesIs
<1>2. super.bitmap # WalkSuper => super.bitmap \subseteq 0..31
  BY DEF Sound, Types, BitmapBits
<1>3. StartBit \in Nat
  <2>1. super.size \in Nat /\ super.size >= 8 /\ 4 \in {1, 2, 4, 8}
    BY DEF Sound, Types, ObjectHeader
  <2>2. RoundUp(super.size, 4) \in Nat /\ RoundUp(super.size, 4) >= 8
    <3>1. RoundUp(super.size, 4) \in Nat /\ super.size <= RoundUp(super.size, 4)
      BY <2>1, RoundUpIs
    <3>2. QED BY <2>1, <3>1
  <2>3. QED BY <2>2 DEF StartBit, RefSize, ObjectHeader
<1>4. CASE super.bitmap = WalkSuper \/ NumReferences = 0
  BY <1>2, <1>4 DEF CreateReferenceInstanceOffsets, BitmapBits
<1>5. CASE ~(super.bitmap = WalkSuper \/ NumReferences = 0) /\ StartBit + NumReferences > BitmapBits
  BY <1>5 DEF CreateReferenceInstanceOffsets
<1>6. CASE ~(super.bitmap = WalkSuper \/ NumReferences = 0) /\ ~(StartBit + NumReferences > BitmapBits)
  <2>1. CreateReferenceInstanceOffsets = super.bitmap \union (StartBit .. StartBit + NumReferences - 1)
    BY <1>6 DEF CreateReferenceInstanceOffsets
  <2>2. StartBit .. StartBit + NumReferences - 1 \subseteq 0..31
    BY <1>1, <1>3, <1>6 DEF BitmapBits
  <2>3. QED BY <1>2, <1>6, <2>1, <2>2 DEF BitmapBits
<1>7. QED BY <1>4, <1>5, <1>6

LEMMA SoundFinishLayout == ASSUME Sound, FinishLayout PROVE Sound'
<1>1. /\ step = "shuffle" /\ width = 1 /\ todo = {} /\ todo' = todo
      /\ step' = "idle" /\ klass' = NoKlass /\ placed' = {} /\ gaps' = {} /\ offset' = 0 /\ width' = 8
  BY DEF FinishLayout
<1>2. Sorted' /\ (Disjoint(placed, klass.start, offset) /\ Free(gaps, placed, klass.start, offset))'
  BY <1>1 DEF Sorted, Disjoint, Free
<1>3. Places'
  BY <1>1 DEF Places, NoKlass
<1>4. ASSUME super' = super PROVE Types' /\ Inherited'
  BY <1>1, <1>4, FS_EmptySet DEF Sound, Types, Inherited, NoKlass
<1>5. ASSUME ~klass.static PROVE Types' /\ Inherited'
  <2>1. /\ super'.depth = super.depth + 1 /\ super'.size = offset
        /\ super'.bitmap = CreateReferenceInstanceOffsets
        /\ super'.layout = super.layout \union {[at |-> p.at, size |-> FieldSize(p.field)] : p \in placed}
    BY <1>5 DEF FinishLayout
  <2>2. klass.start = super.size /\ klass.start <= offset /\ super.depth < Depth /\ super.depth \in 0..Depth
    BY <1>1, <1>5 DEF Sound, Types, Places
  <2>3. super'.depth \in 0..Depth /\ super'.size \in Nat /\ super'.size >= ObjectHeader
    BY <2>1, <2>2, ShapesAreFields DEF Sound, Types, ObjectHeader
  <2>4. super'.bitmap # WalkSuper => super'.bitmap \subseteq 0 .. BitmapBits - 1
    BY <2>1, BitmapType
  <2>5. Types'
    BY <1>1, <2>3, <2>4, FS_EmptySet DEF Types, NoKlass
  <2>6. \A s \in super.layout : s.at \in Nat /\ s.size \in Nat /\ s.at + s.size <= offset
    BY <2>2 DEF Sound, Inherited, Types
  <2>7. \A p \in placed : p.at \in Nat /\ FieldSize(p.field) \in Nat /\ p.at + FieldSize(p.field) <= offset
    BY SizeIs DEF Sound, Types, Disjoint
  <2>8. Inherited'
    BY <2>1, <2>6, <2>7 DEF Inherited
  <2>9. QED BY <2>5, <2>8
<1>6. klass.static => super' = super
  BY DEF FinishLayout
<1>7. QED BY <1>2, <1>3, <1>4, <1>5, <1>6 DEF Sound

LEMMA SoundNext == ASSUME Sound, [LayoutNext]_vars PROVE Sound'
<1>1. CASE LinkInstanceFields
  <2>1. PICK d \in 1..Depth, reference \in BOOLEAN :
           d = super.depth + 1 /\ \E fs \in Shapes[d] : LinkFields(fs, FALSE, super.size, reference)
    BY <1>1 DEF LinkInstanceFields
  <2>2. PICK fs \in Shapes[super.depth + 1] : LinkFields(fs, FALSE, super.size, reference)
    BY <2>1
  <2>3. super.size \in Nat /\ super.size >= ObjectHeader
    BY DEF Sound, Types
  <2>4. QED BY <2>2, <2>3, SoundLinkFields
<1>2. CASE LinkStaticFields
  <2>1. PICK start \in StaticStarts, fs \in Shapes[1] : LinkFields(fs, TRUE, start, FALSE)
    BY <1>2 DEF LinkStaticFields
  <2>2. start \in Nat /\ start >= ObjectHeader
    BY <2>1, StaticStartsAligned
  <2>3. QED BY <2>1, <2>2, SoundLinkFields
<1>3. CASE NewHierarchy
  <2>1. /\ step = "idle" /\ super' = Object /\ UNCHANGED <<klass, todo, step, width, offset, gaps, placed>>
    BY <1>3 DEF NewHierarchy
  <2>2. Types' /\ Places' /\ Sorted' /\ Inherited'
    <3>1. Types'
      BY <2>1, ShapesAreFields DEF Sound, Types, Object, ObjectHeader, BitmapBits
    <3>2. Places'
      BY <2>1 DEF Sound, Places, NoKlass
    <3>3. QED BY <2>1, <3>1, <3>2 DEF Sound, Sorted, Inherited, Object
  <2>3. (Disjoint(placed, klass.start, offset) /\ Free(gaps, placed, klass.start, offset))'
    BY <2>1 DEF Sound, Disjoint, Free
  <2>4. QED BY <2>2, <2>3 DEF Sound
<1>4. CASE UNCHANGED vars
  BY <1>4 DEF vars, Sound, Types, Places, Sorted, Inherited, Disjoint, Free
<1>5. QED BY <1>1, <1>2, <1>3, <1>4, SoundPlaceReference, SoundEndReferences, SoundShuffleForward,
            SoundNextShuffle, SoundFinishLayout DEF LayoutNext

\* The inductive invariant holds throughout.
THEOREM SoundAlways == LayoutSpec => []Sound
BY SoundInit, SoundNext, PTL DEF LayoutSpec

\* Every field given an offset is aligned and between the superclass and the end
\* of what is laid out, no two fields of an object share a byte, the inherited
\* ones included, and every gap queued is free, at every moment of LinkFields.
THEOREM LayoutSoundAlways == LayoutSpec => []LayoutSound
<1>1. ASSUME Sound PROVE LayoutSound
  <2>1. LayoutTypeOK
    BY <1>1 DEF Sound, Types, LayoutTypeOK, Gaps
  <2>2. Disjoint(placed, klass.start, offset)
    BY <1>1 DEF Sound
  <2>3. ASSUME ~klass.static, NEW p \in placed, NEW s \in super.layout
        PROVE  Apart(p.at, FieldSize(p.field), s.at, s.size)
    <3>1. step # "idle" /\ klass.start = super.size /\ klass.start <= p.at
      BY <1>1, <2>2, <2>3 DEF Sound, Places, Disjoint
    <3>2. p.at \in Nat /\ s.at \in Nat /\ s.size \in Nat /\ s.at + s.size <= super.size /\ super.size \in Nat
      BY <1>1, <2>3 DEF Sound, Types, Inherited
    <3>3. QED BY <3>1, <3>2 DEF Apart
  <2>4. FieldsDisjoint
    BY <2>2, <2>3 DEF FieldsDisjoint, Disjoint
  <2>5. GapsAreFree
    BY <1>1 DEF Sound, Free, GapsAreFree
  <2>6. QED BY <2>1, <2>4, <2>5 DEF LayoutSound
<1>2. QED BY <1>1, SoundAlways, PTL

-----------------------------------------------------------------------------
\* The inductive invariant of ReferencesFound: Sound, and the references given
\* an offset so far fill the words from the first aligned offset on, each at
\* its rank in name order.

First == RoundUp(klass.start, RefSize)
Refs == {f \in klass.fields : f.type = "ref"}
Before(f) == {g \in Refs : g.idx < f.idx}
RefsDone == {p \in placed : p.field.type = "ref"}
Words(n) == {First + 4 * k : k \in 0 .. n - 1}

Filling ==
    /\ \A p \in RefsDone : p.at = First + 4 * Cardinality(Before(p.field))
    /\ {p.at : p \in RefsDone} = Words(Cardinality(Refs \ todo))
    /\ step = "refs" =>
          /\ placed = RefsDone
          /\ \A p \in placed, g \in todo : g.type = "ref" => p.field.idx < g.idx
          /\ offset = IF placed = {} THEN klass.start ELSE First + 4 * Cardinality(Refs \ todo)

\* What the collector knows of the classes linked before.
Bits == {(at - ObjectHeader) \div RefSize : at \in super.scanned}
Marked == /\ IF super.bitmap = WalkSuper THEN \E b \in Bits : b >= BitmapBits ELSE super.bitmap = Bits
          /\ super.noRefs <=> super.scanned = {}

Found == Sound /\ Filling /\ Marked

\* A multiple of 4 at or after x is at or after x rounded up; words behind one.
LEMMA WordsIs ==
    ASSUME NEW x \in Nat
    PROVE  /\ RoundUp(x, 4) \in Nat /\ RoundUp(x, 4) % 4 = 0 /\ x <= RoundUp(x, 4) /\ RoundUp(x, 4) < x + 4
           /\ \A y \in Nat : y % 4 = 0 /\ x <= y => RoundUp(x, 4) <= y
           /\ x % 4 = 0 => RoundUp(x, 4) = x
<1>1. 4 \in {1, 2, 4, 8}
  OBVIOUS
<1>2. RoundUp(x, 4) \in Nat /\ RoundUp(x, 4) % 4 = 0 /\ x <= RoundUp(x, 4) /\ RoundUp(x, 4) < x + 4
  BY <1>1, RoundUpIs
<1>3. ASSUME NEW z \in Nat, z % 4 = 0, z < x + 4, NEW y \in Nat, y % 4 = 0, x <= y PROVE z <= y
  BY <1>3
<1>4. QED BY <1>2, <1>3

LEMMA FirstIs ==
    ASSUME Sound
    PROVE  First \in Nat /\ First % 4 = 0 /\ klass.start <= First /\ First < klass.start + 4
<1>1. klass.start \in Nat /\ First = RoundUp(klass.start, 4)
  BY DEF Sound, Types, First, RefSize
<1>2. QED BY <1>1, WordsIs

\* The references are finitely many and told apart by their index.
LEMMA RefsAre ==
    ASSUME Sound
    PROVE  /\ IsFiniteSet(Refs) /\ Cardinality(Refs) \in Nat /\ Refs \subseteq Fields
           /\ \A f, g \in Refs : f.idx = g.idx => f = g
           /\ \A S \in SUBSET Refs : /\ IsFiniteSet(S) /\ Cardinality(S) \in Nat
                                     /\ Cardinality(S) <= Cardinality(Refs)
                                     /\ Cardinality(S) = Cardinality(Refs) => S = Refs
<1>1. IsFiniteSet(klass.fields) /\ klass.fields \subseteq Fields /\ Refs \subseteq klass.fields
  BY DEF Sound, Types, Refs
<1>2. IsFiniteSet(Refs) /\ Cardinality(Refs) \in Nat
  BY <1>1, FS_Subset, FS_CardinalityType
<1>3. \A f, g \in Refs : f.idx = g.idx => f = g
  BY <1>1 DEF Fields, Refs
<1>4. ASSUME NEW S \in SUBSET Refs
      PROVE  /\ IsFiniteSet(S) /\ Cardinality(S) \in Nat /\ Cardinality(S) <= Cardinality(Refs)
             /\ Cardinality(S) = Cardinality(Refs) => S = Refs
  BY <1>2, FS_Subset, FS_CardinalityType
<1>5. QED BY <1>1, <1>2, <1>3, <1>4

LEMMA FoundInit == LayoutInit => Found
<1> SUFFICES ASSUME LayoutInit PROVE Found
  OBVIOUS
<1>1. Sound
  BY SoundInit
<1>2. Refs = {} /\ RefsDone = {} /\ step = "idle"
  BY DEF LayoutInit, Refs, RefsDone, NoKlass
<1>3. Words(Cardinality(Refs \ todo)) = {}
  BY <1>2, FS_EmptySet DEF Words
<1>4. Filling
  BY <1>2, <1>3 DEF Filling
<1>5. Marked
  BY DEF LayoutInit, Object, Marked, Bits, WalkSuper
<1>6. QED BY <1>1, <1>4, <1>5 DEF Found

LEMMA FoundLinkFields ==
    ASSUME Found, NEW fs, NEW static, NEW start, NEW reference, LinkFields(fs, static, start, reference), Sound'
    PROVE  Filling' /\ Marked'
<1>1. placed' = {} /\ todo' = fs /\ klass'.fields = fs /\ klass'.start = start /\ offset' = start /\ super' = super
  BY DEF LinkFields
<1>2. RefsDone' = {} /\ (Refs \ todo)' = {}
  BY <1>1 DEF RefsDone, Refs
<1>3. Words(Cardinality(Refs \ todo))' = {}
  BY <1>2, FS_EmptySet DEF Words
<1>4. Filling'
  BY <1>1, <1>2, <1>3 DEF Filling
<1>5. QED BY <1>1, <1>4 DEF Found, Marked, Bits

\* The next reference goes behind the others, at its rank.
LEMMA FoundPlaceReference == ASSUME Found, PlaceReference PROVE Filling' /\ Marked'
<1>1. PICK f : /\ f \in todo /\ IsFront(f) /\ f.type = "ref" /\ todo' = todo \ {f}
               /\ placed' = placed \union {[field |-> f, at |-> RefSlot]}
  BY DEF PlaceReference
<1>2. step = "refs" /\ offset' = RefSlot + 4 /\ UNCHANGED <<super, klass, step>>
  BY DEF PlaceReference, RefSize
<1>3. Sound /\ todo \subseteq klass.fields /\ todo \in SUBSET Fields /\ f \in Refs /\ f.idx \in Nat
  BY <1>1 DEF Found, Sound, Types, Refs, Fields
<1>4. First' = First /\ Refs' = Refs /\ \A g \in Refs : Before(g)' = Before(g)
  BY <1>2 DEF First, Refs, Before
<1>5. PICK done, n : done = Refs \ todo /\ n = Cardinality(done) /\ n \in Nat /\ IsFiniteSet(done)
  BY <1>3, RefsAre
<1>6. \A g \in todo \ {f} : g.type = "ref" => f.idx < g.idx
  BY <1>1, <1>3, FrontFirst DEF IsFront
<1>7. Before(f) = done
  <2>1. \A g \in done : g.idx < f.idx
    <3> SUFFICES ASSUME NEW g \in done PROVE g.idx < f.idx
      OBVIOUS
    <3>1. g \in klass.fields \ todo
      BY <1>5 DEF Refs
    <3>2. PICK p \in placed : p.field = g
      BY <1>3, <3>1 DEF Sound, Types
    <3>3. QED BY <1>1, <1>2, <3>2 DEF Found, Filling
  <2>2. \A g \in Refs : g.idx \in Nat
    BY <1>3, RefsAre DEF Fields
  <2>3. \A g \in Refs \ done : ~(g.idx < f.idx)
    BY <1>3, <1>5, <1>6, <2>2 DEF Refs
  <2>4. QED BY <1>5, <2>1, <2>3 DEF Before
<1>8. (Refs \ todo)' = done \union {f} /\ f \notin done
  BY <1>1, <1>3, <1>4, <1>5
<1>9. Cardinality((Refs \ todo)') = n + 1
  <2>1. Cardinality(done \union {f}) = n + 1
    BY <1>5, <1>8, FS_AddElement
  <2>2. QED BY <1>8, <2>1
<1>10. First \in Nat /\ First % 4 = 0
  BY <1>3, FirstIs
<1>11. RefSlot = First + 4 * n
  <2>1. RefSlot = RoundUp(offset, 4)
    BY DEF RefSlot, Rounded, RefSize
  <2>2. CASE placed = {}
    <3>1. offset = klass.start /\ done = {}
      BY <1>2, <1>3, <1>5, <2>2 DEF Found, Filling, Refs, Sound, Types
    <3>2. n = 0
      BY <1>5, <3>1, FS_EmptySet
    <3>3. RefSlot = First
      BY <2>1, <3>1 DEF First, RefSize
    <3>4. QED BY <1>10, <3>2, <3>3
  <2>3. CASE placed # {}
    <3>1. offset = First + 4 * n
      BY <1>2, <1>5, <2>3 DEF Found, Filling
    <3>2. offset \in Nat /\ offset % 4 = 0
      BY <1>5, <1>10, <3>1
    <3>3. QED BY <2>1, <3>1, <3>2, WordsIs
  <2>4. QED BY <2>2, <2>3
<1> DEFINE new == [field |-> f, at |-> RefSlot]
<1>12. /\ RefsDone' = RefsDone \union {new} /\ new.field = f /\ new.at = First + 4 * n
       /\ placed' = placed \union {new} /\ placed = RefsDone
  <2>1. new.field = f /\ new.at = First + 4 * n /\ placed' = placed \union {new} /\ new.field.type = "ref"
    BY <1>1, <1>11
  <2>2. placed = RefsDone
    BY <1>2 DEF Found, Filling
  <2> HIDE DEF new
  <2>3. QED BY <2>1, <2>2 DEF RefsDone
<1> HIDE DEF new
<1>13. \A p \in RefsDone' : p.at = First' + 4 * Cardinality(Before(p.field)')
  <2>1. \A p \in RefsDone : p.field \in Refs /\ p.at = First + 4 * Cardinality(Before(p.field))
    BY <1>3 DEF Found, Filling, Sound, Types, RefsDone, Refs
  <2>2. Cardinality(Before(f)) = n
    BY <1>5, <1>7
  <2>3. QED BY <1>3, <1>4, <1>12, <2>1, <2>2
<1>14. {p.at : p \in RefsDone'} = {First' + 4 * k : k \in 0 .. (n + 1) - 1}
  <2>1. {p.at : p \in RefsDone} = {First + 4 * k : k \in 0 .. n - 1}
    BY <1>5 DEF Found, Filling, Words
  <2>2. 0 .. (n + 1) - 1 = (0 .. n - 1) \union {n}
    BY <1>5
  <2>3. {First + 4 * k : k \in 0 .. (n + 1) - 1} = {First + 4 * k : k \in 0 .. n - 1} \union {First + 4 * n}
    BY <2>2
  <2>4. {p.at : p \in RefsDone'} = {p.at : p \in RefsDone} \union {First + 4 * n}
    BY <1>12
  <2>5. QED BY <1>4, <2>1, <2>3, <2>4
<1>15. \A p \in placed', g \in todo' : g.type = "ref" => p.field.idx < g.idx
  BY <1>1, <1>2, <1>6, <1>12 DEF Found, Filling
<1>16. offset' = First' + 4 * Cardinality((Refs \ todo)') /\ placed' # {}
  BY <1>2, <1>4, <1>5, <1>9, <1>10, <1>11, <1>12
<1>17. Filling'
  BY <1>9, <1>12, <1>13, <1>14, <1>15, <1>16 DEF Filling, Words
<1>18. QED BY <1>2, <1>17 DEF Found, Marked, Bits

LEMMA FoundEndReferences == ASSUME Found, EndReferences PROVE Filling' /\ Marked'
BY DEF EndReferences, Found, Filling, Marked, Bits, Words, First, Refs, Before, RefsDone

LEMMA FoundNextShuffle == ASSUME Found, NextShuffle PROVE Filling' /\ Marked'
BY DEF NextShuffle, Found, Filling, Marked, Bits, Words, First, Refs, Before, RefsDone

\* A primitive changes nothing in the references.
LEMMA FoundShuffleForward == ASSUME Found, ShuffleForward PROVE Filling' /\ Marked'
<1>1. PICK f, at : /\ f \in todo /\ todo' = todo \ {f}
                   /\ placed' = placed \union {[field |-> f, at |-> at]}
  BY DEF ShuffleForward
<1>2. step = "shuffle" /\ UNCHANGED <<super, klass, step>>
  BY DEF ShuffleForward
<1>3. f.type # "ref"
  BY <1>1, <1>2 DEF Found, Sound, Sorted
<1>4. RefsDone' = RefsDone
  <2> DEFINE new == [field |-> f, at |-> at]
  <2>1. new.field = f /\ placed' = placed \union {new}
    BY <1>1
  <2> HIDE DEF new
  <2>2. QED BY <1>3, <2>1 DEF RefsDone
<1>5. Refs' = Refs /\ First' = First /\ (Refs \ todo)' = Refs \ todo /\ \A g : Before(g)' = Before(g)
  BY <1>1, <1>2, <1>3 DEF Refs, First, Before
<1>6. Filling'
  BY <1>2, <1>4, <1>5 DEF Found, Filling, Words
<1>7. QED BY <1>2, <1>6 DEF Found, Marked, Bits

-----------------------------------------------------------------------------
\* The end of a class: its bitmap.

\* All references are placed before the primitives, one in each of the words.
LEMMA AllPlaced ==
    ASSUME Found, step = "shuffle"
    PROVE  /\ Refs \ todo = Refs
           /\ {p.at : p \in RefsDone} = Words(Cardinality(Refs))
           /\ \A p \in RefsDone : p.field \in Refs
           /\ \A g \in Refs : \E p \in RefsDone : p.field = g
<1>1. Refs \ todo = Refs
  BY DEF Found, Sound, Sorted, Refs
<1>2. {p.at : p \in RefsDone} = Words(Cardinality(Refs))
  BY <1>1 DEF Found, Filling
<1>3. \A p \in RefsDone : p.field \in Refs
  BY DEF Found, Sound, Types, RefsDone, Refs
<1>4. ASSUME NEW g \in Refs PROVE \E p \in RefsDone : p.field = g
  <2>1. g \in klass.fields \ todo /\ g.type = "ref"
    BY <1>1 DEF Refs
  <2>2. PICK p \in placed : p.field = g
    BY <2>1 DEF Found, Sound, Types
  <2>3. QED BY <2>1, <2>2 DEF RefsDone
<1>5. QED BY <1>1, <1>2, <1>3, <1>4

\* The last reference in name order is the one in the last word.
LEMMA LastIs ==
    ASSUME Found, step = "shuffle", NEW p \in RefsDone
    PROVE  (\A q \in RefsDone : q.field.idx <= p.field.idx) <=> p.at = First + 4 * (Cardinality(Refs) - 1)
<1> DEFINE f == p.field
<1>1. Sound /\ f \in Refs /\ \A g \in Refs : g.idx \in Nat
  <2>1. Sound
    BY DEF Found
  <2>2. QED BY <2>1, AllPlaced, RefsAre DEF Fields
<1>2. PICK c \in Nat : c = Cardinality(Refs) /\ IsFiniteSet(Refs)
  BY <1>1, RefsAre
<1>3. Before(f) \in SUBSET (Refs \ {f})
  BY <1>1 DEF Before
<1>4. /\ IsFiniteSet(Refs \ {f}) /\ Cardinality(Refs \ {f}) = c - 1
  BY <1>1, <1>2, FS_RemoveElement
<1>5. /\ Cardinality(Before(f)) \in Nat
      /\ Cardinality(Before(f)) = c - 1 => Before(f) = Refs \ {f}
  BY <1>3, <1>4, FS_Subset, FS_CardinalityType
<1>6. First \in Nat /\ p.at = First + 4 * Cardinality(Before(f))
  <2>1. First \in Nat
    BY <1>1, FirstIs
  <2>2. QED BY <2>1 DEF Found, Filling
<1>7. Before(f) = Refs \ {f} <=> \A g \in Refs : g.idx <= f.idx
  <2>1. ASSUME Before(f) = Refs \ {f}, NEW g \in Refs PROVE g.idx <= f.idx
    BY <1>1, <2>1 DEF Before
  <2>2. ASSUME \A g \in Refs : g.idx <= f.idx PROVE Before(f) = Refs \ {f}
    <3>1. \A g \in Refs \ {f} : g.idx # f.idx
      BY <1>1, RefsAre
    <3>2. \A g \in Refs \ {f} : g.idx < f.idx
      BY <1>1, <2>2, <3>1
    <3>3. QED BY <1>3, <3>2 DEF Before
  <2>3. QED BY <2>1, <2>2
<1>8. (\A q \in RefsDone : q.field.idx <= f.idx) <=> \A g \in Refs : g.idx <= f.idx
  BY AllPlaced
<1>9. p.at = First + 4 * (c - 1) <=> Before(f) = Refs \ {f}
  <2>1. PICK m : m \in Nat /\ m = Cardinality(Before(f))
    BY <1>5
  <2>2. m = c - 1 <=> Before(f) = Refs \ {f}
    BY <1>4, <1>5, <2>1
  <2>3. p.at = First + 4 * m /\ First \in Nat
    BY <1>6, <2>1
  <2>4. p.at = First + 4 * (c - 1) <=> m = c - 1
    BY <1>2, <2>1, <2>3
  <2>5. QED BY <2>2, <2>4
<1>10. QED BY <1>2, <1>7, <1>8, <1>9

\* The collector is to visit the words of all references but the referent.
LEMMA ScannedIs ==
    ASSUME Found, step = "shuffle"
    PROVE  {p.at : p \in Scanned} = {First + 4 * k : k \in 0 .. NumReferences - 1}
<1>1. Sound /\ First \in Nat
  BY FirstIs DEF Found
<1>2. PICK c \in Nat : c = Cardinality(Refs)
  BY <1>1, RefsAre
<1>3. {p.at : p \in RefsDone} = {First + 4 * k : k \in 0 .. c - 1}
  BY <1>2, AllPlaced DEF Words
<1>4. CASE ~klass.reference
  <2>1. Scanned = RefsDone
    BY <1>4 DEF Scanned, RefsDone
  <2>2. NumReferences = c
    BY <1>2, <1>4 DEF NumReferences, Refs
  <2>3. QED BY <1>3, <2>1, <2>2
<1>5. CASE klass.reference
  <2>1. placed = RefsDone
    BY <1>5 DEF Found, Sound, Types, Places, RefsDone
  <2>2. \A p : p \in Scanned <=> p \in RefsDone /\ ~ \A q \in RefsDone : q.field.idx <= p.field.idx
    BY <1>5, <2>1 DEF Scanned, RefsDone
  <2>3. \A p : p \in Scanned <=> p \in RefsDone /\ p.at # First + 4 * (c - 1)
    BY <1>2, <2>2, LastIs
  <2>4. NumReferences = c - 1
    BY <1>2, <1>5 DEF NumReferences, Refs
  <2>5. {p.at : p \in Scanned} = {p.at : p \in RefsDone} \ {First + 4 * (c - 1)}
    BY <2>3
  <2>6. {First + 4 * k : k \in 0 .. c - 1} \ {First + 4 * (c - 1)} = {First + 4 * k : k \in 0 .. (c - 1) - 1}
    <3>1. \A k \in 0 .. c - 1 : First + 4 * k # First + 4 * (c - 1) <=> k \in 0 .. (c - 1) - 1
      BY <1>1
    <3>2. 0 .. (c - 1) - 1 \subseteq 0 .. c - 1
      BY <1>2
    <3>3. QED BY <3>1, <3>2
  <2>7. QED BY <1>3, <2>4, <2>5, <2>6
<1>6. QED BY <1>4, <1>5

LEMMA FoundFinishLayout == ASSUME Found, FinishLayout, Sound' PROVE Filling' /\ Marked'
<1>1. /\ step = "shuffle" /\ todo' = {} /\ placed' = {} /\ klass' = NoKlass /\ step' = "idle"
      /\ super' = IF klass.static THEN super
                  ELSE [depth |-> super.depth + 1, size |-> offset,
                        bitmap |-> CreateReferenceInstanceOffsets,
                        noRefs |-> NumReferences = 0 /\ super.noRefs,
                        layout |-> super.layout \union {[at |-> p.at, size |-> FieldSize(p.field)] : p \in placed},
                        scanned |-> super.scanned \union {p.at : p \in Scanned}]
  BY DEF FinishLayout
<1>2. Filling'
  <2>1. Refs' = {} /\ RefsDone' = {}
    BY <1>1 DEF Refs, RefsDone, NoKlass
  <2>2. Words(Cardinality(Refs \ todo))' = {}
    BY <2>1, FS_EmptySet DEF Words
  <2>3. QED BY <1>1, <2>1, <2>2 DEF Filling
<1>3. CASE klass.static
  BY <1>1, <1>2, <1>3 DEF Found, Marked, Bits
<1>4. CASE ~klass.static
  <2>1. Sound /\ klass.start = super.size
    BY <1>1, <1>4 DEF Found, Sound, Places
  <2>2. PICK n : n \in Nat /\ n = NumReferences
    BY <2>1, NumReferencesIs
  <2>3. First \in Nat /\ First % 4 = 0 /\ First >= 8
    BY <2>1, FirstIs DEF Sound, Types, ObjectHeader
  <2>4. PICK b : b \in Nat /\ First = 4 * b + 8
    <3>1. (First - 8) \div 4 \in Nat /\ First = 4 * ((First - 8) \div 4) + 8
      BY <2>3
    <3>2. QED BY <3>1
  <2>5. StartBit = b
    BY <2>1, <2>4 DEF StartBit, First, RefSize, ObjectHeader
  <2>6. \A k \in Nat : ((First + 4 * k) - 8) \div 4 = b + k
    BY <2>4
  <2> DEFINE own == {p.at : p \in Scanned}
  <2>7. own = {First + 4 * k : k \in 0 .. n - 1}
    BY <1>1, <2>2, ScannedIs
  <2>8. super'.scanned = super.scanned \union own /\ super'.bitmap = CreateReferenceInstanceOffsets
        /\ (super'.noRefs <=> n = 0 /\ super.noRefs)
    BY <1>1, <1>4, <2>2
  <2> HIDE DEF own
  <2>9. Bits' = Bits \union (b .. b + n - 1)
    <3> DEFINE bit(at) == (at - 8) \div 4
               word(k) == First + 4 * k
    <3>1. own = {word(k) : k \in 0 .. n - 1}
      BY <2>7
    <3>2. ASSUME NEW k \in 0 .. n - 1 PROVE bit(word(k)) = b + k
      <4>1. k \in Nat
        BY <2>2
      <4>2. ((First + 4 * k) - 8) \div 4 = b + k
        BY <2>6, <4>1
      <4>3. QED BY <4>2
    <3>3. Bits' = {bit(at) : at \in super'.scanned} /\ Bits = {bit(at) : at \in super.scanned}
      BY DEF Bits, ObjectHeader, RefSize
    <3> HIDE DEF bit, word
    <3>4. {bit(at) : at \in own} = {bit(word(k)) : k \in 0 .. n - 1}
      BY <3>1
    <3>5. {bit(word(k)) : k \in 0 .. n - 1} = {b + k : k \in 0 .. n - 1}
      BY <3>2
    <3>6. {b + k : k \in 0 .. n - 1} = b .. b + n - 1
      <4>1. \A i \in b .. b + n - 1 : i - b \in 0 .. n - 1 /\ i = b + (i - b)
        BY <2>2, <2>4
      <4>2. \A k \in 0 .. n - 1 : b + k \in b .. b + n - 1
        BY <2>2, <2>4
      <4>3. QED BY <4>1, <4>2
    <3>7. Bits' = Bits \union {bit(at) : at \in own}
      BY <2>8, <3>3
    <3>8. QED BY <3>4, <3>5, <3>6, <3>7
  <2>10. super'.noRefs <=> super'.scanned = {}
    <3>1. own = {} <=> n = 0
      BY <2>2, <2>7
    <3>2. QED BY <2>8, <3>1 DEF Found, Marked
  <2>11. IF super'.bitmap = WalkSuper THEN \E i \in Bits' : i >= 32 ELSE super'.bitmap = Bits'
    <3>1. CASE super.bitmap = WalkSuper
      BY <2>8, <2>9, <3>1 DEF CreateReferenceInstanceOffsets, Found, Marked, BitmapBits
    <3>2. CASE super.bitmap # WalkSuper /\ n = 0
      <4>1. Bits' = Bits /\ super'.bitmap = super.bitmap
        BY <2>2, <2>4, <2>8, <2>9, <3>2 DEF CreateReferenceInstanceOffsets
      <4>2. QED BY <3>2, <4>1 DEF Found, Marked
    <3>3. CASE super.bitmap # WalkSuper /\ n # 0 /\ b + n > 32
      <4>1. super'.bitmap = WalkSuper
        BY <2>2, <2>5, <2>8, <3>3 DEF CreateReferenceInstanceOffsets, BitmapBits
      <4>2. b + n - 1 \in Bits' /\ b + n - 1 >= 32
        BY <2>2, <2>4, <2>9, <3>3
      <4>3. QED BY <4>1, <4>2
    <3>4. CASE super.bitmap # WalkSuper /\ n # 0 /\ ~(b + n > 32)
      <4>1. super'.bitmap = super.bitmap \union (b .. b + n - 1)
        BY <2>2, <2>5, <2>8, <3>4 DEF CreateReferenceInstanceOffsets, BitmapBits
      <4>2. super.bitmap = Bits /\ super.bitmap \subseteq 0..31
        BY <2>1, <3>4 DEF Found, Marked, Sound, Types, BitmapBits
      <4>3. 32 \notin super'.bitmap
        BY <2>2, <2>4, <3>4, <4>1, <4>2
      <4>4. super'.bitmap # WalkSuper
        BY <4>3 DEF WalkSuper, BitmapBits
      <4>5. QED BY <2>9, <4>1, <4>2, <4>4
    <3>5. QED BY <3>1, <3>2, <3>3, <3>4
  <2>12. QED BY <1>2, <2>10, <2>11 DEF Marked, BitmapBits
<1>5. QED BY <1>3, <1>4

LEMMA FoundNewHierarchy == ASSUME Found, NewHierarchy PROVE Filling' /\ Marked'
<1>1. super' = Object /\ UNCHANGED <<klass, todo, step, width, offset, gaps, placed>>
  BY DEF NewHierarchy
<1>2. Filling'
  BY <1>1 DEF Found, Filling, Words, First, Refs, Before, RefsDone
<1>3. Marked'
  BY <1>1 DEF Object, Marked, Bits, WalkSuper
<1>4. QED BY <1>2, <1>3

LEMMA FoundNext == Found /\ [LayoutNext]_vars => Found'
<1> SUFFICES ASSUME Found, [LayoutNext]_vars PROVE Found'
  OBVIOUS
<1>1. Sound'
  BY SoundNext DEF Found
<1>2. CASE LayoutNext
  <2>1. CASE LinkInstanceFields
    BY <1>1, <2>1, FoundLinkFields DEF LinkInstanceFields, Found
  <2>2. CASE LinkStaticFields
    BY <1>1, <2>2, FoundLinkFields DEF LinkStaticFields, Found
  <2>3. CASE PlaceReference  BY <1>1, <2>3, FoundPlaceReference DEF Found
  <2>4. CASE EndReferences   BY <1>1, <2>4, FoundEndReferences DEF Found
  <2>5. CASE ShuffleForward  BY <1>1, <2>5, FoundShuffleForward DEF Found
  <2>6. CASE NextShuffle     BY <1>1, <2>6, FoundNextShuffle DEF Found
  <2>7. CASE FinishLayout    BY <1>1, <2>7, FoundFinishLayout DEF Found
  <2>8. CASE NewHierarchy    BY <1>1, <2>8, FoundNewHierarchy DEF Found
  <2>9. QED BY <1>2, <2>1, <2>2, <2>3, <2>4, <2>5, <2>6, <2>7, <2>8 DEF LayoutNext
<1>3. CASE UNCHANGED vars
  BY <1>1, <1>3 DEF vars, Found, Filling, Marked, Bits, Words, First, Refs, Before, RefsDone
<1>4. QED BY <1>2, <1>3

\* The inductive invariant of the collector's view holds throughout.
THEOREM FoundAlways == LayoutSpec => []Found
BY FoundInit, FoundNext, PTL DEF LayoutSpec

\* Beside the references: a field before the end of their words is smaller than
\* one of them, and lies before the first.
LEMMA Beside ==
    ASSUME Found, step = "shuffle", NEW p \in placed, p.field.type # "ref",
           p.at < First + 4 * Cardinality(Refs)
    PROVE  FieldSize(p.field) < 4 /\ p.at + FieldSize(p.field) <= First /\ ~IsAligned(4, p.at)
<1>1. Sound /\ First \in Nat /\ First % 4 = 0 /\ klass.start <= First /\ First < klass.start + 4
  BY FirstIs DEF Found
<1>2. PICK c \in Nat : c = Cardinality(Refs)
  BY <1>1, RefsAre
<1>3. PICK n, at : n = FieldSize(p.field) /\ at = p.at /\ n \in {1, 2, 4, 8} /\ at \in Nat /\ klass.start \in Nat
  <2>1. p.field \in Fields /\ p.at \in Nat /\ klass.start \in Nat
    BY <1>1 DEF Sound, Types
  <2>2. QED BY <2>1, SizeIs
<1>4. at % n = 0 /\ klass.start <= at
  BY <1>1, <1>3 DEF Sound, Disjoint, IsAligned
<1>5. at < First
  <2> SUFFICES ASSUME at >= First PROVE FALSE
    BY <1>1, <1>3
  <2>1. PICK k : k \in 0 .. c - 1 /\ First + 4 * k <= at /\ at < First + 4 * k + 4
    <3>1. at - First \in Nat /\ at - First < 4 * c
      BY <1>1, <1>2, <1>3
    <3>2. (at - First) \div 4 \in 0 .. c - 1
      BY <1>2, <3>1
    <3>3. First + 4 * ((at - First) \div 4) <= at /\ at < First + 4 * ((at - First) \div 4) + 4
      BY <1>1, <1>3, <3>1
    <3>4. QED BY <3>2, <3>3
  <2>2. PICK q \in RefsDone : q.at = First + 4 * k
    <3>1. First + 4 * k \in Words(c)
      BY <2>1 DEF Words
    <3>2. First + 4 * k \in {q.at : q \in RefsDone}
      BY <1>2, <3>1, AllPlaced
    <3>3. QED BY <3>2
  <2>3. q \in placed /\ q # p /\ FieldSize(q.field) = 4
    <3>1. q \in placed /\ q.field.type = "ref"
      BY DEF RefsDone
    <3>2. q.field \in Fields
      BY <1>1, <3>1 DEF Sound, Types
    <3>3. QED BY <3>1, <3>2, SizeIs
  <2>4. Apart(q.at, FieldSize(q.field), p.at, FieldSize(p.field))
    BY <1>1, <2>3 DEF Sound, Disjoint
  <2>5. Apart(First + 4 * k, 4, at, n)
    BY <1>3, <2>2, <2>3, <2>4
  <2>6. QED BY <1>1, <1>3, <2>1, <2>5 DEF Apart
<1>6. at % 4 # 0 /\ n \in {1, 2}
  <2>1. at % 4 # 0
    BY <1>1, <1>3, <1>4, <1>5
  <2>2. n = 8 => at % 4 = 0
    BY <1>3, <1>4
  <2>3. QED BY <1>3, <1>4, <2>1, <2>2
<1>7. at + n <= First
  BY <1>1, <1>3, <1>4, <1>5, <1>6
<1>8. QED BY <1>3, <1>6, <1>7 DEF IsAligned

\* The references of a class lie together in name order from the first aligned
\* offset, smaller primitives before them at the most; and what the bitmap of a
\* linked class says (or the class by class walk it asks for) is exactly the
\* references of its whole hierarchy that the collector is to visit.
THEOREM ReferencesFoundAlways == LayoutSpec => []ReferencesFound
<1>1. ASSUME Found PROVE ReferencesFound
  <2>1. ReferencesTogether
    <3> SUFFICES ASSUME step = "shuffle", NEW p \in placed
                 PROVE IF p.field.type = "ref"
                       THEN p.at = First + 4 * Cardinality(Before(p.field))
                       ELSE p.at < First + 4 * Cardinality(Refs) =>
                               /\ FieldSize(p.field) < 4 /\ p.at + FieldSize(p.field) <= First
                               /\ ~IsAligned(4, p.at)
      BY DEF ReferencesTogether, First, Refs, Before, RefSize
    <3>1. CASE p.field.type = "ref"
      BY <1>1, <3>1 DEF Found, Filling, RefsDone
    <3>2. CASE p.field.type # "ref"
      BY <1>1, <3>2, Beside
    <3>3. QED BY <3>1, <3>2
  <2>2. BitmapExact
    BY <1>1 DEF BitmapExact, Found, Marked, Bits
  <2>3. QED BY <2>1, <2>2 DEF ReferencesFound
<1>2. QED BY <1>1, FoundAlways, PTL

==============================================================================
