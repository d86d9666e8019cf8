------------------------------ MODULE FieldLayout ------------------------------
(***************************************************************************)
(* ClassLinker::LinkFields: where the fields of a class lie in its objects *)
(* (or, for static fields, in the class object), and the bitmap of         *)
(* reference offsets the collector reads.  A class is laid out on top of   *)
(* its superclass: references first, then the primitive fields from the    *)
(* largest to the smallest, each in a gap that alignment left if one fits. *)
(* A hierarchy grows down from java.lang.Object, one class after another.  *)
(***************************************************************************)
EXTENDS Integers, FiniteSets

CONSTANTS Shapes,       \* Shapes[d]: the sets of fields a class at depth d may declare
          StaticStarts, \* offsets of the first static field: after the class object's own data
          Depth         \* bound: classes below java.lang.Object

RefSize == 4        \* sizeof(HeapReference<Object>)
ObjectHeader == 8   \* kObjectHeaderSize: java.lang.Object's own class and monitor words
BitmapBits == 32    \* bits of reference_instance_offsets_

PrimitiveSizes ==
    [boolean |-> 1, byte |-> 1, char |-> 2, short |-> 2, int |-> 4, long |-> 8, float |-> 4, double |-> 8]
PrimitiveCode ==
    [boolean |-> 1, byte |-> 2, char |-> 3, short |-> 4, int |-> 5, long |-> 6, float |-> 7, double |-> 8]
FieldTypes == DOMAIN PrimitiveSizes \union {"ref"}
FieldSize(f) == IF f.type = "ref" THEN RefSize ELSE PrimitiveSizes[f.type]

ASSUME StaticStartsAligned == \A s \in StaticStarts : s \in Nat /\ s % RefSize = 0 /\ s >= ObjectHeader
ASSUME ShapesAreFields ==
    /\ Depth \in Nat
    /\ \A d \in 1..Depth : \A fs \in Shapes[d] :
          IsFiniteSet(fs) /\ fs \subseteq [type : FieldTypes, idx : Nat]

\* A bitmap is the set of its bits; kClassWalkSuper, "visit class by class", is
\* given a bit no bitmap has.
WalkSuper == {BitmapBits}

VARIABLES super,  \* the linked class the next one extends
          klass,  \* the class being linked: its fields, static or instance, is it Reference
          todo,   \* grouped_and_sorted_fields: those without an offset yet
          step,   \* "idle", "refs" or "shuffle"
          width,  \* n of the ShuffleForward<n> under way
          offset, \* field_offset
          gaps,   \* the priority queue of gaps
          placed  \* the offsets given: records [field, at]

vars == <<super, klass, todo, step, width, offset, gaps, placed>>

\* java.lang.Object as linked: its reference field, the class, is not scanned.
Object == [depth |-> 0, size |-> ObjectHeader, bitmap |-> {}, noRefs |-> TRUE, layout |-> {}, scanned |-> {}]
NoKlass == [fields |-> {}, static |-> FALSE, reference |-> FALSE, start |-> 0]

LayoutInit == /\ super = Object /\ klass = NoKlass /\ todo = {} /\ step = "idle"
              /\ width = 8 /\ offset = 0 /\ gaps = {} /\ placed = {}

IsAligned(n, x) == x % n = 0
RoundUp(x, n) == ((x + n - 1) \div n) * n

-----------------------------------------------------------------------------
\* References go first, then larger primitives; types of one size by their code,
\* fields of one type by their dex index.
LinkFieldsComparator(f, g) ==
    IF f.type = g.type THEN f.idx < g.idx
    ELSE IF f.type = "ref" \/ g.type = "ref" THEN f.type = "ref"
    ELSE IF FieldSize(f) # FieldSize(g) THEN FieldSize(f) > FieldSize(g)
    ELSE PrimitiveCode[f.type] < PrimitiveCode[g.type]

\* The front of the sorted deque: std::sort once and pop_front is to take the
\* least field that remains.
IsFront(f) == f \in todo /\ \A g \in todo \ {f} : LinkFieldsComparator(f, g)

\* The queue's top is the largest gap, the lowest among equals.
FieldGapsComparator(g, h) == g.size < h.size \/ (g.size = h.size /\ g.start > h.start)
IsTop(g, gs) == g \in gs /\ \A h \in gs \ {g} : FieldGapsComparator(h, g)

\* The pieces AddFieldGap cuts [a, b) into: at each place the largest aligned one.
PieceAtUnaligned(a, b) == IF b - a >= 4 THEN 4 ELSE IF b - a >= 2 THEN 2 ELSE 1
PieceAt(a, b) == IF b - a >= 4 /\ IsAligned(4, a) THEN 4
                 ELSE IF b - a >= 2 /\ IsAligned(2, a) THEN 2
                 ELSE 1
\* The places the loop comes to: no piece from an earlier place reaches past them.
Cuts(a, b) == {x \in a .. b - 1 : \A y \in a .. x - 1 : y + PieceAt(y, b) <= x}
AddFieldGap(a, b) == {[start |-> x, size |-> PieceAt(x, b)] : x \in Cuts(a, b)}

\* The offset rounded up to n, and the gap that leaves.
Rounded(n) == RoundUp(offset, n)
GapsRoundedOver(n) == gaps \union AddFieldGap(offset, Rounded(n) + 1)
GapsRounded(n) == gaps \union AddFieldGap(offset, Rounded(n))
RefSlotUnrounded == offset
RefSlot == Rounded(RefSize)

-----------------------------------------------------------------------------
\* LinkInstanceFields and LinkStaticFields: LinkFields up to the sort.  Only
\* java.lang.ref.Reference, below Object and with references only, lies about
\* its referent.
LinkFields(fs, static, start, reference) ==
    /\ step = "idle" /\ super.depth < Depth
    /\ reference => ~static /\ super = Object /\ fs # {} /\ \A f \in fs : f.type = "ref"
    /\ klass' = [fields |-> fs, static |-> static, reference |-> reference, start |-> start]
    /\ todo' = fs /\ offset' = start /\ gaps' = {} /\ placed' = {}
    /\ step' = "refs" /\ width' = 8
    /\ UNCHANGED super

\* One turn of the loop over the references.
PlaceReference ==
    /\ step = "refs"
    /\ \E f \in todo :
          /\ IsFront(f) /\ f.type = "ref"
          /\ placed' = placed \union {[field |-> f, at |-> RefSlot]}
          /\ todo' = todo \ {f}
    /\ gaps' = GapsRounded(RefSize)
    /\ offset' = RefSlot + RefSize
    /\ UNCHANGED <<super, klass, step, width>>

EndReferences ==
    /\ step = "refs"
    /\ todo # {} => \E f \in todo : IsFront(f) /\ f.type # "ref"
    /\ step' = "shuffle"
    /\ UNCHANGED <<super, klass, todo, width, offset, gaps, placed>>

\* One turn of ShuffleForward<width>: the offset is rounded up in any case; the
\* field takes the start of the largest gap if that is large enough, what is
\* left of it is a gap again.
ShuffleForward ==
    /\ step = "shuffle"
    /\ \E f \in todo :
          /\ IsFront(f) /\ FieldSize(f) >= width
          /\ todo' = todo \ {f}
          /\ \/ \E top \in GapsRounded(width) :
                   /\ IsTop(top, GapsRounded(width)) /\ top.size >= width
                   /\ placed' = placed \union {[field |-> f, at |-> top.start]}
                   /\ offset' = Rounded(width)
                   /\ gaps' = (GapsRounded(width) \ {top})
                                  \union AddFieldGap(top.start + width, top.start + top.size)
             \/ /\ \A g \in GapsRounded(width) : g.size < width
                /\ placed' = placed \union {[field |-> f, at |-> Rounded(width)]}
                /\ offset' = Rounded(width) + width
                /\ gaps' = GapsRounded(width)
    /\ UNCHANGED <<super, klass, step, width>>

NextShuffle ==
    /\ step = "shuffle" /\ width > 1
    /\ todo # {} => \E f \in todo : IsFront(f) /\ FieldSize(f) < width
    /\ width' = width \div 2
    /\ UNCHANGED <<super, klass, todo, step, offset, gaps, placed>>

\* num_reference_fields: the referent, last in name, is not counted.
NumReferences ==
    Cardinality({f \in klass.fields : f.type = "ref"}) - (IF klass.reference THEN 1 ELSE 0)

\* The superclass's bits and those of the class's own references, which lie
\* together from the first aligned offset after the superclass.
StartBitUnrounded == (super.size - ObjectHeader) \div RefSize
StartBit == (RoundUp(super.size, RefSize) - ObjectHeader) \div RefSize
CreateReferenceInstanceOffsetsWide ==
    IF super.bitmap = WalkSuper \/ NumReferences = 0 THEN super.bitmap
    ELSE super.bitmap \union (StartBit .. StartBit + NumReferences - 1)
CreateReferenceInstanceOffsets ==
    IF super.bitmap = WalkSuper \/ NumReferences = 0 THEN super.bitmap
    ELSE IF StartBit + NumReferences > BitmapBits THEN WalkSuper
    ELSE super.bitmap \union (StartBit .. StartBit + NumReferences - 1)

\* The references the collector is to visit: all but the referent.
Scanned == {p \in placed : p.field.type = "ref" /\ ~(klass.reference
                /\ \A q \in placed : q.field.idx <= p.field.idx)}

\* The tail of LinkFields: the sizes and flags of the class, then (LinkClass,
\* once the static fields are done too) its bitmap.  The layout of static
\* fields ends in the class size and leaves the instances as they are.
FinishLayout ==
    /\ step = "shuffle" /\ width = 1 /\ todo = {}
    /\ super' = IF klass.static THEN super
                ELSE [depth |-> super.depth + 1, size |-> offset,
                      bitmap |-> CreateReferenceInstanceOffsets,
                      noRefs |-> NumReferences = 0 /\ super.noRefs,
                      layout |-> super.layout \union {[at |-> p.at, size |-> FieldSize(p.field)] : p \in placed},
                      scanned |-> super.scanned \union {p.at : p \in Scanned}]
    /\ step' = "idle" /\ klass' = NoKlass /\ placed' = {} /\ gaps' = {} /\ offset' = 0 /\ width' = 8
    /\ UNCHANGED todo

\* The linker turns to another direct subclass of Object.
NewHierarchy == /\ step = "idle" /\ super # Object
                /\ super' = Object
                /\ UNCHANGED <<klass, todo, step, width, offset, gaps, placed>>

LinkInstanceFields == \E d \in 1..Depth, reference \in BOOLEAN :
    d = super.depth + 1 /\ \E fs \in Shapes[d] : LinkFields(fs, FALSE, super.size, reference)
LinkStaticFields == \E start \in StaticStarts, fs \in Shapes[1] :
    super = Object /\ LinkFields(fs, TRUE, start, FALSE)

LayoutNext == \/ LinkInstanceFields \/ LinkStaticFields
              \/ PlaceReference \/ EndReferences \/ ShuffleForward \/ NextShuffle
              \/ FinishLayout \/ NewHierarchy

LayoutSpec == LayoutInit /\ [][LayoutNext]_vars

-----------------------------------------------------------------------------
\* Types of the layout's state.
LayoutTypeOK ==
    /\ super.depth \in 0..Depth /\ super.size \in Nat /\ super.size >= ObjectHeader
    /\ super.bitmap # WalkSuper => super.bitmap \subseteq 0 .. BitmapBits - 1
    /\ todo \subseteq klass.fields
    /\ step \in {"idle", "refs", "shuffle"} /\ width \in {1, 2, 4, 8} /\ offset \in Nat
    /\ \A g \in gaps : g.size \in {1, 2, 4} /\ g.start \in Nat
    /\ {p.field : p \in placed} = klass.fields \ todo

Apart(a, m, b, n) == a + m <= b \/ b + n <= a

\* Every field given an offset is aligned to its size, lies between the end of
\* the superclass (or the first static offset) and the size so far, and shares
\* no byte with another field of the class or with one it inherits: rounding,
\* gap filling and the superclass's size, used unaligned, never collide.
FieldsDisjoint ==
    /\ \A p \in placed : /\ IsAligned(FieldSize(p.field), p.at)
                         /\ klass.start <= p.at /\ p.at + FieldSize(p.field) <= offset
    /\ \A p, q \in placed : p # q => Apart(p.at, FieldSize(p.field), q.at, FieldSize(q.field))
    /\ ~klass.static =>
           \A p \in placed, s \in super.layout : Apart(p.at, FieldSize(p.field), s.at, s.size)

\* The gaps queued are free: aligned to their size, below the offset, and apart
\* from each other and from every field, however often one was split.
GapsAreFree ==
    \A g \in gaps :
        /\ IsAligned(g.size, g.start) /\ klass.start <= g.start /\ g.start + g.size <= offset
        /\ \A h \in gaps \ {g} : Apart(g.start, g.size, h.start, h.size)
        /\ \A p \in placed : Apart(g.start, g.size, p.at, FieldSize(p.field))

\* LinkFields' own check at its end: the references of a class lie together, in
\* name order, from the first aligned offset; a primitive shuffled before them
\* is smaller than a reference, ends before the first and is not aligned as one.
ReferencesTogether ==
    LET first == RoundUp(klass.start, RefSize)
        refs == {f \in klass.fields : f.type = "ref"}
    IN step = "shuffle" =>
         \A p \in placed :
            IF p.field.type = "ref"
            THEN p.at = first + RefSize * Cardinality({f \in refs : f.idx < p.field.idx})
            ELSE p.at < first + RefSize * Cardinality(refs) =>
                     /\ FieldSize(p.field) < RefSize
                     /\ p.at + FieldSize(p.field) <= first
                     /\ ~IsAligned(RefSize, p.at)

\* A class that was linked has in its bitmap the references of its whole
\* hierarchy, the referent of Reference excepted, and nothing else; it says
\* "walk super" only if one of them has no bit; and it is flagged as free of
\* references exactly if none is to be visited.
BitmapExact ==
    LET bits == {(at - ObjectHeader) \div RefSize : at \in super.scanned}
    IN /\ IF super.bitmap = WalkSuper THEN \E b \in bits : b >= BitmapBits ELSE super.bitmap = bits
       /\ super.noRefs <=> super.scanned = {}

\* What LinkFields promises of the layout, at every moment of it.
LayoutSound == LayoutTypeOK /\ FieldsDisjoint /\ GapsAreFree

\* What the collector relies on: it finds every reference of an object, by the
\* bitmap or, class by class, by the first offset and the number of references.
ReferencesFound == ReferencesTogether /\ BitmapExact
==============================================================================
