------------------------------ MODULE ClassLink ------------------------------
(***************************************************************************)
(* Linking the methods of a class: LinkSuperClass, LinkMethods,            *)
(* SetupInterfaceLookupTable, LinkVirtualMethods, LinkInterfaceMethods and *)
(* the interface method tables (IMTs) of class_linker.c.                   *)
(*                                                                         *)
(* Types are linked one after the other, each with a definition chosen     *)
(* from Defs; a linked class keeps its vtable, its interface table with a  *)
(* method array per interface, and an IMT.  A method is a record: two      *)
(* pointers are equal when the records are, which hold the class that      *)
(* declares the method (decl) and the one whose method array holds it      *)
(* (own).  Indices count from 1.                                           *)
(***************************************************************************)
EXTENDS Integers, Sequences, FiniteSets, TLC, SequencesExt, FiniteSetsExt

CONSTANTS Order,     \* the names of the types, in the order they are linked
          Defs,      \* Defs[k]: the definitions k may have
          Pkg,       \* Pkg[k]: the package of k
          Hash,      \* Hash[s]: the hash of the name of signature s
          ImtIndex,  \* ImtIndex[s]: the IMT slot of signature s
          ImtSize,   \* the number of IMT slots
          MaxCalls   \* bound: the interface calls that meet a conflict

VARIABLES cls, imts, conflicts, calls,
          aborted    \* the check that ended the process, or "none"
vars == <<cls, imts, conflicts, calls, aborted>>

Names == {"Object"} \union Range(Order)
Sigs == DOMAIN ImtIndex
Kinds == {"abstract", "concrete", "final", "pkg"}
Definitions == [iface : BOOLEAN, super : Names, ifs : Seq(Names), inst : BOOLEAN, public : BOOLEAN,
                final : BOOLEAN, methods : Seq([sig : Sigs, kind : Kinds])]
\* A class declares a signature once and an interface has neither final nor
\* package-private methods; the loader and the verifier of dex files reject others.
ASSUME LinkAssumption ==
    /\ Order \in Seq(Names \ {"Object", "conflict", "miranda"})
    /\ "o" \in Sigs /\ Sigs \intersect {"none", "unimplemented", "conflict"} = {}
    /\ \A s \in Sigs : ImtIndex[s] \in 1..ImtSize /\ Hash[s] \in Nat
    /\ MaxCalls \in Nat
    /\ \A k \in Range(Order) : \A d \in Defs[k] :
          /\ d \in Definitions
          /\ \A i, j \in DOMAIN d.methods : d.methods[i].sig = d.methods[j].sig => i = j
          /\ d.iface => ~d.inst /\ \A i \in DOMAIN d.methods : d.methods[i].kind \in {"abstract", "concrete"}

\* The table f with an entry v for k.
With(f, k, v) == [x \in DOMAIN f \union {k} |-> IF x = k THEN v ELSE f[x]]

----------------------------------------------------------------------------
\* Methods.

NoMethod == [sig |-> "none"]
\* kind: "abstract", "concrete", "final" or "pkg" (package-private).
Method(k, s, kind) ==
    [sig |-> s, decl |-> k, own |-> k, abs |-> kind = "abstract", pub |-> kind /= "pkg",
     final |-> kind = "final", conf |-> FALSE, copied |-> FALSE]
Declared(k, d) == [i \in DOMAIN d.methods |-> Method(k, d.methods[i].sig, d.methods[i].kind)]

\* ArtMethod: the copy of an interface method in a class may be overridden by a
\* default method, a method of a class may not.
IsOverridableByDefaultMethod(m) == m.decl /= "Object" /\ cls[m.decl].iface
CanAccessMember(k, m) == m.pub \/ Pkg[k] = Pkg[m.decl]

\* FindSameNameAndSignature in a list of methods.
FindSameNameAndSignature(s, list) ==
    LET hits == {i \in DOMAIN list : list[i].sig = s}
    IN  IF hits = {} THEN NoMethod ELSE list[Min(hits)]

IsAssignableFrom(i, j) == i = j \/ i \in Range(cls[j].iftable)
Declares(i, s) == \E x \in DOMAIN cls[i].decl : cls[i].decl[x].sig = s

----------------------------------------------------------------------------
\* The superclass and the interface table.

LinkSuperClass(k, d) ==
    CASE d.iface /\ d.super /= "Object" -> "ClassFormatError"
      [] cls[d.super].final -> "VerifyError"
      [] cls[d.super].iface -> "IncompatibleClassChangeError"
      [] ~cls[d.super].public /\ Pkg[k] /= Pkg[d.super] -> "IllegalAccessError"
      [] OTHER -> "none"

\* What list has and table lacks goes behind it.
AddOne(table, e) == IF e \in Range(table) THEN table ELSE Append(table, e)
AddMissing(table, list) ==
    LET add[n \in 0..Len(list)] == IF n = 0 THEN table ELSE AddOne(add[n - 1], list[n])
    IN  add[Len(list)]

\* Mutant: an interface goes before its superinterfaces.
FillOneFlat(table, i) ==
    IF i \in Range(table) THEN table ELSE AddMissing(Append(table, i), cls[i].iftable)
\* Every interface comes after its own superinterfaces.
FillOne(table, i) ==
    IF i \in Range(table) THEN table ELSE Append(AddMissing(table, cls[i].iftable), i)
FillIfTable(table, toProcess) ==
    LET fill[n \in 0..Len(toProcess)] == IF n = 0 THEN table ELSE FillOne(fill[n - 1], toProcess[n])
    IN  fill[Len(toProcess)]

SetupInterfaceLookupTable(d) ==
    [iftable |-> FillIfTable(cls[d.super].iftable, d.ifs),
     err |-> IF \E i \in Range(d.ifs) : ~cls[i].iface THEN "IncompatibleClassChangeError" ELSE "none"]

----------------------------------------------------------------------------
\* Default methods.

\* Mutant: the table is searched on the wrong side.
ContainsOverridingBefore(s, iftable, n) ==
    \E x \in 1..n - 1 : Declares(iftable[x], s) /\ IsAssignableFrom(iftable[n], iftable[x])
\* Some interface after the n-th declares s and extends the n-th.
ContainsOverridingMethodOf(s, iftable, n) ==
    \E x \in n + 1..Len(iftable) :
        Declares(iftable[x], s) /\ IsAssignableFrom(iftable[n], iftable[x])

\* The interface table is read backwards; the first default method that nothing
\* overrides is chosen, another one that is not above it makes a conflict.
SearchInterface(s, iftable, was, k) ==
    LET m == FindSameNameAndSignature(s, cls[iftable[k]].decl)
    IN  IF was.res = "conflict" \/ m = NoMethod \/ (m /= NoMethod => m.abs)
           \/ ContainsOverridingMethodOf(s, iftable, k) THEN was
        ELSE IF was.res = "abstract" THEN [res |-> "found", m |-> m]
        ELSE IF IsAssignableFrom(iftable[k], was.m.decl) THEN was
        ELSE [res |-> "conflict", m |-> NoMethod]
FindDefaultMethodImplementation(s, iftable) ==
    LET scan[x \in 0..Len(iftable)] ==
            IF x = 0 THEN [res |-> "abstract", m |-> NoMethod]
            ELSE SearchInterface(s, iftable, scan[x - 1], Len(iftable) + 1 - x)
    IN  scan[Len(iftable)]

----------------------------------------------------------------------------
\* LinkVirtualHashTable: open addressing with linear probing.

Invalid == -1
Removed == -2
Probe(tab, h, x) == tab[(h + x) % Cardinality(DOMAIN tab)]

HashAdd(tab, h, i) ==
    LET size == Cardinality(DOMAIN tab)
        free == {x \in 0..size - 1 : Probe(tab, h, x) = Invalid}
    IN  [tab EXCEPT ![(h + Min(free)) % size] = i]

\* Mutant: the search also ends at a slot whose method was removed.
FindSlotStops(tab, decl, s) ==
    LET size == Cardinality(DOMAIN tab)
        hits == {x \in 0..size - 1 : /\ \A y \in 0..x : Probe(tab, Hash[s], y) \notin {Invalid, Removed}
                                     /\ decl[Probe(tab, Hash[s], x)].sig = s}
    IN  IF hits = {} THEN Invalid ELSE (Hash[s] + Min(hits)) % size
\* Mutant: a method with the same hash is taken without comparing signatures.
FindSlotByHash(tab, decl, s) ==
    LET slot == Hash[s] % Cardinality(DOMAIN tab)
    IN  IF tab[slot] \in {Invalid, Removed} THEN Invalid ELSE slot
\* The slot that holds a method of signature s, or Invalid: the search ends at
\* the first slot that was never used.
FindSlot(tab, decl, s) ==
    LET size == Cardinality(DOMAIN tab)
        hits == {x \in 0..size - 1 : /\ \A y \in 0..x : Probe(tab, Hash[s], y) /= Invalid
                                     /\ Probe(tab, Hash[s], x) /= Removed
                                     /\ decl[Probe(tab, Hash[s], x)].sig = s}
    IN  IF hits = {} THEN Invalid ELSE (Hash[s] + Min(hits)) % size

----------------------------------------------------------------------------
\* LinkVirtualMethods.

NoTranslations == <<>>
\* One entry of the superclass's vtable: overridden by a declared method, or to
\* be translated when the default method it stands for has changed.
OverrideEntry(k, decl, iftable, st, j) ==
    LET m == st.vtable[j]
        slot == FindSlot(st.hash, decl, m.sig)
        default == FindDefaultMethodImplementation(m.sig, iftable)
        translated == CASE default.res = "conflict" -> ~m.conf
                        [] default.res = "abstract" -> ~m.abs
                        [] default.res = "found" -> m.conf \/ default.m.decl /= m.decl
    IN  IF st.err /= "none" \/ ~CanAccessMember(k, m) THEN st
        ELSE
        CASE slot /= Invalid /\ m.final -> [st EXCEPT !.err = "LinkageError"]
          [] slot /= Invalid /\ ~m.final ->
                 [st EXCEPT !.vtable[j] = decl[st.hash[slot]], !.hash[slot] = Removed]
          [] slot = Invalid /\ IsOverridableByDefaultMethod(m) /\ translated ->
                 [st EXCEPT !.trans = With(@, j, default)]
          [] OTHER -> st

\* The table with the declared methods in it.
HashTable(decl) ==
    LET table[i \in 0..Len(decl)] ==
            IF i = 0 THEN [x \in 0..3 * Len(decl) |-> Invalid]
            ELSE HashAdd(table[i - 1], Hash[decl[i].sig], i)
    IN  table[Len(decl)]
\* The superclass's vtable with all its entries overridden.
OverrideEntries(k, decl, iftable, vtable) ==
    LET over[j \in 0..Len(vtable)] ==
            IF j = 0 THEN [vtable |-> vtable, hash |-> HashTable(decl), trans |-> NoTranslations, err |-> "none"]
            ELSE OverrideEntry(k, decl, iftable, over[j - 1], j)
    IN  over[Len(vtable)]

LinkVirtualMethods(k, d, iftable) ==
    LET super == cls[d.super]
        decl == Declared(k, d)
        st == OverrideEntries(k, decl, iftable, super.vtable)
    IN  IF d.iface THEN [vtable |-> <<>>, trans |-> NoTranslations, err |-> "none"]
        ELSE IF Len(decl) = 0 /\ Len(super.iftable) = Len(iftable)
        THEN [vtable |-> super.vtable, trans |-> NoTranslations, err |-> "none"]
        ELSE [vtable |-> AddMissing(st.vtable, decl), trans |-> st.trans, err |-> st.err]

----------------------------------------------------------------------------
\* Interface method tables.  A slot holds "unimplemented", a method, or the
\* number of a conflict method: 0 is the one the runtime shares.

Unimplemented == [sig |-> "unimplemented"]
ConflictMethod(c) == [sig |-> "conflict", id |-> c]
IsRuntimeMethod(m) == m.sig \in {"unimplemented", "conflict"}
EmptyImt == [x \in 1..ImtSize |-> Unimplemented]

\* Mutant: a second method in a slot replaces the first.
SetIMTRefLast(ref, m) == m
\* SetIMTRef: what becomes of slot ref when it gets method m.
SetIMTRef(ref, m) ==
    IF ref = Unimplemented \/ (~IsRuntimeMethod(ref) /\ ref.sig = m.sig) THEN m ELSE ConflictMethod(0)

\* FillIMTFromIfTable, without its conflict tables.
FillIMTFromIfTable(imt, c, ignoreCopied) ==
    LET methods == FlattenSeq(c.arrays)
    IN  FoldLeft(LAMBDA t, m : IF ignoreCopied /\ m.copied THEN t
                               ELSE [t EXCEPT ![ImtIndex[m.sig]] = SetIMTRef(@, m)],
                 imt, methods)

FillImtFromSuperClass(d) ==
    IF cls[d.super].inst THEN imts[cls[d.super].imt]
    ELSE FillIMTFromIfTable(EmptyImt, cls[d.super], TRUE)

InstOrSuper(c) == IF cls[c].inst THEN c ELSE cls[c].super
\* The nearest superclass that has an IMT, Object at the latest.
LastSuper(d) ==
    LET up[n \in 0..Len(Order)] == IF n = 0 THEN d.super ELSE InstOrSuper(up[n - 1])
    IN  up[Len(Order)]
FindSuperImt(d) == IF cls[LastSuper(d)].inst THEN cls[LastSuper(d)].imt ELSE 0

----------------------------------------------------------------------------
\* LinkInterfaceMethods.  The state of its helper: the method arrays, the IMT
\* and the five lists of methods to be added to the class.

AllocateIfTableMethodArrays(d, iftable) ==
    [i \in DOMAIN iftable |->
        IF i <= Len(cls[d.super].iftable) THEN cls[d.super].arrays[i]
        ELSE [j \in DOMAIN cls[iftable[i]].decl |-> NoMethod]]

\* What FindMethod settles on, and the list it adds a new method to.  A second
\* default method of the same signature ends the process.
FindMethod(iftable, h, im, vtableImpl, isInterface) ==
    LET search == FindDefaultMethodImplementation(im.sig, iftable)
        has == vtableImpl /= NoMethod
        oldConflict == FindSameNameAndSignature(im.sig, h.conflict \o h.overridingConflict)
        oldDefault == FindSameNameAndSignature(im.sig, h.default \o h.overridingDefault)
        fresh == [im EXCEPT !.own = "conflict"]
    IN  CASE search.res = "conflict" /\ has /\ (has => vtableImpl.conf) -> [h |-> h, m |-> vtableImpl]
          [] search.res = "conflict" /\ (has => ~vtableImpl.conf) /\ oldConflict /= NoMethod ->
                 [h |-> h, m |-> oldConflict]
          [] search.res = "conflict" /\ (has => ~vtableImpl.conf) /\ oldConflict = NoMethod ->
                 [h |-> IF has THEN [h EXCEPT !.overridingConflict = Append(@, fresh)]
                        ELSE [h EXCEPT !.conflict = Append(@, fresh)],
                  m |-> fresh]
          [] search.res = "found" /\ has /\ (has => vtableImpl.decl = search.m.decl) ->
                 [h |-> h, m |-> vtableImpl]
          [] search.res = "found" /\ (has => vtableImpl.decl /= search.m.decl) ->
                 [h |-> IF isInterface \/ oldDefault = search.m THEN h
                        ELSE IF oldDefault /= NoMethod THEN [h EXCEPT !.err = "CHECK: default"]
                        ELSE IF has THEN [h EXCEPT !.overridingDefault = Append(@, search.m)]
                        ELSE [h EXCEPT !.default = Append(@, search.m)],
                  m |-> search.m]
          [] search.res = "abstract" ->
                 [h |-> h,
                  m |-> IF has /\ (has => vtableImpl.abs /\ ~vtableImpl.conf) THEN vtableImpl ELSE NoMethod]

GetOrCreateMirandaMethod(h, im) ==
    LET old == FindSameNameAndSignature(im.sig, h.miranda)
        fresh == [im EXCEPT !.own = "miranda"]
    IN  IF old /= NoMethod THEN [h |-> h, m |-> old]
        ELSE [h |-> [h EXCEPT !.miranda = Append(@, fresh)], m |-> fresh]

\* The method array and the IMT get m for the j-th method of interface i.
Record(h, i, j, m) ==
    LET slot == ImtIndex[m.sig]
        ref == SetIMTRef(h.imt[slot], m)
    IN  [h EXCEPT !.arrays[i][j] = m, !.imt[slot] = ref,
                  !.newConflict = @ \/ ref = ConflictMethod(0)]

\* The last method of a signature in a list.
LastOf(s, list) ==
    LET hits == {x \in DOMAIN list : list[x].sig = s}
    IN  IF hits = {} THEN NoMethod ELSE list[Max(hits)]
\* A method that a default method may override in k.
OverridableIn(k, d, m) == IF m.decl = k THEN d.iface ELSE IsOverridableByDefaultMethod(m)
\* The method that FindMethod settles on for im, a miranda method if there is none
\* and the superclass does not implement the interface.
FindOrCreate(d, iftable, h, im, vtableImpl, superInterface) ==
    LET got == FindMethod(iftable, h, im, vtableImpl, d.iface)
    IN  IF got.m = NoMethod /\ ~superInterface /\ ~d.iface THEN GetOrCreateMirandaMethod(got.h, im) ELSE got
\* hit is the method of the class itself, or of its vtable when the interface is
\* new; otherwise the found one is taken, unless a method of a class is there.
Implement(k, d, h, i, j, superInterface, hit, found) ==
    IF h.err /= "none" THEN h
    ELSE IF hit /= NoMethod /\ (hit /= NoMethod => ~hit.abs /\ ~hit.pub) THEN [h EXCEPT !.err = "IllegalAccessError"]
    ELSE IF hit /= NoMethod /\ (hit /= NoMethod => ~OverridableIn(k, d, hit))
    THEN IF d.iface THEN h ELSE Record(h, i, j, hit)
    ELSE IF superInterface /\ (superInterface => ~OverridableIn(k, d, h.arrays[i][j])) THEN h
    ELSE IF found.m = NoMethod \/ d.iface THEN found.h
    ELSE Record(found.h, i, j, found.m)
LinkInterfaceMethod(k, d, v, iftable, h, i, j) ==
    LET im == cls[iftable[i]].decl[j]
        declared == LastOf(im.sig, Declared(k, d))
        inherited == IF d.iface THEN declared ELSE LastOf(im.sig, v.vtable)
    IN  IF i <= Len(cls[d.super].iftable)
        THEN Implement(k, d, h, i, j, TRUE, declared, FindOrCreate(d, iftable, h, im, h.arrays[i][j], TRUE))
        ELSE Implement(k, d, h, i, j, FALSE, inherited, FindOrCreate(d, iftable, h, im, inherited, FALSE))

NewHelper(d, iftable) ==
    [arrays |-> IF d.iface THEN [i \in DOMAIN iftable |-> <<>>]
                ELSE AllocateIfTableMethodArrays(d, iftable),
     imt |-> IF d.iface THEN EmptyImt ELSE FillImtFromSuperClass(d),
     newConflict |-> ~d.iface /\ ~cls[d.super].inst
                     /\ \E x \in 1..ImtSize : FillImtFromSuperClass(d)[x] = ConflictMethod(0),
     miranda |-> <<>>, default |-> <<>>, overridingDefault |-> <<>>,
     conflict |-> <<>>, overridingConflict |-> <<>>,
     err |-> "none"]
\* The methods of the i-th interface in order, the interfaces from the last to
\* the first.
LinkInterface(k, d, v, iftable, h, i) ==
    LET link[j \in 0..Len(cls[iftable[i]].decl)] ==
            IF j = 0 THEN h ELSE LinkInterfaceMethod(k, d, v, iftable, link[j - 1], i, j)
    IN  link[Len(cls[iftable[i]].decl)]
LinkInterfaceMethodsLoop(k, d, v, iftable) ==
    LET link[x \in 0..Len(iftable)] ==
            IF x = 0 THEN NewHelper(d, iftable)
            ELSE LinkInterface(k, d, v, iftable, link[x - 1], Len(iftable) + 1 - x)
    IN  link[Len(iftable)]

\* ReallocMethods: the copy a listed method gets in the methods of k.
MoveMiranda(k, m) == [m EXCEPT !.own = k, !.copied = TRUE]
MoveDefault(k, m) == [m EXCEPT !.own = k, !.copied = TRUE]
MoveConflict(k, m) == [m EXCEPT !.own = k, !.copied = TRUE, !.conf = TRUE, !.abs = FALSE]
NewVirtuals(h) == h.miranda \o h.default \o h.overridingDefault \o h.conflict \o h.overridingConflict

\* The move table; a method that is not in it stays.
Move(k, h, m) ==
    CASE m \in Range(h.miranda) -> MoveMiranda(k, m)
      [] m \in Range(h.default \o h.overridingDefault) -> MoveDefault(k, m)
      [] m \in Range(h.conflict \o h.overridingConflict) -> MoveConflict(k, m)
      [] OTHER -> m
MoveAll(k, h, list) == [x \in DOMAIN list |-> Move(k, h, list[x])]

\* Mutant: default methods enter the vtable without being copied into the class.
UpdateVtableUncopied(k, v, h) ==
    MoveAll(k, [h EXCEPT !.default = <<>>, !.overridingDefault = <<>>],
            v.vtable \o h.default \o h.conflict \o h.miranda)
\* A conflict method that is missing ends the process; so does a default method
\* the move table lacks, since the code reads behind the table's end.
TranslationCheck(v, h) ==
    IF \E i \in DOMAIN v.trans : /\ v.trans[i].res = "conflict"
                                 /\ FindSameNameAndSignature(v.vtable[i].sig, h.overridingConflict) = NoMethod
    THEN "CHECK: conflict"
    ELSE IF \E i \in DOMAIN v.trans : /\ v.trans[i].res = "found"
                                      /\ v.trans[i].m \notin Range(h.default \o h.overridingDefault)
    THEN "DCHECK: move" ELSE "none"
\* The i-th entry of the vtable, translated.  An entry that became abstract is
\* looked up among the miranda methods; when there is none it stays as it is.
TranslateVtableEntry(k, v, h, i) ==
    LET m == v.vtable[i]
        t == v.trans[i]
        miranda == FindSameNameAndSignature(m.sig, h.miranda)
    IN  IF i \notin DOMAIN v.trans THEN Move(k, h, m)
        ELSE CASE t.res = "conflict" -> Move(k, h, FindSameNameAndSignature(m.sig, h.overridingConflict))
               [] t.res = "abstract" -> IF miranda = NoMethod THEN m ELSE Move(k, h, miranda)
               [] t.res = "found" -> Move(k, h, t.m)
\* The old entries translated, the new ones at the end.
UpdateVtable(k, v, h) ==
    [i \in DOMAIN v.vtable |-> TranslateVtableEntry(k, v, h, i)]
        \o MoveAll(k, h, h.default) \o MoveAll(k, h, h.conflict) \o MoveAll(k, h, h.miranda)
\* Mutant: the method arrays keep the methods that were not yet copied.
UpdateIfTableStale(k, h) == h.arrays
UpdateIfTable(k, h) == [i \in DOMAIN h.arrays |-> MoveAll(k, h, h.arrays[i])]
UpdateIMT(k, h) == MoveAll(k, h, h.imt)

----------------------------------------------------------------------------
\* LinkClass, up to the point where the class is resolved.

\* Mutant: a class that failed to link can be instantiated.
FailedInstantiable(d) == [iface |-> d.iface, super |-> d.super, public |-> d.public, final |-> d.final,
              inst |-> d.inst, ifs |-> d.ifs, decl |-> <<>>, virtuals |-> <<>>, iftable |-> <<>>,
              arrays |-> <<>>, vtable |-> <<>>, imt |-> 0, ok |-> FALSE]
Failed(d) == [ok |-> FALSE, iface |-> d.iface, super |-> d.super, public |-> d.public, final |-> d.final,
              inst |-> FALSE, ifs |-> d.ifs, decl |-> <<>>, virtuals |-> <<>>, iftable |-> <<>>,
              arrays |-> <<>>, vtable |-> <<>>, imt |-> 0]

Usable(k, d) == \A p \in {d.super} \union Range(d.ifs) : p \in DOMAIN cls /\ cls[p].ok

\* The vtable changes only when the class gets new methods; interfaces have none.
ChangesVtable(d, h) == NewVirtuals(h) /= <<>> /\ ~d.iface
\* The linked class, from its interface table, what became of its virtual methods
\* (v) and of its interface methods (h).
LinkedClass(k, d, iftable, v, h) ==
    [Failed(d) EXCEPT
       !.ok = TRUE, !.inst = d.inst, !.decl = Declared(k, d),
       !.virtuals = Declared(k, d) \o MoveAll(k, h, NewVirtuals(h)),
       !.iftable = iftable, !.arrays = UpdateIfTable(k, h),
       !.vtable = IF ChangesVtable(d, h) THEN UpdateVtable(k, v, h) ELSE v.vtable]

\* The first error there is, of the stages.
FirstError(d, setup, v, h) ==
    IF setup.err /= "none" THEN setup.err
    ELSE IF v.err /= "none" THEN v.err
    ELSE IF h.err /= "none" THEN h.err
    ELSE IF ChangesVtable(d, h) THEN TranslationCheck(v, h) ELSE "none"
Aborts == {"CHECK: default", "CHECK: conflict", "DCHECK: move"}

LinkInterfaceMethods(k, d, setup, v, h) ==
    [err |-> FirstError(d, setup, v, h), imt |-> UpdateIMT(k, h), newConflict |-> h.newConflict,
     c |-> LinkedClass(k, d, setup.iftable, v, h)]
LinkMethodsWith(k, d, setup, v) ==
    LinkInterfaceMethods(k, d, setup, v, LinkInterfaceMethodsLoop(k, d, v, setup.iftable))
LinkMethodsOver(k, d, setup) == LinkMethodsWith(k, d, setup, LinkVirtualMethods(k, d, setup.iftable))
LinkMethods(k, d) == LinkMethodsOver(k, d, SetupInterfaceLookupTable(d))

\* The superclass's IMT is shared if it has the same content and no new conflict.
ShareImt(linked, superImt) ==
    /\ ~linked.newConflict /\ superImt /= 0
    /\ superImt /= 0 => imts[superImt] = linked.imt

\* What is installed once superclass and methods are linked.
Install(k, d, linked, superImt) ==
    IF linked.err \in Aborts THEN aborted' = linked.err /\ UNCHANGED <<cls, imts>>
    ELSE /\ UNCHANGED aborted
         /\ IF linked.err /= "none" THEN cls' = With(cls, k, Failed(d)) /\ UNCHANGED imts
            ELSE IF ~d.inst THEN cls' = With(cls, k, linked.c) /\ UNCHANGED imts
            ELSE IF ShareImt(linked, superImt)
            THEN cls' = With(cls, k, [linked.c EXCEPT !.imt = superImt]) /\ UNCHANGED imts
            ELSE /\ imts' = Append(imts, linked.imt)
                 /\ cls' = With(cls, k, [linked.c EXCEPT !.imt = Len(imts) + 1])

LinkClass(k, d) ==
    /\ k \notin DOMAIN cls /\ Usable(k, d)
    /\ \A i \in DOMAIN Order : Order[i] = k => \A x \in 1..i - 1 : Order[x] \in DOMAIN cls
    /\ IF LinkSuperClass(k, d) /= "none"
       THEN cls' = With(cls, k, Failed(d)) /\ UNCHANGED <<imts, aborted>>
       ELSE \E linked \in {LinkMethods(k, d)} : Install(k, d, linked, FindSuperImt(d))
    /\ UNCHANGED <<conflicts, calls>>

\* AddMethodToConflictTable, on the first call of the j-th method of the i-th
\* interface on an object of class k that meets a conflict method; the caller
\* (external) puts the result into the IMT, which classes may share.
AddMethodToConflictTable(k, i, j) ==
    LET c == cls[k]
        im == cls[c.iftable[i]].decl[j]
        m == c.arrays[i][j]
        ref == imts[c.imt][ImtIndex[im.sig]]
        entry == [im |-> im, m |-> m]
    IN
    /\ c.inst /\ calls < MaxCalls
    /\ m /= NoMethod /\ ~m.abs /\ ~m.conf
    /\ ref.sig = "conflict" /\ (ref.sig = "conflict" /\ ref.id /= 0 => \A e \in Range(conflicts[ref.id]) : e.im /= im)
    /\ calls' = calls + 1
    /\ IF ref.id = 0
       THEN /\ conflicts' = Append(conflicts, <<entry>>)
            /\ imts' = [imts EXCEPT ![c.imt][ImtIndex[im.sig]] = ConflictMethod(Len(conflicts) + 1)]
       ELSE /\ conflicts' = [conflicts EXCEPT ![ref.id] = Append(@, entry)]
            /\ UNCHANGED imts
    /\ UNCHANGED <<cls, aborted>>

\* FillIMTAndConflictTables, for the classes of an image (external caller): all
\* conflicts get their tables at once, and an IMT equal to the superclass's is
\* replaced by it.
FillIMTAndConflictTables(k) ==
    LET c == cls[k]
        plain == FillIMTFromIfTable(EmptyImt, c, FALSE)
        clash == SetToSeq({x \in 1..ImtSize : plain[x] = ConflictMethod(0)})
        tableOf(x) == FlattenSeq([i \in DOMAIN c.iftable |->
                          SelectSeq([j \in DOMAIN c.arrays[i] |->
                                        [im |-> cls[c.iftable[i]].decl[j], m |-> c.arrays[i][j]]],
                                    LAMBDA e : ImtIndex[e.im.sig] = x)])
        tables == [n \in DOMAIN clash |-> tableOf(clash[n])]
        filled == [x \in 1..ImtSize |->
                      IF x \in Range(clash)
                      THEN ConflictMethod(Len(conflicts) + CHOOSE n \in DOMAIN clash : clash[n] = x)
                      ELSE plain[x]]
        super == cls[c.super]
        sameSlot(x) == LET r == imts[super.imt][x] IN
            \/ filled[x] = r
            \/ /\ x \in Range(clash) /\ r.sig = "conflict"
               /\ r.sig = "conflict" => r.id /= 0 /\ conflicts[r.id] = tableOf(x)
        same == super.inst /\ (super.inst => \A x \in 1..ImtSize : sameSlot(x))
    IN
    /\ c.inst /\ k /= "Object" /\ calls < MaxCalls
    /\ conflicts' = conflicts \o tables
    /\ IF same THEN /\ cls' = [cls EXCEPT ![k].imt = super.imt]
                    /\ UNCHANGED imts
       ELSE /\ imts' = [imts EXCEPT ![c.imt] = filled]
            /\ UNCHANGED cls
    /\ calls' = IF cls' = cls /\ imts' = imts /\ conflicts' = conflicts THEN calls ELSE calls + 1
    /\ UNCHANGED aborted

----------------------------------------------------------------------------
\* Object has one public method and no interfaces.
ObjectClass == [Failed([iface |-> FALSE, super |-> "Object", public |-> TRUE, final |-> FALSE, ifs |-> <<>>, inst |-> TRUE])
                  EXCEPT !.ok = TRUE, !.inst = TRUE, !.imt = 1,
                         !.decl = <<Method("Object", "o", "concrete")>>,
                         !.virtuals = <<Method("Object", "o", "concrete")>>,
                         !.vtable = <<Method("Object", "o", "concrete")>>]

Init == /\ cls = [k \in {"Object"} |-> ObjectClass]
        /\ imts = <<EmptyImt>>
        /\ conflicts = <<>>
        /\ calls = 0
        /\ aborted = "none"

Ended == /\ Range(Order) \subseteq DOMAIN cls \/ aborted /= "none"
         /\ UNCHANGED vars

Running == \/ \E k \in Range(Order) : \E d \in Defs[k] : LinkClass(k, d)
           \/ \E k \in DOMAIN cls : \E i \in DOMAIN cls[k].iftable : \E j \in DOMAIN cls[k].arrays[i] :
                  AddMethodToConflictTable(k, i, j)
           \/ \E k \in DOMAIN cls : FillIMTAndConflictTables(k)
Next == (aborted = "none" /\ Running) \/ Ended

Spec == Init /\ [][Next]_vars
----------------------------------------------------------------------------
\* Properties.

\* What JVMS 5.4.6 selects for signature s on class k: the nearest class that
\* declares it, else the maximally specific interface methods decide.
ClassOf == [k \in DOMAIN cls |->
               LET up[n \in 0..Len(Order), c \in DOMAIN cls] ==
                       IF n = 0 \/ c = "Object" THEN <<c>> ELSE <<c>> \o up[n - 1, cls[c].super]
               IN  up[Len(Order), k]]
Maximal(k, s) == {i \in Range(cls[k].iftable) :
                     /\ Declares(i, s)
                     /\ \A x \in Range(cls[k].iftable) \ {i} : Declares(x, s) => ~IsAssignableFrom(i, x)}
Select(k, s) ==
    LET classes == {n \in DOMAIN ClassOf[k] : Declares(ClassOf[k][n], s)}
        defaults == {i \in Maximal(k, s) : ~FindSameNameAndSignature(s, cls[i].decl).abs}
    IN  CASE classes /= {} -> [res |-> "class", by |-> ClassOf[k][Min(classes)]]
          [] classes = {} /\ Cardinality(defaults) = 1 -> [res |-> "default", by |-> CHOOSE i \in defaults : TRUE]
          [] classes = {} /\ Cardinality(defaults) > 1 -> [res |-> "conflict", by |-> "none"]
          [] classes = {} /\ defaults = {} -> [res |-> IF Maximal(k, s) = {} THEN "none" ELSE "abstract", by |-> "none"]
\* What a method of a vtable or a method array stands for.
Stands(m) == CASE ~cls[m.decl].iface -> [res |-> "class", by |-> m.decl]
               [] cls[m.decl].iface /\ m.conf -> [res |-> "conflict", by |-> "none"]
               [] cls[m.decl].iface /\ m.abs -> [res |-> "abstract", by |-> "none"]
               [] OTHER -> [res |-> "default", by |-> m.decl]
LinkedClasses == {k \in DOMAIN cls : cls[k].ok /\ ~cls[k].iface}

\* Types of the linked classes, their tables and the conflict tables.
TypeOK ==
    /\ DOMAIN cls \subseteq Names /\ calls \in 0..MaxCalls
    /\ \A k \in DOMAIN cls : cls[k].inst = (cls[k].imt \in DOMAIN imts)

\* A class above or equal to k turned an inherited default into an abstract
\* method, or resolved an inherited conflict.
Unsettled(k) == \E n \in 1..Len(ClassOf[k]) - 1 : \E s \in DOMAIN ImtIndex :
    <<Select(ClassOf[k][n + 1], s).res, Select(ClassOf[k][n], s).res>>
        \in {<<"default", "abstract">>, <<"conflict", "abstract">>, <<"conflict", "default">>}
Settled == {k \in LinkedClasses : ~Unsettled(k)}

\* Virtual calls: in every vtable the accessible entry of a signature is the
\* method that JVMS 5.4.6 selects - a class before an interface, a default only
\* when no subinterface overrides it, a conflict only between unrelated ones -
\* and none is missing, however superclass, old and new interfaces combine.
VtableSelects == \A k \in Settled :
    /\ \A x \in DOMAIN cls[k].vtable :
           LET m == cls[k].vtable[x] IN CanAccessMember(k, m) => Stands(m) = Select(k, m.sig)
    /\ \A s \in DOMAIN ImtIndex : Select(k, s).res /= "none" =>
           \E x \in DOMAIN cls[k].vtable : cls[k].vtable[x].sig = s

\* Interface calls: so is every entry of the method arrays, also those copied
\* from the superclass's table and not looked for again.
ArraysSelect == \A k \in Settled : \A i \in DOMAIN cls[k].arrays : \A j \in DOMAIN cls[k].arrays[i] :
    LET m == cls[k].arrays[i][j] IN m /= NoMethod /\ Stands(m) = Select(k, m.sig)

\* No two accessible entries of the vtable of k have the same signature.
NoDuplicates(k) ==
    \A x, y \in DOMAIN cls[k].vtable :
        /\ CanAccessMember(k, cls[k].vtable[x]) /\ CanAccessMember(k, cls[k].vtable[y])
        /\ cls[k].vtable[x].sig = cls[k].vtable[y].sig
        => x = y
\* CheckVTableHasNoDuplicates: a vtable holds each signature once, so that a
\* subclass overrides all of a method.
SettledNoDuplicates == \A k \in Settled : NoDuplicates(k)

\* Virtual and interface calls reach the method the language selects, and each
\* has one entry to override.
TablesSelect == VtableSelects /\ ArraysSelect /\ SettledNoDuplicates

\* Calls through the IMT end in the method of the method array: directly, in
\* the shared conflict stub, or in a conflict table that holds no other method
\* for it - also when classes share an IMT or a conflict method and one of
\* them adds to it.
ImtDispatch == \A k \in Settled : cls[k].inst =>
    \A i \in DOMAIN cls[k].arrays : \A j \in DOMAIN cls[k].arrays[i] :
        LET m == cls[k].arrays[i][j]
            im == cls[cls[k].iftable[i]].decl[j]
            ref == imts[cls[k].imt][ImtIndex[im.sig]]
        IN  \/ ref = m
            \/ ref = ConflictMethod(0)
            \/ /\ ref.sig = "conflict"
               /\ ref.sig = "conflict" =>
                      ref.id /= 0 /\ \A e \in Range(conflicts[ref.id]) : e.im = im => e.m = m

\* CheckClassOwnsVTableEntries: an entry is a method of the class itself, copies
\* included, or the superclass's entry of the same slot.
OwnsVtable == \A k \in LinkedClasses : \A x \in DOMAIN cls[k].vtable :
    LET m == cls[k].vtable[x]
        sup == cls[cls[k].super].vtable
    IN  m \in Range(cls[k].virtuals) \/ (x \in DOMAIN sup /\ (x \in DOMAIN sup => sup[x] = m))

\* Compiled code keeps slot numbers: a slot has the same signature in every
\* subclass.
SlotsKept == \A k \in LinkedClasses : LET sup == cls[cls[k].super].vtable IN
    /\ Len(sup) <= Len(cls[k].vtable)
    /\ \A x \in DOMAIN sup : sup[x].sig = cls[k].vtable[x].sig

\* The code's own checks: FindMethod finds one default method for a signature
\* ("Multiple default implementations selected!"), and UpdateVtable finds the
\* conflict method that an entry is to be translated to ("Expected a conflict
\* method!"), although one part of the linker sets the translation up and
\* another has to create the method.
LinkerChecksHold == aborted \notin {"CHECK: default", "CHECK: conflict"}

\* DCHECK(it != move_table_.end()) in UpdateVtable: a default method that an entry
\* is to be translated to has been copied into the class.
TranslationMoved == aborted /= "DCHECK: move"

\* The interface table holds exactly the interfaces above the class, each once
\* and after its own superinterfaces: the search for default methods reads it
\* backwards and relies on that.
IfTableOrdered == \A k \in DOMAIN cls : LET t == cls[k].iftable IN
    cls[k].ok =>
    /\ Range(t) = Range(cls[cls[k].super].iftable)
                  \union UNION {{i} \union Range(cls[i].iftable) : i \in Range(cls[k].ifs)}
    /\ \A x, y \in DOMAIN t : x < y => t[x] /= t[y] /\ ~IsAssignableFrom(t[y], t[x])

\* An interface call finds a method of the called signature in the method array:
\* after linking no slot is empty, also none that the superclass filled.
ArraysComplete == \A k \in LinkedClasses : LET t == cls[k].iftable IN
    /\ DOMAIN cls[k].arrays = DOMAIN t
    /\ \A i \in DOMAIN t : /\ DOMAIN cls[k].arrays[i] = DOMAIN cls[t[i]].decl
                          /\ \A j \in DOMAIN cls[t[i]].decl : cls[k].arrays[i][j].sig = cls[t[i]].decl[j].sig

\* A virtual call never picks one of two clashing default methods: where the
\* search finds a conflict, every entry that a default method may override
\* throws, whichever class of the hierarchy brought the second one.
ClashesThrow == \A k \in LinkedClasses : \A x \in DOMAIN cls[k].vtable :
    LET m == cls[k].vtable[x] IN
    IsOverridableByDefaultMethod(m) /\ FindDefaultMethodImplementation(m.sig, cls[k].iftable).res = "conflict"
        => m.conf

\* CheckVTableHasNoDuplicates, as far as it holds for every hierarchy: two entries
\* of a signature are the same method unless the first is a class's own.
DuplicatesAgree == \A k \in LinkedClasses : \A x, y \in DOMAIN cls[k].vtable :
    LET v == cls[k].vtable IN
    x < y /\ v[x].sig = v[y].sig /\ IsOverridableByDefaultMethod(v[x]) => v[x] = v[y]

\* What linking a subclass relies on in the tables of its supertypes.
TablesWellFormed == /\ TypeOK /\ LinkerChecksHold /\ OwnsVtable /\ SlotsKept /\ IfTableOrdered
                    /\ ArraysComplete /\ DuplicatesAgree
==============================================================================
