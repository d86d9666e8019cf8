-------------------------- MODULE ClassDefineProofs --------------------------
(***************************************************************************)
(* Proofs about ClassDefine, for every class hierarchy, loader graph and   *)
(* number of threads: FindClass returns a class or an exception, never     *)
(* both; every thread that finds a class finds the one the table holds,    *)
(* resolved; one dex cache per file; parents resolved first; tables whose  *)
(* entries stay.                                                           *)
(*                                                                         *)
(* Three invariants, each inductive given the ones before it:              *)
(*   Consistent  objects, tables, caches, frames and the calls between     *)
(*               them fit together;                                        *)
(*   Ordered     how far each DefineClass has come with its parents;       *)
(*   Sound       where an exception can be pending, for which loaders the  *)
(*               calls under way are made, and which of them must fail.    *)
(***************************************************************************)
EXTENDS ClassDefine, FiniteSetTheorems, SequenceTheorems, TLAPS

----------------------------------------------------------------------------
\* Types.

Exceptions == {"ClassCircularityError", "NoClassDefFoundError", "ClassNotFoundException",
               "NullPointerException", "InternalError", "OutOfMemoryError", "LinkageError"}
Statuses == {"kIdx", "kLoaded", "kResolving", "kResolved", "kRetired", "kErrorUnresolved"}
FindPlaces == {"lookup", "search", "searched", "java", "loaded", "array", "raised", "insert", "done"}
DefinePlaces == {"start", "register", "insert", "load", "parents", "parent", "link", "retire", "resolve"}
Places == FindPlaces \union DefinePlaces \union {"component", "create", "temp", "poll"}
Classes == [d : Descriptors, l : Loaders, st : Statuses, tid : Threads \union {NoThread},
            cache : Nat, err : Exceptions \union {"none"}]
Entries == [at : Loaders, whole : BOOLEAN, stop : BOOLEAN]
Frames == [fn : {"Find", "Define", "Array", "Ensure"}, d : Descriptors, l : Loaders, pc : Places,
           todo : Seq(Entries \union Descriptors \union Nat), obj : Nat, cache : Nat]

Shape ==
    /\ heap \in Seq(Classes)
    /\ table \in [Keys -> 0..Len(heap)]
    /\ dexCaches \in [Range(DexFile) -> [cache : Nat, loader : Loaders \union {"none"}]]
    /\ stack \in [Threads -> Seq(Frames)]
    /\ exc \in [Threads -> Exceptions \union {"none"}]
    /\ ret \in [Threads -> 0..Len(heap)]
    /\ calls \in [Threads -> 0..MaxCalls]
    /\ found \in [Keys -> SUBSET Nat]

----------------------------------------------------------------------------
\* Class objects and the table.

Home(c) == <<heap[c].d, heap[c].l>>
Current(c, k) == c \in DOMAIN heap /\ IsResolved(c) /\ table[k] = c
\* The cache a class or a frame uses is the registered one.
Registered(x) == x.cache /= 0 /\ dexCaches[DexFile[x.l]] = [cache |-> x.cache, loader |-> x.l]
\* LinkClass has entered the copy of c and not yet retired c.
BeingReplaced(c) ==
    heap[c].tid \in Threads /\ At(heap[c].tid, "Define", "retire") /\ Top(heap[c].tid).obj = c

ObjectOK(c) ==
    /\ heap[c].d \in Arrays => IsResolved(c)
    /\ heap[c].d \notin Arrays => Registered(heap[c])
    /\ ~IsResolved(c) => heap[c].tid \in Threads
    /\ table[Home(c)] /= 0
    /\ ~IsRetired(c) => table[Home(c)] = c \/ BeingReplaced(c)
\* An entry is the class its key defines, or a resolved class of another loader.
EntryOK(k) ==
    table[k] /= 0 => /\ heap[table[k]].d = k[1] /\ ~IsRetired(table[k])
                     /\ heap[table[k]].l = k[2] \/ IsResolved(table[k])
ObjectsOK == \A c \in DOMAIN heap : ObjectOK(c)
EntriesOK == \A k \in Keys : EntryOK(k)
FoundOK == \A k \in Keys : \A c \in found[k] : Current(c, k)

----------------------------------------------------------------------------
\* Frames.

Owns(f) == f.fn = "Define" /\ f.pc \in {"load", "parents", "parent", "link", "retire", "resolve"}
Working(f) == f.fn = "Define" /\ f.pc \in {"load", "parents", "parent", "link"}
\* The object c was made by thread t for the DefineClass of frame f.
MadeFor(c, t, f) == /\ c \in DOMAIN heap /\ heap[c].tid = t
                    /\ heap[c].d = f.d /\ heap[c].l = f.l /\ heap[c].cache = f.cache

VisitOK(e) == /\ e \in Entries
              /\ e.whole => e.at /= "boot"
              /\ ~e.whole /\ e.at /= "boot" => e.stop
FindOK(f) ==
    f.fn = "Find" =>
        /\ f.pc \in FindPlaces
        /\ f.pc = "array" => f.d \in Arrays
        /\ f.pc \in {"search", "searched", "java", "loaded"} => f.d \notin Arrays /\ f.l /= "boot"
        /\ f.pc \in {"search", "searched"} => \A i \in DOMAIN f.todo : VisitOK(f.todo[i])
        /\ f.pc = "searched" => f.todo /= <<>> /\ ~Head(f.todo).whole
DefineOK(t, f) ==
    f.fn = "Define" =>
        /\ f.d \notin Arrays /\ f.pc \in DefinePlaces
        /\ f.pc \notin {"start", "register"} => Registered(f)
        /\ f.pc \in {"parents", "parent"} => f.todo \in Seq(Descriptors \ Arrays)
        /\ f.pc = "parent" => f.todo /= <<>>
        /\ Owns(f) => MadeFor(f.obj, t, f)
        /\ Working(f) => /\ table[<<f.d, f.l>>] = f.obj
                         /\ heap[f.obj].st \in {"kIdx", "kLoaded", "kErrorUnresolved"}
        /\ f.pc \in {"retire", "resolve"} =>
               /\ f.todo = <<table[<<f.d, f.l>>]>> /\ table[<<f.d, f.l>>] /= f.obj
               /\ MadeFor(table[<<f.d, f.l>>], t, f)
               /\ heap[table[<<f.d, f.l>>]].st = "kResolving"
        /\ f.pc = "retire" => IsTemp(f.obj)
        /\ f.pc = "resolve" => IsRetired(f.obj)
ArrayOK(f) == f.fn = "Array" => f.d \in Arrays /\ f.pc \in {"component", "create"}
EnsureOK(t, f) ==
    f.fn = "Ensure" =>
        /\ f.pc \in {"temp", "poll"} /\ f.obj \in DOMAIN heap /\ heap[f.obj].d = f.d
        /\ heap[f.obj].l = f.l \/ Current(f.obj, <<f.d, f.l>>)
        /\ f.pc = "poll" /\ heap[f.obj].tid = t => ~IsRetired(f.obj)
FrameOK(t, f) == FindOK(f) /\ DefineOK(t, f) /\ ArrayOK(f) /\ EnsureOK(t, f)

----------------------------------------------------------------------------
\* Calls: what a waiting frame has asked for, and what answers it.

Waits(f) == \/ f.fn = "Find" /\ f.pc \in {"done", "searched", "loaded", "array"}
            \/ f.fn = "Define" /\ f.pc = "parent"
            \/ f.fn = "Array" /\ f.pc = "create"
Answers(g, d, l) == g.d = d /\ (g.l = l \/ (g.fn = "Ensure" /\ Current(g.obj, <<d, l>>)))
CallOK(g, f) ==
    \/ /\ f.fn = "Find" /\ f.pc = "done" /\ g.fn \in {"Define", "Ensure"} /\ Answers(g, f.d, f.l)
    \/ /\ f.fn = "Find" /\ f.pc = "searched" /\ g.fn \in {"Define", "Ensure"}
       /\ Answers(g, f.d, Head(f.todo).at)
    \/ /\ f.fn = "Find" /\ f.pc = "loaded" /\ g.fn \in {"Define", "Ensure"} /\ Answers(g, f.d, f.l)
    \/ /\ f.fn = "Find" /\ f.pc = "loaded" /\ g.fn = "Find" /\ Answers(g, f.d, Parent[f.l])
    \/ /\ f.fn = "Find" /\ f.pc = "array" /\ g.fn = "Array" /\ Answers(g, f.d, f.l)
    \/ /\ f.fn = "Define" /\ g.fn = "Find" /\ Answers(g, Head(f.todo), f.l)
    \/ /\ f.fn = "Array" /\ g.fn = "Find" /\ Answers(g, Component[f.d], f.l)
\* What has been returned to the innermost frame, if it is not nullptr.
AnswerOK(t, f, c) ==
    c /= 0 =>
        /\ f.fn = "Find" /\ f.pc \in {"searched", "loaded", "array", "insert"} =>
               c \in DOMAIN heap /\ IsResolved(c) /\ heap[c].d = f.d
        /\ f.fn = "Find" /\ f.pc = "done" => Current(c, <<f.d, f.l>>)
        /\ f.fn = "Define" /\ f.pc = "parent" => found[<<Head(f.todo), f.l>>] /= {}

\* A stack s of thread t: its frames, the calls between them, its bottom.
LineOK(t, s) ==
    /\ \A i \in 1..Len(s) : FrameOK(t, s[i])
    /\ \A i \in 2..Len(s) : Waits(s[i]) /\ CallOK(s[i - 1], s[i])
    /\ \A i, j \in 1..Len(s) : i /= j /\ Owns(s[i]) /\ Owns(s[j]) => s[i].obj /= s[j].obj
    /\ s /= <<>> => s[Len(s)].fn = "Find"
StackOK(t) == LineOK(t, stack[t]) /\ (stack[t] /= <<>> => AnswerOK(t, Top(t), ret[t]))

\* The inductive invariant about objects, tables and frames.
Consistent == Shape /\ ObjectsOK /\ EntriesOK /\ FoundOK /\ \A t \in Threads : StackOK(t)

----------------------------------------------------------------------------
\* Parents.

ParentsFound(d, l) == \A p \in Range(Parents[d]) : found[<<p, l>>] /= {}
\* The parents of d that are no longer on the list of a DefineClass were found.
ProgressOK(f) ==
    f.fn = "Define" =>
        /\ f.pc \in {"parents", "parent"} =>
               \A p \in Range(Parents[f.d]) : p \in Range(f.todo) \/ found[<<p, f.l>>] /= {}
        /\ f.pc \in {"link", "retire", "resolve"} => ParentsFound(f.d, f.l)
ResolvedOK(c) == IsResolved(c) /\ heap[c].d \notin Arrays =>
                     ~UnderCircle(heap[c].d) /\ ParentsFound(heap[c].d, heap[c].l)
Ordered == /\ \A c \in DOMAIN heap : ResolvedOK(c)
           /\ \A t \in Threads : \A i \in 1..Len(stack[t]) : ProgressOK(stack[t][i])

----------------------------------------------------------------------------
\* Exceptions.

IsAge(age) == \A l \in Loaders \ {"boot"} :
                  \A k \in {"boot", Parent[l]} \union Range(Libs[l]) : age[k] < age[l]
Age == CHOOSE age \in [Loaders -> 0..Cardinality(Loaders)] : IsAge(age)
\* A loader delegates, if at all, to older ones.
Under(k, l) == k = l \/ Age[k] < Age[l]
\* Frame f runs on behalf of frame g: for a loader g's delegates to, and for no
\* array if g defines a class.
Serves(f, g) ==
    /\ Under(f.l, g.l) \/ (f.fn = "Ensure" /\ IsResolved(f.obj))
    /\ g.fn = "Define" => f.d \notin Arrays
Delegates(f) == f.fn = "Find" /\ f.pc \in {"search", "searched"} =>
                    \A n \in DOMAIN f.todo : Under(f.todo[n].at, f.l)
Nested(s) == /\ \A i, j \in 1..Len(s) : i < j => Serves(s[i], s[j])
             /\ \A i \in 1..Len(s) : Delegates(s[i])

Broken(d, l) == table[<<d, l>>] /= 0 /\ IsErroneousUnresolved(table[<<d, l>>])
Circular == "ClassCircularityError"
\* The innermost frame is about to return nullptr.
Failing(t, f) ==
    \/ /\ f.fn = "Find" /\ f.pc = "searched" /\ ret[t] = 0 /\ Head(f.todo).stop /\ Broken(f.d, f.l)
    \/ /\ f.fn = "Find" /\ f.pc = "loaded" /\ ret[t] = 0 /\ Broken(f.d, f.l)
    \/ /\ f.fn = "Find" /\ f.pc = "raised" /\ Broken(f.d, f.l)
    \/ /\ f.fn = "Find" /\ f.pc = "done" /\ ret[t] = 0
    \/ /\ f.fn = "Define" /\ f.pc = "parent" /\ ret[t] = 0
\* The class that frame f defines is erroneous already, because of a circle.
Doomed(f) == Owns(f) /\ IsErroneousUnresolved(f.obj)
\* All calls made on behalf of a doomed frame are failing.
DoomOK(t) == \A i \in 1..Len(stack[t]) :
                 Doomed(stack[t][i]) => /\ exc[t] = Circular /\ Failing(t, Top(t))
                                        /\ \A j \in 1..i : stack[t][j].l = stack[t][i].l
\* A search that goes on with an exception pending has passed the boot class
\* path, where the class is erroneous.
PassedBoot(s) ==
    Len(s) > 1 /\ s[2].fn = "Find" /\ s[2].pc = "searched" /\ Broken(s[2].d, "boot")
\* The places at which no exception can be pending.
Clear(f) == \/ f.fn = "Find" /\ f.pc \in {"lookup", "java"}
            \/ f.fn = "Define" /\ f.pc \notin {"start", "parent"}
            \/ f.fn = "Array" /\ f.pc = "component"
ExcOK(t, f) ==
    LET quiet == exc[t] = "none" IN
    /\ Clear(f) => quiet
    /\ f.fn = "Find" /\ f.pc = "search" => quiet \/ Broken(f.d, "boot")
    /\ f.fn = "Find" /\ f.pc = "searched" =>
           /\ ret[t] /= 0 <=> quiet
           /\ quiet \/ Head(f.todo).stop \/ exc[t] \in Caught \/ Broken(f.d, "boot")
    /\ f.fn = "Find" /\ f.pc = "raised" => ~quiet
    /\ f.fn = "Find" /\ f.pc = "insert" => ret[t] /= 0 /\ quiet
    /\ Waits(f) => (ret[t] /= 0 <=> quiet)
    /\ f.fn = "Define" /\ f.pc = "start" => quiet \/ PassedBoot(stack[t])
    /\ f.fn = "Ensure" => quiet \/ (IsErroneousUnresolved(f.obj) /\ PassedBoot(stack[t]))
\* When a thread has no call, the last one has ended with one of the two.
EndOK(t) == IF stack[t] = <<>> THEN calls[t] = 0 \/ (ret[t] /= 0 <=> exc[t] = "none")
            ELSE ExcOK(t, Top(t))
ErrorsOK == \A c \in DOMAIN heap : (heap[c].err /= "none") = IsErroneousUnresolved(c)
BootOK == dexCaches[DexFile["boot"]] = [cache |-> 1, loader |-> "boot"]
ThreadOK(t) == Nested(stack[t]) /\ DoomOK(t) /\ EndOK(t)
Sound == ErrorsOK /\ BootOK /\ \A t \in Threads : ThreadOK(t)

----------------------------------------------------------------------------
\* Stacks.

\* The innermost frame is replaced.
LEMMA PutSeq ==
    ASSUME NEW S, NEW s \in Seq(S), s /= <<>>, NEW f \in S, NEW s2, s2 = <<f>> \o Tail(s)
    PROVE  /\ s2 \in Seq(S) /\ s2 /= <<>> /\ Len(s2) = Len(s) /\ Len(s) >= 1
           /\ s2[1] = f /\ Head(s2) = f /\ \A i \in 2..Len(s) : s2[i] = s[i]
<1>1. Tail(s) \in Seq(S) /\ Len(Tail(s)) = Len(s) - 1 /\ \A i \in 1..Len(s) - 1 : Tail(s)[i] = s[i + 1]
  OBVIOUS
<1>2. Len(s) \in Nat /\ Len(s) >= 1
  OBVIOUS
<1>3. <<f>> \in Seq(S) /\ Len(<<f>>) = 1 /\ <<f>>[1] = f
  OBVIOUS
<1>4. s2 \in Seq(S) /\ Len(s2) = Len(s)
  BY <1>1, <1>2, <1>3
<1>5. \A i \in 2..Len(s) : s2[i] = s[i]
  BY <1>1, <1>2, <1>3
<1>6. s2[1] = f
  BY <1>1, <1>2, <1>3
<1> QED BY <1>2, <1>4, <1>5, <1>6

\* A callee is pushed on the innermost frame, which now waits.
LEMMA CallSeq ==
    ASSUME NEW S, NEW s \in Seq(S), s /= <<>>, NEW f \in S, NEW g \in S,
           NEW s2, s2 = <<g, f>> \o Tail(s)
    PROVE  /\ s2 \in Seq(S) /\ s2 /= <<>> /\ Len(s2) = Len(s) + 1 /\ Len(s) >= 1
           /\ s2[1] = g /\ s2[2] = f /\ Head(s2) = g /\ \A i \in 3..Len(s) + 1 : s2[i] = s[i - 1]
<1>1. Tail(s) \in Seq(S) /\ Len(Tail(s)) = Len(s) - 1 /\ \A i \in 1..Len(s) - 1 : Tail(s)[i] = s[i + 1]
  OBVIOUS
<1>2. Len(s) \in Nat /\ Len(s) >= 1
  OBVIOUS
<1>3. <<g, f>> \in Seq(S) /\ Len(<<g, f>>) = 2 /\ <<g, f>>[1] = g /\ <<g, f>>[2] = f
  OBVIOUS
<1>4. s2 \in Seq(S) /\ Len(s2) = Len(s) + 1
  BY <1>1, <1>2, <1>3
<1>5. \A i \in 3..Len(s) + 1 : s2[i] = s[i - 1]
  BY <1>1, <1>2, <1>3
<1>6. s2[1] = g /\ s2[2] = f
  BY <1>1, <1>2, <1>3
<1> QED BY <1>2, <1>4, <1>5, <1>6

\* The innermost frame returns.
LEMMA ReturnSeq ==
    ASSUME NEW S, NEW s \in Seq(S), s /= <<>>, NEW s2, s2 = Tail(s)
    PROVE  /\ s2 \in Seq(S) /\ Len(s2) = Len(s) - 1 /\ Len(s) >= 1
           /\ \A i \in 1..Len(s) - 1 : s2[i] = s[i + 1]
           /\ s2 = <<>> <=> Len(s) = 1
           /\ s2 /= <<>> => Head(s2) = s[2]
<1>1. Len(s) \in Nat /\ Len(s) >= 1
  OBVIOUS
<1>2. s2 \in Seq(S) /\ Len(s2) = Len(s) - 1 /\ \A i \in 1..Len(s) - 1 : s2[i] = s[i + 1]
  OBVIOUS
<1>3. s2 = <<>> <=> Len(s2) = 0
  BY <1>2, EmptySeq
<1>4. s2 /= <<>> => Head(s2) = s2[1]
  BY <1>2
<1> QED BY <1>1, <1>2, <1>3, <1>4

----------------------------------------------------------------------------
\* What a step leaves alone.

\* Class objects keep what they are made of, resolved ones stay, entries of
\* resolved classes and registered caches too.
Grows ==
    /\ heap' \in Seq(Classes) /\ Len(heap) <= Len(heap')
    /\ table' \in [Keys -> 0..Len(heap')]
    /\ dexCaches' \in [Range(DexFile) -> [cache : Nat, loader : Loaders \union {"none"}]]
    /\ found' \in [Keys -> SUBSET Nat]
    /\ \A c \in DOMAIN heap :
           /\ heap'[c].d = heap[c].d /\ heap'[c].l = heap[c].l
           /\ heap'[c].tid = heap[c].tid /\ heap'[c].cache = heap[c].cache
           /\ IsResolved(c) => heap'[c].st = "kResolved"
    /\ \A k \in Keys : table[k] /= 0 =>
           table'[k] /= 0 /\ (IsResolved(table[k]) => table'[k] = table[k])
    /\ \A f \in Range(DexFile) : dexCaches[f].cache /= 0 => dexCaches'[f] = dexCaches[f]
    /\ \A k \in Keys : found[k] \subseteq found'[k]
\* Only thread t changes what thread t has made, and its entries.
Minds(t) ==
    /\ \A c \in DOMAIN heap : heap[c].tid /= t => heap'[c] = heap[c]
    /\ \A k \in Keys : table[k] /= 0 /\ heap[table[k]].tid /= t => table'[k] = table[k]
\* A step does not disturb frame f of thread t.
Spares(t, f) ==
    /\ Owns(f) =>
           /\ table'[<<f.d, f.l>>] = table[<<f.d, f.l>>]
           /\ \/ heap'[f.obj] = heap[f.obj]
              \/ Working(f) /\ heap'[f.obj].st = "kErrorUnresolved"
           /\ f.pc \in {"retire", "resolve"} =>
                  heap'[table[<<f.d, f.l>>]] = heap[table[<<f.d, f.l>>]]
    /\ f.fn = "Ensure" /\ heap[f.obj].tid = t => heap'[f.obj] = heap[f.obj]

\* A resolved class that the table holds for a key stays that.
LEMMA CurrentKept ==
    ASSUME Shape, Grows, NEW c, NEW k \in Keys, Current(c, k)
    PROVE  Current(c, k)'
<1>1. c \in DOMAIN heap /\ c \in DOMAIN heap' /\ c /= 0
  BY DEF Shape, Grows, Current
<1> QED BY <1>1 DEF Shape, Grows, Current, IsResolved

\* A frame that a step spares stays well formed.
LEMMA FrameKept ==
    ASSUME Shape, Grows, NEW t, NEW f \in Frames, FrameOK(t, f), Spares(t, f)
    PROVE  FrameOK(t, f)'
<1> DEFINE k == <<f.d, f.l>>
<1>0. k \in Keys /\ f.l \in Loaders /\ DOMAIN heap \subseteq DOMAIN heap' /\ DexFile[f.l] \in Range(DexFile)
  BY DefineAssumption DEF Frames, Keys, Grows, Shape, Range
<1>1. FindOK(f)' /\ ArrayOK(f)'
  BY DEF FrameOK, FindOK, ArrayOK, VisitOK
<1>2. Registered(f) => Registered(f)'
  <2> HAVE Registered(f)
  <2>1. dexCaches[DexFile[f.l]].cache /= 0
    BY DEF Registered
  <2> QED BY <2>1, <1>0 DEF Registered, Grows
<1>3. ASSUME NEW c, MadeFor(c, t, f) PROVE MadeFor(c, t, f)'
  BY <1>0, <1>3 DEF MadeFor, Grows
<1>4. CASE f.fn = "Define"
  <2> SUFFICES DefineOK(t, f)'
    BY <1>1, <1>4 DEF FrameOK, EnsureOK
  <2>1. DefineOK(t, f)
    BY DEF FrameOK
  <2>2. CASE ~Owns(f)
    BY <1>4, <1>2, <2>1, <2>2 DEF DefineOK, Owns, Working
  <2>3. CASE Owns(f)
    <3>1. /\ MadeFor(f.obj, t, f) /\ MadeFor(f.obj, t, f)'
          /\ table'[k] = table[k] /\ f.obj \in DOMAIN heap /\ f.obj \in DOMAIN heap'
      BY <1>0, <1>3, <1>4, <2>1, <2>3 DEF DefineOK, Spares, MadeFor
    <3>2. Registered(f)'
      BY <1>2, <1>4, <2>1, <2>3 DEF DefineOK, Owns
    <3>3. CASE Working(f)
      <4>1. table'[k] = f.obj /\ heap'[f.obj].st \in {"kIdx", "kLoaded", "kErrorUnresolved"}
        BY <3>1, <3>3, <1>4, <2>1, <2>3 DEF DefineOK, Spares
      <4> QED BY <1>4, <2>1, <2>3, <3>1, <3>2, <3>3, <4>1 DEF DefineOK, Owns, Working
    <3>4. CASE f.pc \in {"retire", "resolve"}
      <4> PICK n : n = table[k]
        OBVIOUS
      <4>1. heap'[f.obj] = heap[f.obj] /\ heap'[n] = heap[n]
        BY <3>4, <2>3 DEF Spares, Working
      <4>2. /\ MadeFor(n, t, f) /\ f.todo = <<n>> /\ n /= f.obj
            /\ heap[n].st = "kResolving"
        BY <1>4, <2>1, <3>4 DEF DefineOK
      <4>3. MadeFor(n, t, f)' /\ table'[k] = n /\ heap'[n].st = "kResolving"
        BY <1>3, <3>1, <4>1, <4>2
      <4>4. (f.pc = "retire" => IsTemp(f.obj)') /\ (f.pc = "resolve" => IsRetired(f.obj)')
        BY <1>4, <2>1, <3>4, <4>1 DEF DefineOK, IsTemp, IsRetired
      <4>5. MadeFor(table[k], t, f)'
        BY <4>3
      <4>6. ~Working(f) /\ f.d \notin Arrays /\ f.pc \in DefinePlaces
        BY <3>4, <1>4, <2>1 DEF Working, DefineOK
      <4> QED BY <1>4, <2>3, <3>1, <3>2, <3>4, <4>2, <4>3, <4>4, <4>5, <4>6 DEF DefineOK
    <3> QED BY <2>3, <3>3, <3>4 DEF Owns, Working
  <2> QED BY <2>2, <2>3
<1>5. CASE f.fn = "Ensure"
  <2>1. f.obj \in DOMAIN heap /\ f.obj \in DOMAIN heap'
    BY <1>0, <1>5 DEF FrameOK, EnsureOK
  <2>2. Current(f.obj, k) => Current(f.obj, k)'
    BY <1>0, CurrentKept
  <2> HIDE DEF k
  <2>3. EnsureOK(t, f)'
    BY <1>5, <2>1, <2>2 DEF FrameOK, EnsureOK, Grows, Spares, IsRetired, k
  <2> QED BY <1>1, <1>5, <2>3 DEF FrameOK, DefineOK
<1>6. CASE f.fn \notin {"Define", "Ensure"}
  BY <1>1, <1>6 DEF FrameOK, DefineOK, EnsureOK
<1> QED BY <1>4, <1>5, <1>6

\* What a waiting frame has asked for is still what it is waiting for.
LEMMA CallKept ==
    ASSUME Shape, Grows, NEW f \in Frames, NEW g \in Frames, Waits(f), FindOK(f), CallOK(g, f)
    PROVE  CallOK(g, f)'
<1>1. ASSUME NEW d, NEW l \in Loaders, Answers(g, d, l) PROVE Answers(g, d, l)'
  <2>1. CASE g.l = l
    BY <1>1, <2>1 DEF Answers
  <2>2. CASE g.l /= l
    <3>1. Current(g.obj, <<d, l>>) /\ g.fn = "Ensure" /\ g.d = d
      BY <1>1, <2>2 DEF Answers
    <3>2. <<d, l>> \in Keys
      BY <3>1 DEF Keys, Frames
    <3> QED BY <3>1, <3>2, CurrentKept DEF Answers
  <2> QED BY <2>1, <2>2
<1>2. f.l \in Loaders /\ Parent[f.l] \in Loaders
  BY DefineAssumption DEF Frames
<1>3. f.fn = "Find" /\ f.pc = "searched" => Head(f.todo).at \in Loaders
  BY DEF FindOK, VisitOK, Entries, Frames
<1> QED BY <1>1, <1>2, <1>3 DEF CallOK

\* The frames below the innermost one stay as they are.
LEMMA BelowKept ==
    ASSUME Shape, Grows, NEW t, NEW s \in Seq(Frames), LineOK(t, s),
           \A i \in 2..Len(s) : Spares(t, s[i])
    PROVE  /\ \A i \in 2..Len(s) : s[i] \in Frames /\ FrameOK(t, s[i])' /\ Waits(s[i])
           /\ \A i \in 3..Len(s) : CallOK(s[i - 1], s[i])'
<1>1. \A i \in 1..Len(s) : s[i] \in Frames
  OBVIOUS
<1>2. ASSUME NEW i \in 2..Len(s) PROVE s[i] \in Frames /\ FrameOK(t, s[i])' /\ Waits(s[i])
  <2>1. i \in 1..Len(s) /\ s[i] \in Frames /\ FrameOK(t, s[i]) /\ Spares(t, s[i]) /\ Waits(s[i])
    BY <1>1 DEF LineOK
  <2> QED BY <2>1, FrameKept
<1>3. ASSUME NEW i \in 3..Len(s) PROVE CallOK(s[i - 1], s[i])'
  <2>1. i \in 2..Len(s) /\ i \in 1..Len(s) /\ i - 1 \in 1..Len(s)
    OBVIOUS
  <2>2. /\ s[i] \in Frames /\ s[i - 1] \in Frames /\ Waits(s[i]) /\ FindOK(s[i])
        /\ CallOK(s[i - 1], s[i])
    BY <1>1, <2>1 DEF LineOK, FrameOK
  <2> QED BY <2>2, CallKept
<1> QED BY <1>2, <1>3

\* A stack stays well formed when its innermost frame is replaced by one of the
\* same function, for the same class.
LEMMA LinePut ==
    ASSUME Shape, Grows, NEW t, NEW s \in Seq(Frames), s /= <<>>, LineOK(t, s),
           \A i \in 2..Len(s) : Spares(t, s[i]),
           NEW g \in Frames, NEW s2, s2 = <<g>> \o Tail(s), FrameOK(t, g)',
           Len(s) > 1 => CallOK(g, s[2])',
           Owns(g) => \A i \in 2..Len(s) : Owns(s[i]) => s[i].obj /= g.obj,
           Len(s) = 1 => g.fn = "Find"
    PROVE  s2 \in Seq(Frames) /\ s2 /= <<>> /\ Head(s2) = g /\ LineOK(t, s2)'
<1>1. /\ s2 \in Seq(Frames) /\ s2 /= <<>> /\ Len(s2) = Len(s) /\ Len(s) >= 1
      /\ s2[1] = g /\ Head(s2) = g /\ \A i \in 2..Len(s) : s2[i] = s[i]
  BY PutSeq
<1>2. /\ \A i \in 2..Len(s) : s[i] \in Frames /\ FrameOK(t, s[i])' /\ Waits(s[i])
      /\ \A i \in 3..Len(s) : CallOK(s[i - 1], s[i])'
  BY BelowKept
<1>3. ASSUME NEW i \in 1..Len(s2) PROVE FrameOK(t, s2[i])'
  <2>1. CASE i = 1
    BY <1>1, <2>1
  <2>2. CASE i /= 1
    <3>1. i \in 2..Len(s)
      BY <1>1, <2>2
    <3> QED BY <1>1, <1>2, <3>1
  <2> QED BY <2>1, <2>2
<1>4. ASSUME NEW i \in 2..Len(s2) PROVE Waits(s2[i]) /\ CallOK(s2[i - 1], s2[i])'
  <2>1. CASE i = 2
    BY <1>1, <1>2, <2>1
  <2>2. CASE i /= 2
    <3>1. i \in 3..Len(s) /\ i \in 2..Len(s) /\ i - 1 \in 2..Len(s)
      BY <1>1, <2>2
    <3> QED BY <1>1, <1>2, <3>1
  <2> QED BY <2>1, <2>2
<1>5. ASSUME NEW i \in 1..Len(s2), NEW j \in 1..Len(s2), i /= j, Owns(s2[i]), Owns(s2[j])
      PROVE s2[i].obj /= s2[j].obj
  <2>1. i \in 1..Len(s) /\ j \in 1..Len(s) /\ (i = 1 \/ i \in 2..Len(s)) /\ (j = 1 \/ j \in 2..Len(s))
    BY <1>1
  <2> QED BY <1>1, <1>5, <2>1 DEF LineOK
<1>6. s2[Len(s2)].fn = "Find"
  <2>1. CASE Len(s) = 1
    BY <1>1, <2>1
  <2>2. CASE Len(s) /= 1
    <3>1. Len(s) \in 2..Len(s)
      BY <1>1, <2>2
    <3> QED BY <1>1, <3>1 DEF LineOK
  <2> QED BY <2>1, <2>2
<1>7. (\A i \in 2..Len(s2) : Waits(s2[i]) /\ CallOK(s2[i - 1], s2[i]))'
  BY <1>4
<1>8. (\A i \in 1..Len(s2) : FrameOK(t, s2[i]))'
  BY <1>3
<1> QED BY <1>1, <1>5, <1>6, <1>7, <1>8 DEF LineOK

\* A stack stays well formed when its innermost frame waits for a callee.
LEMMA LineCall ==
    ASSUME Shape, Grows, NEW t, NEW s \in Seq(Frames), s /= <<>>, LineOK(t, s),
           \A i \in 2..Len(s) : Spares(t, s[i]),
           NEW f \in Frames, NEW g \in Frames, NEW s2, s2 = <<g, f>> \o Tail(s),
           FrameOK(t, f)', FrameOK(t, g)', ~Owns(g), Waits(f), CallOK(g, f)',
           Len(s) > 1 => CallOK(f, s[2])',
           Owns(f) => Owns(s[1]) /\ f.obj = s[1].obj,
           f.fn = s[1].fn
    PROVE  s2 \in Seq(Frames) /\ s2 /= <<>> /\ Head(s2) = g /\ LineOK(t, s2)'
<1>1. /\ s2 \in Seq(Frames) /\ s2 /= <<>> /\ Len(s2) = Len(s) + 1 /\ Len(s) >= 1
      /\ s2[1] = g /\ s2[2] = f /\ Head(s2) = g /\ \A i \in 3..Len(s) + 1 : s2[i] = s[i - 1]
  BY CallSeq
<1>2. /\ \A i \in 2..Len(s) : s[i] \in Frames /\ FrameOK(t, s[i])' /\ Waits(s[i])
      /\ \A i \in 3..Len(s) : CallOK(s[i - 1], s[i])'
  BY BelowKept
<1>3. ASSUME NEW i \in 1..Len(s2) PROVE FrameOK(t, s2[i])'
  <2>1. CASE i \in {1, 2}
    BY <1>1, <2>1
  <2>2. CASE i \notin {1, 2}
    <3>1. i \in 3..Len(s) + 1 /\ i - 1 \in 2..Len(s)
      BY <1>1, <2>2
    <3> QED BY <1>1, <1>2, <3>1
  <2> QED BY <2>1, <2>2
<1>4. ASSUME NEW i \in 2..Len(s2) PROVE Waits(s2[i]) /\ CallOK(s2[i - 1], s2[i])'
  <2>1. CASE i = 2
    BY <1>1, <2>1
  <2>2. CASE i = 3
    <3>1. i \in 3..Len(s) + 1 /\ 2 \in 2..Len(s) /\ Len(s) > 1
      BY <1>1, <2>2
    <3> QED BY <1>1, <1>2, <3>1, <2>2
  <2>3. CASE i \notin {2, 3}
    <3>1. i \in 3..Len(s) + 1 /\ i - 1 \in 3..Len(s) /\ i - 1 \in 2..Len(s) /\ i - 1 \in 3..Len(s) + 1
      BY <1>1, <2>3
    <3> QED BY <1>1, <1>2, <3>1
  <2> QED BY <2>1, <2>2, <2>3
<1>5. ASSUME NEW i \in 1..Len(s2), NEW j \in 1..Len(s2), i /= j, Owns(s2[i]), Owns(s2[j])
      PROVE s2[i].obj /= s2[j].obj
  <2>1. ASSUME NEW n \in 1..Len(s2), Owns(s2[n])
        PROVE n >= 2 /\ n - 1 \in 1..Len(s) /\ Owns(s[n - 1]) /\ s2[n].obj = s[n - 1].obj
    <3>1. n /= 1
      BY <1>1, <2>1
    <3>2. CASE n = 2
      BY <1>1, <2>1, <3>2
    <3>3. CASE n /= 2
      <4>1. n \in 3..Len(s) + 1
        BY <1>1, <3>1, <3>3
      <4> QED BY <1>1, <2>1, <4>1
    <3> QED BY <3>2, <3>3
  <2>2. i - 1 /= j - 1
    BY <1>5
  <2>3. s[i - 1].obj /= s[j - 1].obj
    BY <2>1, <2>2, <1>5 DEF LineOK
  <2> QED BY <1>5, <2>1, <2>3
<1>6. s2[Len(s2)].fn = "Find"
  <2>1. CASE Len(s) = 1
    BY <1>1, <2>1 DEF LineOK
  <2>2. CASE Len(s) /= 1
    <3>1. Len(s2) \in 3..Len(s) + 1
      <4> PICK n \in Nat : n = Len(s)
        OBVIOUS
      <4>1. n >= 1 /\ Len(s2) = n + 1 /\ n /= 1
        BY <1>1, <2>2
      <4> QED BY <4>1
    <3> QED BY <1>1, <3>1 DEF LineOK
  <2> QED BY <2>1, <2>2
<1>7. (\A i \in 2..Len(s2) : Waits(s2[i]) /\ CallOK(s2[i - 1], s2[i]))'
  BY <1>4
<1>8. (\A i \in 1..Len(s2) : FrameOK(t, s2[i]))'
  BY <1>3
<1> QED BY <1>1, <1>5, <1>6, <1>7, <1>8 DEF LineOK

\* A stack stays well formed when its innermost frame returns.
LEMMA LineReturn ==
    ASSUME Shape, Grows, NEW t, NEW s \in Seq(Frames), s /= <<>>, LineOK(t, s),
           \A i \in 2..Len(s) : Spares(t, s[i]), NEW s2, s2 = Tail(s)
    PROVE  s2 \in Seq(Frames) /\ LineOK(t, s2)'
<1>1. /\ s2 \in Seq(Frames) /\ Len(s2) = Len(s) - 1 /\ Len(s) >= 1
      /\ \A i \in 1..Len(s) - 1 : s2[i] = s[i + 1]
      /\ s2 = <<>> <=> Len(s) = 1
  BY ReturnSeq
<1>2. /\ \A i \in 2..Len(s) : s[i] \in Frames /\ FrameOK(t, s[i])' /\ Waits(s[i])
      /\ \A i \in 3..Len(s) : CallOK(s[i - 1], s[i])'
  BY BelowKept
<1>3. ASSUME NEW i \in 1..Len(s2) PROVE FrameOK(t, s2[i])'
  <2>1. i + 1 \in 2..Len(s) /\ i \in 1..Len(s) - 1
    BY <1>1
  <2> QED BY <1>1, <1>2, <2>1
<1>4. ASSUME NEW i \in 2..Len(s2) PROVE Waits(s2[i]) /\ CallOK(s2[i - 1], s2[i])'
  <2>1. /\ i + 1 \in 3..Len(s) /\ i \in 2..Len(s) /\ i + 1 \in 2..Len(s) /\ (i + 1) - 1 = i
        /\ i \in 1..Len(s) - 1 /\ i - 1 \in 1..Len(s) - 1 /\ (i - 1) + 1 = i
    BY <1>1
  <2>2. s2[i] = s[i + 1] /\ s2[i - 1] = s[i]
    BY <1>1, <2>1
  <2>3. CallOK(s[i], s[i + 1])' /\ Waits(s[i + 1])
    BY <1>2, <2>1
  <2> QED BY <2>2, <2>3
<1>5. ASSUME NEW i \in 1..Len(s2), NEW j \in 1..Len(s2), i /= j, Owns(s2[i]), Owns(s2[j])
      PROVE s2[i].obj /= s2[j].obj
  <2>1. /\ i + 1 \in 1..Len(s) /\ j + 1 \in 1..Len(s) /\ i + 1 /= j + 1
        /\ s2[i] = s[i + 1] /\ s2[j] = s[j + 1]
    BY <1>1, <1>5
  <2> QED BY <1>5, <2>1 DEF LineOK
<1>6. s2 /= <<>> => s2[Len(s2)].fn = "Find"
  <2> HAVE s2 /= <<>>
  <2>1. Len(s2) \in 1..Len(s) - 1 /\ Len(s2) + 1 = Len(s)
    BY <1>1
  <2> QED BY <1>1, <2>1 DEF LineOK
<1>7. (\A i \in 2..Len(s2) : Waits(s2[i]) /\ CallOK(s2[i - 1], s2[i]))'
  BY <1>4
<1>8. (\A i \in 1..Len(s2) : FrameOK(t, s2[i]))'
  BY <1>3
<1> QED BY <1>1, <1>5, <1>6, <1>7, <1>8 DEF LineOK

----------------------------------------------------------------------------
\* Steps of one thread.

\* What is known about the innermost frame.
LEMMA TopFacts ==
    ASSUME Consistent, NEW t \in Threads, stack[t] /= <<>>
    PROVE  /\ stack[t] \in Seq(Frames) /\ Len(stack[t]) \in Nat /\ Len(stack[t]) >= 1
           /\ Top(t) = stack[t][1] /\ Top(t) \in Frames
           /\ FrameOK(t, Top(t)) /\ AnswerOK(t, Top(t), ret[t])
           /\ Len(stack[t]) > 1 => /\ stack[t][2] \in Frames /\ FrameOK(t, stack[t][2])
                                   /\ Waits(stack[t][2]) /\ CallOK(Top(t), stack[t][2])
           /\ Len(stack[t]) = 1 => Top(t).fn = "Find"
           /\ ret[t] \in 0..Len(heap) /\ Len(heap) \in Nat
           /\ LineOK(t, stack[t])
<1>1. /\ stack[t] \in Seq(Frames) /\ LineOK(t, stack[t]) /\ AnswerOK(t, Top(t), ret[t])
      /\ ret[t] \in 0..Len(heap) /\ Len(heap) \in Nat
  BY DEF Consistent, Shape, StackOK
<1>2. PICK s \in Seq(Frames) : s = stack[t]
  BY <1>1
<1>3. Len(s) \in Nat /\ Len(s) >= 1 /\ Head(s) = s[1] /\ s[1] \in Frames /\ s /= <<>>
  BY <1>2
<1>4. FrameOK(t, s[1]) /\ (Len(s) = 1 => s[1].fn = "Find")
  BY <1>1, <1>2, <1>3 DEF LineOK
<1>5. Len(s) > 1 => /\ s[2] \in Frames /\ FrameOK(t, s[2]) /\ Waits(s[2]) /\ CallOK(s[1], s[2])
  <2> HAVE Len(s) > 1
  <2>1. 2 \in 1..Len(s) /\ 2 \in 2..Len(s) /\ 2 - 1 = 1
    BY <1>3
  <2> QED BY <1>1, <1>2, <2>1 DEF LineOK
<1> QED BY <1>1, <1>2, <1>3, <1>4, <1>5 DEF Top

\* What has been returned to a frame stays the right answer.
LEMMA AnswerKept ==
    ASSUME Shape, Grows, NEW t, NEW f \in Frames, FrameOK(t, f), NEW c \in 0..Len(heap),
           AnswerOK(t, f, c)
    PROVE  AnswerOK(t, f, c)'
<1> SUFFICES ASSUME c /= 0 PROVE AnswerOK(t, f, c)'
  BY DEF AnswerOK
<1>0. c \in DOMAIN heap /\ c \in DOMAIN heap'
  BY DEF Shape, Grows
<1>1. <<f.d, f.l>> \in Keys
  BY DEF Frames, Keys
<1>2. Current(c, <<f.d, f.l>>) => Current(c, <<f.d, f.l>>)'
  BY <1>1, CurrentKept
<1>3. IsResolved(c) => IsResolved(c)' /\ heap'[c].d = heap[c].d
  BY <1>0 DEF Grows, IsResolved
<1>4. f.fn = "Define" /\ f.pc = "parent" => found'[<<Head(f.todo), f.l>>] /= {}
  <2> HAVE f.fn = "Define" /\ f.pc = "parent"
  <2>1. f.todo \in Seq(Descriptors \ Arrays) /\ f.todo /= <<>>
    BY DEF FrameOK, DefineOK
  <2>2. Head(f.todo) \in Descriptors
    BY <2>1
  <2>3. <<Head(f.todo), f.l>> \in Keys /\ found[<<Head(f.todo), f.l>>] /= {}
    BY <2>2 DEF Keys, Frames, AnswerOK
  <2> QED BY <2>3 DEF Grows
<1> QED BY <1>0, <1>2, <1>3, <1>4 DEF AnswerOK, Grows

\* The stacks of the other threads stay well formed.
LEMMA OthersKept ==
    ASSUME Consistent, NEW t \in Threads, NEW u \in Threads, u /= t, Grows, Minds(t),
           stack'[u] = stack[u], ret'[u] = ret[u]
    PROVE  StackOK(u)'
<1>1. Shape /\ StackOK(u) /\ stack[u] \in Seq(Frames) /\ ret[u] \in 0..Len(heap)
  BY DEF Consistent, Shape
<1>2. PICK s \in Seq(Frames) : s = stack[u]
  BY <1>1
<1>3. LineOK(u, s) /\ \A i \in 1..Len(s) : s[i] \in Frames
  BY <1>1, <1>2 DEF StackOK
<1>4. ASSUME NEW i \in 1..Len(s) PROVE FrameOK(u, s[i]) /\ FrameOK(u, s[i])'
  <2>1. PICK f \in Frames : f = s[i]
    BY <1>3
  <2>2. FrameOK(u, f) /\ <<f.d, f.l>> \in Keys
    BY <1>3, <2>1 DEF LineOK, Frames, Keys
  <2>3. Spares(u, f)
    <3>1. ASSUME Owns(f) PROVE /\ table'[<<f.d, f.l>>] = table[<<f.d, f.l>>]
                               /\ heap'[f.obj] = heap[f.obj]
      <4>1. MadeFor(f.obj, u, f) /\ table[<<f.d, f.l>>] /= 0 /\ heap[table[<<f.d, f.l>>]].tid = u
        <5>1. MadeFor(f.obj, u, f) /\ (Working(f) => table[<<f.d, f.l>>] = f.obj)
              /\ (f.pc \in {"retire", "resolve"} => MadeFor(table[<<f.d, f.l>>], u, f))
          BY <2>2, <3>1 DEF FrameOK, DefineOK, Owns
        <5>2. MadeFor(table[<<f.d, f.l>>], u, f)
          BY <5>1, <3>1 DEF Owns, Working
        <5> QED BY <5>1, <5>2, <1>1 DEF MadeFor, Shape
      <4> QED BY <2>2, <4>1 DEF Minds, MadeFor
    <3>2. ASSUME Owns(f), f.pc \in {"retire", "resolve"}
          PROVE heap'[table[<<f.d, f.l>>]] = heap[table[<<f.d, f.l>>]]
      <4>1. MadeFor(table[<<f.d, f.l>>], u, f)
        BY <2>2, <3>2 DEF FrameOK, DefineOK, Owns
      <4> QED BY <4>1 DEF MadeFor, Minds
    <3>3. ASSUME f.fn = "Ensure", heap[f.obj].tid = u PROVE heap'[f.obj] = heap[f.obj]
      BY <2>2, <3>3 DEF FrameOK, EnsureOK, Minds
    <3> QED BY <3>1, <3>2, <3>3 DEF Spares
  <2> QED BY <1>1, <2>1, <2>2, <2>3, FrameKept
<1>5. ASSUME NEW i \in 2..Len(s) PROVE CallOK(s[i - 1], s[i])'
  <2>1. i \in 1..Len(s) /\ i - 1 \in 1..Len(s)
    OBVIOUS
  <2>2. s[i] \in Frames /\ s[i - 1] \in Frames /\ Waits(s[i]) /\ CallOK(s[i - 1], s[i]) /\ FindOK(s[i])
    BY <1>3, <2>1 DEF LineOK, FrameOK
  <2> QED BY <1>1, <2>2, CallKept
<1>6. LineOK(u, s)'
  <2>1. (\A i \in 2..Len(s) : Waits(s[i]) /\ CallOK(s[i - 1], s[i]))'
    BY <1>3, <1>5 DEF LineOK
  <2>2. (\A i \in 1..Len(s) : FrameOK(u, s[i]))'
    BY <1>4
  <2> QED BY <1>3, <2>1, <2>2 DEF LineOK
<1>7. s /= <<>> => AnswerOK(u, Head(s), ret[u])'
  <2> HAVE s /= <<>>
  <2>1. Head(s) = s[1] /\ 1 \in 1..Len(s)
    OBVIOUS
  <2>2. AnswerOK(u, Head(s), ret[u])
    BY <1>1, <1>2 DEF StackOK, Top
  <2>3. PICK f \in Frames : f = Head(s)
    BY <1>3, <2>1
  <2>4. PICK c \in 0..Len(heap) : c = ret[u]
    BY <1>1
  <2>5. AnswerOK(u, f, c)'
    BY <1>1, <1>4, <2>1, <2>2, <2>3, <2>4, AnswerKept
  <2>6. ret'[u] = c
    BY <2>4
  <2> QED BY <2>3, <2>5, <2>6, <2>4
<1> QED BY <1>2, <1>6, <1>7 DEF StackOK, Top

----------------------------------------------------------------------------
\* Steps that change neither a class object nor the table.

CachesGrow ==
    /\ dexCaches' \in [Range(DexFile) -> [cache : Nat, loader : Loaders \union {"none"}]]
    /\ \A f \in Range(DexFile) : dexCaches[f].cache /= 0 => dexCaches'[f] = dexCaches[f]
Quiet(t) ==
    /\ UNCHANGED <<heap, table>> /\ CachesGrow
    /\ found' \in [Keys -> SUBSET Nat] /\ \A k \in Keys : found[k] \subseteq found'[k]
    /\ \A u \in Threads : u /= t => stack'[u] = stack[u]
    /\ ~At(t, "Define", "retire")

\* A step that changes no object and no entry keeps what they satisfy.
LEMMA QuietGrows ==
    ASSUME Consistent, NEW t \in Threads, Quiet(t)
    PROVE  /\ Grows /\ Minds(t) /\ ObjectsOK' /\ EntriesOK'
           /\ \A f \in Frames : Spares(t, f)
<1>1. heap' = heap /\ table' = table
  BY DEF Quiet
<1>2. Grows
  BY <1>1 DEF Quiet, CachesGrow, Grows, Consistent, Shape, IsResolved
<1>3. Minds(t) /\ EntriesOK' /\ \A f \in Frames : Spares(t, f)
  BY <1>1 DEF Minds, Consistent, EntriesOK, EntryOK, Spares, IsRetired, IsResolved
<1>4. ASSUME NEW c \in DOMAIN heap PROVE ObjectOK(c)'
  <2>1. ObjectOK(c) /\ heap[c] \in Classes
    BY DEF Consistent, ObjectsOK, Shape
  <2>2. Registered(heap[c]) => Registered(heap[c])'
    <3> HAVE Registered(heap[c])
    <3>1. DexFile[heap[c].l] \in Range(DexFile)
      BY <2>1, DefineAssumption DEF Classes, Range
    <3> QED BY <1>1, <3>1 DEF Registered, Quiet, CachesGrow
  <2>3. BeingReplaced(c) => BeingReplaced(c)'
    <3> HAVE BeingReplaced(c)
    <3>1. heap[c].tid \in Threads /\ heap[c].tid /= t
      BY DEF BeingReplaced, Quiet
    <3>2. stack'[heap[c].tid] = stack[heap[c].tid]
      BY <3>1 DEF Quiet
    <3> QED BY <1>1, <3>1, <3>2 DEF BeingReplaced, At, Top
  <2> QED BY <1>1, <2>1, <2>2, <2>3 DEF ObjectOK, Home, IsResolved, IsRetired
<1> QED BY <1>1, <1>2, <1>3, <1>4 DEF ObjectsOK

\* Whatever thread t does, the rest of the invariant follows.
LEMMA Assemble ==
    ASSUME Consistent, NEW t \in Threads, Grows, Minds(t), ObjectsOK', EntriesOK', FoundOK',
           exc' \in [Threads -> Exceptions \union {"none"}],
           calls' \in [Threads -> 0..MaxCalls],
           NEW s \in Seq(Frames), stack' = [stack EXCEPT ![t] = s], LineOK(t, s)',
           NEW c \in 0..Len(heap'), ret' = [ret EXCEPT ![t] = c],
           s /= <<>> => AnswerOK(t, Head(s), c)'
    PROVE  Consistent'
<1>1. stack' \in [Threads -> Seq(Frames)] /\ stack'[t] = s
  BY DEF Consistent, Shape
<1>2. Len(heap) \in Nat /\ Len(heap') \in Nat
  BY DEF Consistent, Shape, Grows
<1>3. ret' \in [Threads -> 0..Len(heap')] /\ ret'[t] = c
  BY <1>2 DEF Consistent, Shape, Grows
<1>4. Shape'
  BY <1>1, <1>3 DEF Shape, Grows
<1>5. StackOK(t)'
  <2>1. LineOK(t, stack[t])'
    BY <1>1
  <2>2. (stack[t] /= <<>> => AnswerOK(t, Top(t), ret[t]))'
    BY <1>1, <1>3 DEF Top
  <2> QED BY <2>1, <2>2 DEF StackOK
<1>6. ASSUME NEW u \in Threads PROVE StackOK(u)'
  <2>1. CASE u = t
    BY <1>5, <2>1
  <2>2. CASE u /= t
    <3>1. stack'[u] = stack[u] /\ ret'[u] = ret[u]
      BY <2>2 DEF Consistent, Shape
    <3> QED BY <2>2, <3>1, OthersKept
  <2> QED BY <2>1, <2>2
<1> QED BY <1>4, <1>6 DEF Consistent

\* What was found stays resolved and in the table.
LEMMA FoundKept ==
    ASSUME Consistent, Grows, UNCHANGED found
    PROVE  FoundOK'
<1>1. ASSUME NEW k \in Keys, NEW c \in found[k] PROVE Current(c, k)'
  <2>1. Current(c, k) /\ Shape
    BY DEF Consistent, FoundOK
  <2> QED BY <2>1, CurrentKept
<1> QED BY <1>1 DEF FoundOK

\* A quiet step that replaces the innermost frame.
LEMMA QuietPut ==
    ASSUME Consistent, NEW t \in Threads, stack[t] /= <<>>, ~At(t, "Define", "retire"),
           UNCHANGED <<heap, table, found, calls>>, CachesGrow,
           exc' \in [Threads -> Exceptions \union {"none"}],
           NEW g \in Frames, stack' = [stack EXCEPT ![t] = <<g>> \o Tail(@)],
           NEW c \in 0..Len(heap), ret' = [ret EXCEPT ![t] = c],
           FrameOK(t, g)', AnswerOK(t, g, c)',
           \A h \in Frames : Len(stack[t]) > 1 /\ h = stack[t][2] => CallOK(g, h)',
           Owns(g) => Owns(Top(t)) /\ g.obj = Top(t).obj,
           Len(stack[t]) = 1 => g.fn = "Find"
    PROVE  Consistent'
<1>1. Quiet(t) /\ calls' \in [Threads -> 0..MaxCalls]
  BY DEF Quiet, Consistent, Shape
<1>2. Shape /\ Grows /\ Minds(t) /\ ObjectsOK' /\ EntriesOK' /\ \A f \in Frames : Spares(t, f)
  BY <1>1, QuietGrows DEF Consistent
<1>3. FoundOK'
  BY <1>2, FoundKept
<1>4. PICK s \in Seq(Frames) : s = stack[t]
  BY DEF Consistent, Shape
<1>5. s /= <<>> /\ LineOK(t, s) /\ Top(t) = s[1] /\ Len(s) >= 1 /\ Len(s) \in Nat
      /\ \A i \in 1..Len(s) : s[i] \in Frames
  BY <1>4, TopFacts
<1>6. \A i \in 2..Len(s) : Spares(t, s[i])
  BY <1>2, <1>5
<1>7. Owns(g) => \A i \in 2..Len(s) : Owns(s[i]) => s[i].obj /= g.obj
  BY <1>5 DEF LineOK
<1>8. PICK s2 : s2 = <<g>> \o Tail(s)
  OBVIOUS
<1>9. s2 \in Seq(Frames) /\ s2 /= <<>> /\ Head(s2) = g /\ LineOK(t, s2)'
  <2>1. Len(s) > 1 => s[2] \in Frames
    BY <1>5
  <2>2. (Len(s) > 1 => CallOK(g, s[2])') /\ (Len(s) = 1 => g.fn = "Find")
    BY <1>4, <2>1
  <2> QED BY ONLY <1>2, <1>4, <1>5, <1>6, <1>7, <1>8, <2>2, LinePut, g \in Frames, FrameOK(t, g)'
<1>10. stack' = [stack EXCEPT ![t] = s2]
  BY <1>4, <1>8
<1>11. AnswerOK(t, Head(s2), c)' /\ c \in 0..Len(heap')
  BY <1>9, <1>1 DEF Quiet
<1> QED BY <1>1, <1>2, <1>3, <1>9, <1>10, <1>11, Assemble

\* A quiet step that calls.
LEMMA QuietCall ==
    ASSUME Consistent, NEW t \in Threads, stack[t] /= <<>>,
           UNCHANGED <<heap, table, dexCaches, found, calls, ret>>,
           exc' \in [Threads -> Exceptions \union {"none"}],
           NEW g \in Frames, NEW f \in Frames,
           stack' = [stack EXCEPT ![t] = <<g, f>> \o Tail(@)],
           FrameOK(t, f), FrameOK(t, g), Waits(f), CallOK(g, f),
           f.fn = Top(t).fn, f.d = Top(t).d, f.l = Top(t).l, f.obj = Top(t).obj,
           Owns(f) => Owns(Top(t)), Top(t).pc /= "retire",
           g.pc \in {"lookup", "start", "component", "temp"}
    PROVE  Consistent'
<1>1. Quiet(t) /\ calls' \in [Threads -> 0..MaxCalls]
  BY DEF Quiet, CachesGrow, Consistent, Shape, At
<1>2. Shape /\ Grows /\ Minds(t) /\ ObjectsOK' /\ EntriesOK' /\ \A h \in Frames : Spares(t, h)
  BY <1>1, QuietGrows DEF Consistent
<1>3. FoundOK'
  BY <1>2, FoundKept
<1>4. PICK s \in Seq(Frames) : s = stack[t]
  BY DEF Consistent, Shape
<1>5. s /= <<>> /\ LineOK(t, s) /\ Top(t) = s[1] /\ Len(s) >= 1 /\ Len(s) \in Nat
      /\ \A i \in 1..Len(s) : s[i] \in Frames
  BY <1>4, TopFacts
<1>6. \A i \in 2..Len(s) : Spares(t, s[i])
  BY <1>2, <1>5
<1>7. FrameOK(t, f)' /\ FrameOK(t, g)' /\ FindOK(f)
  <2>1. Spares(t, f) /\ Spares(t, g)
    BY <1>2
  <2> QED BY <1>2, <2>1, FrameKept DEF FrameOK
<1>8. CallOK(g, f)'
  BY <1>2, <1>7, CallKept
<1>9. Len(s) > 1 => CallOK(f, s[2])'
  <2> HAVE Len(s) > 1
  <2>1. s[2] \in Frames /\ FrameOK(t, s[2]) /\ Waits(s[2]) /\ CallOK(s[1], s[2])
    BY <1>4, <1>5, TopFacts
  <2>2. CallOK(f, s[2])
    <3>1. f.fn /= "Ensure" /\ f.fn = s[1].fn /\ f.d = s[1].d /\ f.l = s[1].l
      BY <1>5 DEF Waits
    <3> QED BY <2>1, <3>1 DEF CallOK, Answers
  <2> QED BY <1>2, <2>1, <2>2, CallKept DEF FrameOK
<1>10. ~Owns(g)
  BY DEF Owns
<1>11. PICK s2 : s2 = <<g, f>> \o Tail(s)
  OBVIOUS
<1>12. s2 \in Seq(Frames) /\ s2 /= <<>> /\ Head(s2) = g /\ LineOK(t, s2)'
  <2>1. (Owns(f) => Owns(s[1]) /\ f.obj = s[1].obj) /\ f.fn = s[1].fn
    BY <1>5
  <2> QED BY ONLY <1>2, <1>4, <1>5, <1>6, <1>7, <1>8, <1>9, <1>10, <1>11, <2>1, LineCall,
                  g \in Frames, f \in Frames, Waits(f)
<1>13. stack' = [stack EXCEPT ![t] = s2]
  BY <1>4, <1>11
<1>14. PICK c \in 0..Len(heap) : c = ret[t]
  BY DEF Consistent, Shape
<1>15. ret' = [ret EXCEPT ![t] = c] /\ c \in 0..Len(heap')
  BY <1>1, <1>14 DEF Consistent, Shape, Quiet
<1>16. AnswerOK(t, Head(s2), c)'
  BY <1>12 DEF AnswerOK
<1> QED BY <1>1, <1>2, <1>3, <1>12, <1>13, <1>15, <1>16, Assemble

----------------------------------------------------------------------------
\* Returns.

\* The frame g may return the class c.
Right(g, c) ==
    c /= 0 =>
        /\ g.fn = "Array" => c \in DOMAIN heap /\ IsResolved(c) /\ heap[c].d = g.d
        /\ g.fn /= "Array" => Current(c, <<g.d, g.l>>)
        /\ g.fn = "Ensure" => c = g.obj
        /\ g.fn = "Find" => found[<<g.d, g.l>>] /= {}

\* The right answer of a callee is what its caller expects.
LEMMA RightAnswers ==
    ASSUME NEW t, NEW f \in Frames, NEW g \in Frames, FrameOK(t, f)', Waits(f), CallOK(g, f)',
           EntriesOK', NEW c, Right(g, c)'
    PROVE  AnswerOK(t, f, c)'
<1> SUFFICES ASSUME c /= 0 PROVE AnswerOK(t, f, c)'
  BY DEF AnswerOK
<1>1. ASSUME NEW d, NEW l \in Loaders, Answers(g, d, l)', g.fn /= "Array"
      PROVE  Current(c, <<d, l>>)' /\ c \in DOMAIN heap' /\ IsResolved(c)' /\ heap'[c].d = d
  <2>1. d \in Descriptors /\ g.d = d /\ <<d, l>> \in Keys
    BY <1>1 DEF Answers, Frames, Keys
  <2>2. Current(c, <<d, l>>)'
    <3>1. CASE g.l = l
      BY <1>1, <2>1, <3>1 DEF Right
    <3>2. CASE g.l /= l
      BY <1>1, <2>1, <3>2 DEF Right, Answers
    <3> QED BY <3>1, <3>2
  <2> QED BY <2>1, <2>2 DEF Current, EntriesOK, EntryOK
<1>2. f.l \in Loaders /\ Parent[f.l] \in Loaders
  BY DefineAssumption DEF Frames
<1>3. f.fn = "Find" /\ f.pc = "searched" => Head(f.todo).at \in Loaders
  BY DEF FrameOK, FindOK, VisitOK, Entries, Frames
<1>4. CASE f.fn = "Find" /\ f.pc = "done"
  BY <1>1, <1>2, <1>4 DEF CallOK, AnswerOK
<1>5. CASE f.fn = "Find" /\ f.pc = "searched"
  BY <1>1, <1>3, <1>5 DEF CallOK, AnswerOK
<1>6. CASE f.fn = "Find" /\ f.pc = "loaded"
  <2>1. Answers(g, f.d, f.l)' \/ Answers(g, f.d, Parent[f.l])'
    BY <1>6 DEF CallOK
  <2>2. g.fn /= "Array"
    BY <1>6 DEF CallOK
  <2> QED BY <1>1, <1>2, <1>6, <2>1, <2>2 DEF AnswerOK
<1>7. CASE f.fn = "Find" /\ f.pc = "array"
  BY <1>7 DEF CallOK, AnswerOK, Answers, Right
<1>8. CASE f.fn = "Define"
  <2>1. g.fn = "Find" /\ g.d = Head(f.todo) /\ g.l = f.l
    BY <1>8 DEF CallOK, Answers
  <2> QED BY <1>8, <2>1 DEF AnswerOK, Right
<1>9. CASE f.fn = "Array"
  BY <1>9 DEF AnswerOK
<1> QED BY <1>4, <1>5, <1>6, <1>7, <1>8, <1>9 DEF Waits

\* A step that returns the right answer.
LEMMA Returns ==
    ASSUME Consistent, NEW t \in Threads, stack[t] /= <<>>,
           Grows, Minds(t), ObjectsOK', EntriesOK', FoundOK',
           \A i \in 2..Len(stack[t]) : Spares(t, stack[t][i]),
           exc' \in [Threads -> Exceptions \union {"none"}],
           calls' \in [Threads -> 0..MaxCalls],
           stack' = [stack EXCEPT ![t] = Tail(@)],
           NEW c \in 0..Len(heap'), ret' = [ret EXCEPT ![t] = c],
           NEW g, g = Top(t), Right(g, c)'
    PROVE  Consistent'
<1>1. PICK s \in Seq(Frames) : s = stack[t]
  BY DEF Consistent, Shape
<1>2. /\ s /= <<>> /\ LineOK(t, s) /\ g = s[1] /\ g \in Frames /\ FrameOK(t, g)
      /\ Len(s) >= 1 /\ Len(s) \in Nat
      /\ Shape /\ \A i \in 1..Len(s) : s[i] \in Frames
  BY <1>1, TopFacts DEF Consistent
<1>3. PICK s2 : s2 = Tail(s)
  OBVIOUS
<1>4. s2 \in Seq(Frames) /\ LineOK(t, s2)'
  <2>1. \A i \in 2..Len(s) : Spares(t, s[i])
    BY <1>1
  <2> QED BY ONLY <1>2, <1>3, <2>1, LineReturn, s \in Seq(Frames), Grows
<1>5. (s2 = <<>> <=> Len(s) = 1) /\ (s2 /= <<>> => Head(s2) = s[2])
  BY <1>1, <1>2, <1>3, ReturnSeq
<1>6. s2 /= <<>> => AnswerOK(t, Head(s2), c)'
  <2> HAVE s2 /= <<>>
  <2>1. PICK f : f = s[2]
    OBVIOUS
  <2>2. Len(s) > 1
    <3> PICK n \in Nat : n = Len(s)
      BY <1>2
    <3> QED BY <1>2, <1>5
  <2>3. f \in Frames /\ FrameOK(t, f) /\ Waits(f) /\ CallOK(g, f)
    BY <1>1, <2>1, <2>2, TopFacts
  <2>4. Spares(t, f)
    <3>1. 2 \in 2..Len(stack[t])
      BY <1>1, <2>2
    <3> QED BY <1>1, <2>1, <3>1
  <2>5. FrameOK(t, f)' /\ CallOK(g, f)'
    BY <1>2, <2>3, <2>4, FrameKept, CallKept DEF FrameOK
  <2>6. AnswerOK(t, f, c)'
    BY <1>2, <2>3, <2>5, RightAnswers
  <2> QED BY <1>5, <2>1, <2>6
<1>7. stack' = [stack EXCEPT ![t] = s2]
  BY <1>1, <1>3
<1> QED BY <1>4, <1>6, <1>7, Assemble

\* A quiet step that returns the right answer.
LEMMA QuietReturn ==
    ASSUME Consistent, NEW t \in Threads, stack[t] /= <<>>, ~At(t, "Define", "retire"),
           UNCHANGED <<heap, table, dexCaches, calls>>,
           found' \in [Keys -> SUBSET Nat], \A k \in Keys : found[k] \subseteq found'[k], FoundOK',
           exc' \in [Threads -> Exceptions \union {"none"}],
           stack' = [stack EXCEPT ![t] = Tail(@)],
           NEW c \in 0..Len(heap), ret' = [ret EXCEPT ![t] = c],
           NEW g, g = Top(t), Right(g, c)'
    PROVE  Consistent'
<1>1. Quiet(t) /\ calls' \in [Threads -> 0..MaxCalls] /\ c \in 0..Len(heap')
  BY DEF Quiet, CachesGrow, Consistent, Shape
<1>2. Grows /\ Minds(t) /\ ObjectsOK' /\ EntriesOK' /\ \A f \in Frames : Spares(t, f)
  BY <1>1, QuietGrows
<1>3. \A i \in 2..Len(stack[t]) : Spares(t, stack[t][i])
  <2>1. stack[t] \in Seq(Frames)
    BY TopFacts
  <2> QED BY <1>2, <2>1
<1> QED BY <1>1, <1>2, <1>3, Returns

----------------------------------------------------------------------------
\* Moves of the innermost frame.

\* The frame goes on, as the same call.
LEMMA QuietGoto ==
    ASSUME Consistent, NEW t \in Threads, stack[t] /= <<>>,
           UNCHANGED <<heap, table, dexCaches, found, calls>>,
           exc' \in [Threads -> Exceptions \union {"none"}],
           NEW f, f = Top(t), NEW g \in Frames, g.fn = f.fn, g.d = f.d, g.l = f.l, g.obj = f.obj,
           f.fn /= "Ensure", f.pc /= "retire", Owns(g) => Owns(f),
           stack' = [stack EXCEPT ![t] = <<g>> \o Tail(@)],
           NEW c \in 0..Len(heap), ret' = [ret EXCEPT ![t] = c],
           FrameOK(t, g), AnswerOK(t, g, c)
    PROVE  Consistent'
<1>1. Shape /\ Quiet(t) /\ CachesGrow
  BY DEF Quiet, CachesGrow, Consistent, Shape, At
<1>2. Grows /\ \A h \in Frames : Spares(t, h)
  BY <1>1, QuietGrows
<1>3. FrameOK(t, g)'
  BY <1>1, <1>2, FrameKept
<1>4. AnswerOK(t, g, c)'
  BY <1>1, <1>2, AnswerKept
<1>5. ASSUME NEW h \in Frames, Len(stack[t]) > 1, h = stack[t][2] PROVE CallOK(g, h)'
  <2>1. FrameOK(t, h) /\ Waits(h) /\ CallOK(f, h)
    BY <1>5, TopFacts
  <2>2. CallOK(g, h)
    BY <2>1 DEF CallOK, Answers
  <2> QED BY <1>1, <1>2, <2>1, <2>2, CallKept DEF FrameOK
<1>6. (Len(stack[t]) = 1 => g.fn = "Find") /\ ~At(t, "Define", "retire")
  BY TopFacts DEF At
<1> QED BY <1>1, <1>3, <1>4, <1>5, <1>6, QuietPut

\* Frames that are just made.
LEMMA NewFrames ==
    ASSUME NEW t, NEW d \in Descriptors, NEW l \in Loaders
    PROVE  /\ FindFrame(d, l) \in Frames /\ FrameOK(t, FindFrame(d, l))
           /\ DefineFrame(d, l) \in Frames /\ (d \notin Arrays => FrameOK(t, DefineFrame(d, l)))
           /\ ArrayFrame(d, l) \in Frames /\ (d \in Arrays => FrameOK(t, ArrayFrame(d, l)))
<1>1. ASSUME NEW fn \in {"Find", "Define", "Array", "Ensure"}, NEW pc \in Places
      PROVE  Frame(fn, d, l, pc, <<>>) \in Frames
  BY DEF Frames, Frame
<1>2. {"lookup", "start", "component"} \subseteq Places
  BY DEF Places, FindPlaces, DefinePlaces
<1>3. FrameOK(t, FindFrame(d, l))
  BY DEF FindFrame, Frame, FrameOK, FindOK, DefineOK, ArrayOK, EnsureOK, FindPlaces
<1>4. d \notin Arrays => FrameOK(t, DefineFrame(d, l))
  BY DEF DefineFrame, Frame, FrameOK, FindOK, DefineOK, ArrayOK, EnsureOK, DefinePlaces, Owns, Working
<1>5. d \in Arrays => FrameOK(t, ArrayFrame(d, l))
  BY DEF ArrayFrame, Frame, FrameOK, FindOK, DefineOK, ArrayOK, EnsureOK
<1> QED BY <1>1, <1>2, <1>3, <1>4, <1>5 DEF FindFrame, DefineFrame, ArrayFrame

\* EnsureResolved of a table entry answers for its key.
LEMMA NewEnsure ==
    ASSUME Consistent, NEW t, NEW k \in Keys, table[k] /= 0
    PROVE  /\ EnsureFrame(table[k]) \in Frames /\ FrameOK(t, EnsureFrame(table[k]))
           /\ EnsureFrame(table[k]).fn = "Ensure" /\ EnsureFrame(table[k]).pc = "temp"
           /\ EnsureFrame(table[k]).obj = table[k]
           /\ Answers(EnsureFrame(table[k]), k[1], k[2])
<1>1. PICK c : c = table[k]
  OBVIOUS
<1>2. c \in DOMAIN heap /\ heap[c] \in Classes /\ c \in Nat
  BY <1>1 DEF Consistent, Shape
<1>3. heap[c].d = k[1] /\ (heap[c].l = k[2] \/ IsResolved(c)) /\ k = <<k[1], k[2]>>
  BY <1>1 DEF Consistent, EntriesOK, EntryOK, Keys
<1>4. EnsureFrame(c) = [fn |-> "Ensure", d |-> heap[c].d, l |-> heap[c].l, pc |-> "temp",
                        todo |-> <<>>, obj |-> c, cache |-> 0]
  BY DEF EnsureFrame, Frame
<1>5. "temp" \in Places
  BY DEF Places
<1>6. EnsureFrame(c) \in Frames
  BY <1>2, <1>4, <1>5 DEF Frames, Classes
<1>7. FrameOK(t, EnsureFrame(c))
  BY <1>2, <1>4 DEF FrameOK, FindOK, DefineOK, ArrayOK, EnsureOK
<1>8. Answers(EnsureFrame(c), k[1], k[2])
  BY <1>1, <1>2, <1>3, <1>4 DEF Answers, Current
<1> QED BY <1>1, <1>4, <1>6, <1>7, <1>8

\* A frame at another place, or with another list.
LEMMA Moved ==
    ASSUME NEW f \in Frames, NEW pc \in Places, NEW todo \in Seq(Entries \union Descriptors \union Nat)
    PROVE  /\ [f EXCEPT !.pc = pc] \in Frames /\ [f EXCEPT !.pc = pc, !.todo = todo] \in Frames
  BY DEF Frames

----------------------------------------------------------------------------
\* The steps of EnsureResolved and FindClass.

\* Facts every step starts from.
LEMMA Start ==
    ASSUME Consistent, NEW t \in Threads
    PROVE  /\ Shape /\ exc \in [Threads -> Exceptions \union {"none"}]
           /\ ret = [ret EXCEPT ![t] = ret[t]] /\ ret[t] \in 0..Len(heap)
           /\ Len(heap) \in Nat /\ DOMAIN heap = 1..Len(heap) /\ 0 \in 0..Len(heap)
           /\ exc[t] \in Exceptions \union {"none"}
           /\ \A e \in Exceptions \union {"none"} :
                  [exc EXCEPT ![t] = e] \in [Threads -> Exceptions \union {"none"}]
  BY DEF Consistent, Shape

\* EnsureResolved waits for the definer of a temporary class.
LEMMA EnsureTempStep ==
    ASSUME Consistent, NEW t \in Threads, EnsureTemp(t)
    PROVE  Consistent'
<1>1. stack[t] /= <<>> /\ UNCHANGED <<heap, table, dexCaches, exc, calls, found>>
  BY DEF EnsureTemp, At
<1> PICK f \in Frames : f = Top(t)
  BY <1>1, TopFacts
<1> PICK c : c = f.obj
  OBVIOUS
<1>2. /\ f.fn = "Ensure" /\ f.pc = "temp" /\ FrameOK(t, f) /\ c \in DOMAIN heap /\ heap[c].d = f.d
      /\ heap[c].l = f.l \/ Current(c, <<f.d, f.l>>)
      /\ Len(stack[t]) /= 1
  BY <1>1, TopFacts DEF FrameOK, EnsureOK, EnsureTemp, At
<1>3. ASSUME NEW new \in DOMAIN heap, heap[new].d = f.d,
             heap[new].l = f.l \/ Current(new, <<f.d, f.l>>),
             heap[new].tid = t => ~IsRetired(new),
             new = c \/ (f.l = heap[c].l /\ ~IsResolved(c)),
             Put(t, [f EXCEPT !.pc = "poll", !.obj = new])
      PROVE  Consistent'
  <2> PICK g : g = [f EXCEPT !.pc = "poll", !.obj = new]
    OBVIOUS
  <2>1. "poll" \in Places /\ new \in Nat
    BY <1>3, Start DEF Places
  <2>2. /\ g \in Frames /\ g.fn = "Ensure" /\ g.pc = "poll" /\ g.obj = new /\ g.d = f.d /\ g.l = f.l
        /\ ~Owns(g)
    BY <1>2, <2>1 DEF Frames, Owns
  <2>3. FrameOK(t, g)
    BY <1>3, <2>2 DEF FrameOK, FindOK, DefineOK, ArrayOK, EnsureOK
  <2>4. Shape /\ Quiet(t) /\ CachesGrow /\ ~At(t, "Define", "retire")
    BY <1>1, <1>2, <1>3, Start DEF CachesGrow, At, Shape, Quiet, Put
  <2>5. Grows /\ Spares(t, g)
    BY <2>2, <2>4, QuietGrows
  <2>6. FrameOK(t, g)'
    BY <2>2, <2>3, <2>4, <2>5, FrameKept
  <2>7. ASSUME NEW h \in Frames, Len(stack[t]) > 1, h = stack[t][2] PROVE CallOK(g, h)'
    <3>1. FrameOK(t, h) /\ Waits(h) /\ CallOK(f, h)
      BY <1>1, <2>7, TopFacts
    <3>2. ASSUME NEW d, NEW l, Answers(f, d, l) PROVE Answers(g, d, l)
      BY <1>2, <1>3, <2>2, <3>2 DEF Answers, Current
    <3>3. CallOK(g, h)
      BY <1>2, <2>2, <3>1, <3>2 DEF CallOK
    <3> QED BY <2>2, <2>4, <2>5, <3>1, <3>3, CallKept DEF FrameOK
  <2>8. /\ stack' = [stack EXCEPT ![t] = <<g>> \o Tail(@)] /\ ret' = [ret EXCEPT ![t] = ret[t]]
        /\ exc' \in [Threads -> Exceptions \union {"none"}] /\ ret[t] \in 0..Len(heap)
    BY <1>1, <1>3, Start DEF Put
  <2>9. PICK r \in 0..Len(heap) : r = ret[t]
    BY <2>8
  <2>10. AnswerOK(t, g, r)' /\ ret' = [ret EXCEPT ![t] = r]
    BY <2>2, <2>8, <2>9 DEF AnswerOK
  <2> QED BY <1>1, <1>2, <2>2, <2>4, <2>6, <2>7, <2>8, <2>10, QuietPut
<1>4. CASE IsRetired(c) /\ Put(t, [f EXCEPT !.pc = "poll", !.obj = LookupClass(heap[c].d, heap[c].l)])
  <2>1. ~IsResolved(c) /\ heap[c].l = f.l
    BY <1>2, <1>4 DEF IsResolved, IsRetired, Current
  <2>2. PICK new : new = LookupClass(heap[c].d, heap[c].l)
    OBVIOUS
  <2>3. heap[c] \in Classes /\ ObjectOK(c)
    BY <1>2 DEF Consistent, Shape, ObjectsOK
  <2>4. Home(c) \in Keys /\ Home(c) = <<heap[c].d, heap[c].l>> /\ EntryOK(Home(c)) /\ new = table[Home(c)]
    BY <2>2, <2>3 DEF Consistent, EntriesOK, Home, Keys, Classes, LookupClass
  <2>5. new \in DOMAIN heap /\ new /= 0
    BY <2>3, <2>4, Start DEF ObjectOK, Shape
  <2>6. /\ heap[new].d = f.d /\ ~IsRetired(new)
        /\ heap[new].l = f.l \/ IsResolved(new)
    BY <1>2, <2>1, <2>4, <2>5 DEF EntryOK
  <2>7. heap[new].l = f.l \/ Current(new, <<f.d, f.l>>)
    BY <1>2, <2>1, <2>4, <2>5, <2>6 DEF Current
  <2> QED BY <1>3, <1>4, <2>1, <2>2, <2>5, <2>6, <2>7
<1>5. CASE ~IsRetired(c) /\ Goto(t, "poll")
  <2>1. [f EXCEPT !.pc = "poll"] = [f EXCEPT !.pc = "poll", !.obj = c]
    BY <1>2 DEF Frames
  <2>2. Put(t, [f EXCEPT !.pc = "poll", !.obj = c])
    BY <1>5, <2>1 DEF Goto
  <2>3. heap[c].l = f.l \/ Current(c, <<f.d, f.l>>)
    BY <1>2
  <2> QED BY <1>2, <1>3, <1>5, <2>2, <2>3
<1> QED BY <1>4, <1>5 DEF EnsureTemp

----------------------------------------------------------------------------
\* The three ways the heap and the table change.

\* The status of one unresolved object of the thread changes.
LEMMA ChangeGrows ==
    ASSUME Consistent, NEW t \in Threads, NEW c \in DOMAIN heap,
           ~IsResolved(c), heap[c].tid = t,
           heap' \in Seq(Classes), Len(heap') = Len(heap),
           \A b \in DOMAIN heap : b /= c => heap'[b] = heap[b],
           heap'[c].d = heap[c].d, heap'[c].l = heap[c].l,
           heap'[c].tid = heap[c].tid, heap'[c].cache = heap[c].cache,
           IsRetired(c)' <=> table[Home(c)] /= c,
           UNCHANGED <<table, dexCaches, found>>,
           At(t, "Define", "retire") => Top(t).obj = c,
           At(t, "Define", "retire") => IsRetired(c)',
           \A u \in Threads : u /= t => stack'[u] = stack[u]
    PROVE  Grows /\ Minds(t) /\ ObjectsOK' /\ EntriesOK' /\ FoundOK'
<1>1. /\ Shape /\ Len(heap) \in Nat /\ DOMAIN heap = 1..Len(heap) /\ DOMAIN heap' = DOMAIN heap
      /\ table' = table /\ dexCaches' = dexCaches /\ found' = found
  BY Start
<1>2. \A b \in DOMAIN heap : heap[b] \in Classes /\ ObjectOK(b)
  BY DEF Consistent, Shape, ObjectsOK
<1>3. \A b \in DOMAIN heap : /\ heap'[b].d = heap[b].d /\ heap'[b].l = heap[b].l
                             /\ heap'[b].tid = heap[b].tid /\ heap'[b].cache = heap[b].cache
                             /\ IsResolved(b) => heap'[b].st = "kResolved"
  <2> TAKE b \in DOMAIN heap
  <2>1. CASE b = c
    BY <2>1
  <2>2. CASE b /= c
    BY <2>2 DEF IsResolved
  <2> QED BY <2>1, <2>2
<1>4. Grows
  BY <1>1, <1>3 DEF Grows, Shape
<1>5. Minds(t)
  BY <1>1 DEF Minds
<1>6. Home(c) \in Keys /\ Home(c)' = Home(c)
  BY <1>2, <1>3 DEF Home, Keys, Classes
<1>7. ASSUME NEW b \in DOMAIN heap PROVE ObjectOK(b)'
  <2>1. (Registered(heap[b]) => Registered(heap[b])') /\ Home(b)' = Home(b) /\ ObjectOK(b)
    BY <1>1, <1>2, <1>3 DEF Registered, Home
  <2>2. CASE b = c
    <3>1. /\ heap'[c].d \notin Arrays /\ Registered(heap[c])' /\ heap'[c].tid \in Threads
          /\ table'[Home(c)'] /= 0
      BY <1>1, <2>1, <2>2 DEF ObjectOK
    <3>2. ~IsRetired(c)' => table'[Home(c)'] = c
      BY <1>1, <1>6
    <3> QED BY <2>2, <3>1, <3>2 DEF ObjectOK
  <2>3. CASE b /= c
    <3>1. heap'[b] = heap[b]
      BY <2>3
    <3>2. BeingReplaced(b) => BeingReplaced(b)'
      <4> HAVE BeingReplaced(b)
      <4>1. heap[b].tid \in Threads /\ heap[b].tid /= t
        BY <2>3 DEF BeingReplaced
      <4>2. stack'[heap[b].tid] = stack[heap[b].tid]
        BY <4>1
      <4> QED BY <3>1, <4>1, <4>2 DEF BeingReplaced, At, Top
    <3> QED BY <1>1, <2>1, <3>1, <3>2 DEF ObjectOK, IsResolved, IsRetired
  <2> QED BY <2>2, <2>3
<1>8. ASSUME NEW k \in Keys PROVE EntryOK(k)'
  <2>1. EntryOK(k) /\ (table[k] /= 0 => table[k] \in DOMAIN heap) /\ k = <<k[1], k[2]>>
    BY <1>1 DEF Consistent, EntriesOK, Shape, Keys
  <2>2. CASE table[k] = 0
    BY <1>1, <2>2 DEF EntryOK
  <2>3. CASE table[k] = c /\ table[k] /= 0
    <3>1. k = Home(c) /\ ~IsRetired(c)'
      BY <2>1, <2>3 DEF EntryOK, Home
    <3>2. heap'[c].d = k[1] /\ heap'[c].l = k[2]
      BY <3>1, <1>3, <2>1 DEF Home
    <3> QED BY <1>1, <2>3, <3>1, <3>2 DEF EntryOK, IsRetired
  <2>4. CASE table[k] /= c /\ table[k] /= 0
    <3>1. heap'[table[k]] = heap[table[k]]
      BY <2>1, <2>4
    <3> QED BY <1>1, <2>1, <3>1 DEF EntryOK, IsRetired, IsResolved
  <2> QED BY <2>2, <2>3, <2>4
<1> QED BY <1>1, <1>4, <1>5, <1>7, <1>8, FoundKept DEF ObjectsOK, EntriesOK

\* InsertClass: a new object takes an empty entry, or that of the temporary
\* class of the thread, which is then being replaced.
LEMMA InsertGrows ==
    ASSUME Consistent, NEW t \in Threads, NEW n \in Classes, NEW old, old = table[<<n.d, n.l>>],
           n.st /= "kRetired",
           n.d \in Arrays => n.st = "kResolved", n.d \notin Arrays => Registered(n),
           n.st /= "kResolved" => n.tid \in Threads,
           heap' = Append(heap, n), table' = [table EXCEPT ![<<n.d, n.l>>] = Len(heap) + 1],
           UNCHANGED <<dexCaches, found>>,
           \/ old = 0
           \/ ~IsResolved(old) /\ heap[old].tid = t /\ BeingReplaced(old)',
           ~At(t, "Define", "retire"),
           \A u \in Threads : u /= t => stack'[u] = stack[u]
    PROVE  Grows /\ Minds(t) /\ ObjectsOK' /\ EntriesOK' /\ FoundOK'
<1> DEFINE key == <<n.d, n.l>>
<1>0. Shape /\ Len(heap) \in Nat /\ DOMAIN heap = 1..Len(heap) /\ heap \in Seq(Classes)
  BY Start DEF Shape
<1> PICK new \in Nat : new = Len(heap) + 1
  BY <1>0
<1>1. /\ Shape /\ Len(heap) \in Nat /\ DOMAIN heap = 1..Len(heap) /\ key \in Keys
      /\ heap' \in Seq(Classes) /\ Len(heap') = Len(heap) + 1 /\ DOMAIN heap' = 1..Len(heap) + 1
      /\ heap'[new] = n /\ \A b \in DOMAIN heap : heap'[b] = heap[b]
      /\ dexCaches' = dexCaches /\ found' = found
  <2>1. key \in Keys
    BY DEF Keys, Classes
  <2>2. /\ heap' \in Seq(Classes) /\ Len(heap') = Len(heap) + 1 /\ heap'[new] = n
        /\ \A b \in 1..Len(heap) : heap'[b] = heap[b]
    BY <1>0
  <2> QED BY <1>0, <2>1, <2>2
<1>2. \A b \in DOMAIN heap : heap[b] \in Classes /\ ObjectOK(b)
  BY DEF Consistent, Shape, ObjectsOK
<1>3. /\ table' \in [Keys -> 0..Len(heap')] /\ table'[key] = new /\ new /= 0 /\ new \notin DOMAIN heap
      /\ \A k \in Keys : k /= key => table'[k] = table[k]
  BY <1>1 DEF Shape
<1> HIDE DEF key
<1>4. Grows
  <2>1. \A k \in Keys : table[k] /= 0 =>
           table'[k] /= 0 /\ (IsResolved(table[k]) => table'[k] = table[k])
    BY <1>3 DEF key
  <2>2. \A c \in DOMAIN heap :
           /\ heap'[c].d = heap[c].d /\ heap'[c].l = heap[c].l
           /\ heap'[c].tid = heap[c].tid /\ heap'[c].cache = heap[c].cache
           /\ IsResolved(c) => heap'[c].st = "kResolved"
    BY <1>1 DEF IsResolved
  <2> QED BY <1>1, <1>3, <2>1, <2>2 DEF Grows, Shape
<1>5. Minds(t)
  BY <1>1, <1>3 DEF Minds, key
<1>6. ASSUME NEW b \in DOMAIN heap PROVE ObjectOK(b)'
  <2>1. heap'[b] = heap[b] /\ Home(b)' = Home(b) /\ ObjectOK(b) /\ Home(b) \in Keys
        /\ (Registered(heap[b]) => Registered(heap[b])')
    BY <1>1, <1>2 DEF Registered, Home, Keys, Classes
  <2>2. table'[Home(b)] /= 0
    BY <1>3, <2>1 DEF ObjectOK
  <2>3. ~IsRetired(b) => table'[Home(b)] = b \/ BeingReplaced(b)'
    <3> HAVE ~IsRetired(b)
    <3>1. CASE BeingReplaced(b)
      <4>1. heap[b].tid \in Threads /\ heap[b].tid /= t
        BY <3>1 DEF BeingReplaced
      <4>2. stack'[heap[b].tid] = stack[heap[b].tid]
        BY <4>1
      <4> QED BY <2>1, <3>1, <4>1, <4>2 DEF BeingReplaced, At, Top
    <3>2. CASE table[Home(b)] = b /\ Home(b) /= key
      BY <1>3, <2>1, <3>2
    <3>3. CASE table[Home(b)] = b /\ Home(b) = key
      <4>1. old = b /\ old /= 0
        BY <1>1, <3>3 DEF key
      <4> QED BY <4>1
    <3> QED BY <2>1, <3>1, <3>2, <3>3 DEF ObjectOK
  <2> QED BY <1>1, <2>1, <2>2, <2>3 DEF ObjectOK, IsResolved, IsRetired
<1>7. ObjectOK(new)'
  <2>1. heap'[new] = n /\ Home(new)' = key /\ ~IsRetired(new)'
    BY <1>1 DEF Home, key, IsRetired
  <2>2. (n.d \in Arrays => IsResolved(new)') /\ (~IsResolved(new)' => n.tid \in Threads)
    BY <2>1 DEF IsResolved
  <2>3. n.d \notin Arrays => Registered(heap[new])'
    BY <1>1, <2>1 DEF Registered
  <2> QED BY <1>3, <2>1, <2>2, <2>3 DEF ObjectOK
<1>8. ASSUME NEW k \in Keys PROVE EntryOK(k)'
  <2>1. EntryOK(k) /\ (table[k] /= 0 => table[k] \in DOMAIN heap)
    BY <1>1 DEF Consistent, EntriesOK, Shape
  <2>2. CASE k = key
    BY <1>1, <1>3, <2>2 DEF EntryOK, key, IsRetired
  <2>3. CASE k /= key
    BY <1>1, <1>3, <2>1, <2>3 DEF EntryOK, IsRetired, IsResolved
  <2> QED BY <2>2, <2>3
<1>9. ObjectsOK'
  <2>1. \A b \in DOMAIN heap' : b = new \/ b \in DOMAIN heap
    BY <1>1
  <2>2. \A b \in DOMAIN heap' : ObjectOK(b)'
    BY <1>6, <1>7, <2>1
  <2> QED BY <2>2 DEF ObjectsOK
<1> QED BY <1>1, <1>4, <1>5, <1>8, <1>9, FoundKept DEF EntriesOK

\* FindClass enters a resolved class for an initiating loader.
LEMMA EntryGrows ==
    ASSUME Consistent, NEW t \in Threads, NEW k \in Keys, NEW c \in DOMAIN heap, c /= 0,
           IsResolved(c), heap[c].d = k[1], table[k] \in {0, c},
           table' = [table EXCEPT ![k] = c], UNCHANGED <<heap, dexCaches, found>>,
           ~At(t, "Define", "retire"),
           \A u \in Threads : u /= t => stack'[u] = stack[u]
    PROVE  Grows /\ Minds(t) /\ ObjectsOK' /\ EntriesOK' /\ FoundOK'
<1>1. /\ Shape /\ heap' = heap /\ dexCaches' = dexCaches /\ found' = found
      /\ table' \in [Keys -> 0..Len(heap')] /\ table'[k] = c
      /\ \A j \in Keys : j /= k => table'[j] = table[j]
      /\ \A j \in Keys : table[j] /= 0 => table'[j] = table[j]
  BY Start DEF Shape
<1>2. Grows
  BY <1>1 DEF Grows, Shape, IsResolved
<1>3. Minds(t)
  BY <1>1 DEF Minds
<1>4. ASSUME NEW b \in DOMAIN heap PROVE ObjectOK(b)'
  <2>1. ObjectOK(b) /\ Home(b) \in Keys /\ Home(b)' = Home(b)
        /\ (Registered(heap[b]) => Registered(heap[b])')
    <3>1. heap[b] \in Classes /\ ObjectOK(b)
      BY DEF Consistent, ObjectsOK, Shape
    <3> QED BY <1>1, <3>1 DEF Home, Keys, Classes, Registered
  <2>2. table'[Home(b)] = table[Home(b)]
    BY <1>1, <2>1 DEF ObjectOK
  <2>3. BeingReplaced(b) => BeingReplaced(b)'
    <3> HAVE BeingReplaced(b)
    <3>1. heap[b].tid \in Threads /\ heap[b].tid /= t
      BY DEF BeingReplaced
    <3>2. stack'[heap[b].tid] = stack[heap[b].tid]
      BY <3>1
    <3> QED BY <1>1, <3>1, <3>2 DEF BeingReplaced, At, Top
  <2> QED BY <1>1, <2>1, <2>2, <2>3 DEF ObjectOK, IsResolved, IsRetired
<1>5. ASSUME NEW j \in Keys PROVE EntryOK(j)'
  <2>1. EntryOK(j)
    BY DEF Consistent, EntriesOK
  <2>2. CASE j = k
    BY <1>1, <2>2 DEF EntryOK, IsRetired, IsResolved
  <2>3. CASE j /= k
    BY <1>1, <2>1, <2>3 DEF EntryOK, IsRetired, IsResolved
  <2> QED BY <2>2, <2>3
<1> QED BY <1>1, <1>2, <1>3, <1>4, <1>5, FoundKept DEF ObjectsOK, EntriesOK

\* A resolved class is what its loader has in the table.
LEMMA ResolvedCurrent ==
    ASSUME Consistent, NEW c \in DOMAIN heap, IsResolved(c)
    PROVE  Current(c, Home(c)) /\ Home(c) \in Keys
<1>1. ObjectOK(c) /\ ~IsRetired(c) /\ heap[c] \in Classes
  BY DEF Consistent, ObjectsOK, IsResolved, IsRetired, Shape
<1>2. ~BeingReplaced(c)
  <2> SUFFICES ASSUME BeingReplaced(c) PROVE FALSE
    OBVIOUS
  <2>1. PICK u \in Threads : stack[u] /= <<>> /\ Top(u).fn = "Define" /\ Top(u).pc = "retire" /\ Top(u).obj = c
    BY DEF BeingReplaced, At
  <2>2. FrameOK(u, Top(u))
    BY <2>1, TopFacts
  <2> QED BY <2>1, <2>2 DEF FrameOK, DefineOK, IsTemp, IsResolved
<1> QED BY <1>1, <1>2 DEF ObjectOK, Current, Home, Keys, Classes

\* The frames below the innermost one wait.
LEMMA BelowFacts ==
    ASSUME Consistent, NEW t \in Threads, stack[t] /= <<>>, NEW i \in 2..Len(stack[t])
    PROVE  /\ stack[t][i] \in Frames /\ FrameOK(t, stack[t][i]) /\ Waits(stack[t][i])
           /\ Owns(stack[t][i]) => Working(stack[t][i])
           /\ stack[t][i].fn /= "Ensure" /\ stack[t][i].pc \notin {"retire", "resolve"}
           /\ Owns(stack[t][i]) /\ Owns(Top(t)) => stack[t][i].obj /= Top(t).obj
<1>1. PICK s \in Seq(Frames) : s = stack[t]
  BY TopFacts
<1>2. LineOK(t, s) /\ i \in 1..Len(s) /\ i \in 2..Len(s) /\ i /= 1 /\ 1 \in 1..Len(s) /\ Top(t) = s[1]
  BY <1>1, TopFacts
<1>3. s[i] \in Frames /\ FrameOK(t, s[i]) /\ Waits(s[i])
  BY <1>2 DEF LineOK
<1>4. /\ Owns(s[i]) => Working(s[i])
      /\ s[i].fn /= "Ensure" /\ s[i].pc \notin {"retire", "resolve"}
  BY <1>3 DEF Waits, Owns, Working
<1>5. Owns(s[i]) /\ Owns(s[1]) => s[i].obj /= s[1].obj
  BY <1>2 DEF LineOK
<1> QED BY <1>1, <1>2, <1>3, <1>4, <1>5

\* The status of a class object is set, with or without an error.
Marked(c, st) == [heap EXCEPT ![c].st = st]
\* The heap where object c alone has changed, and only in status and error.
Changes(c, st) ==
    /\ heap' \in Seq(Classes) /\ Len(heap') = Len(heap)
    /\ \A b \in DOMAIN heap : b /= c => heap'[b] = heap[b]
    /\ heap'[c].d = heap[c].d /\ heap'[c].l = heap[c].l
    /\ heap'[c].tid = heap[c].tid /\ heap'[c].cache = heap[c].cache
    /\ heap'[c].st = st

\* Setting the status of an object changes nothing else.
LEMMA MarkedSet ==
    ASSUME heap \in Seq(Classes), NEW c \in DOMAIN heap, NEW st \in Statuses, heap' = Marked(c, st)
    PROVE  Changes(c, st)
<1>1. heap[c] \in Classes
  OBVIOUS
<1>2. PICK n : n = [heap[c] EXCEPT !.st = st]
  OBVIOUS
<1>3. /\ n \in Classes /\ n.d = heap[c].d /\ n.l = heap[c].l /\ n.tid = heap[c].tid
      /\ n.cache = heap[c].cache /\ n.st = st
  BY <1>1, <1>2 DEF Classes
<1>4. heap' = [heap EXCEPT ![c] = n]
  BY <1>2 DEF Marked
<1> QED BY <1>3, <1>4 DEF Changes

\* Making an object erroneous changes only its status and its error.
LEMMA FailedSet ==
    ASSUME heap \in Seq(Classes), NEW c \in DOMAIN heap, NEW e \in Exceptions \union {"none"},
           heap' = Failed(c, e)
    PROVE  Changes(c, "kErrorUnresolved")
<1>1. heap[c] \in Classes
  OBVIOUS
<1>2. PICK n : n = [heap[c] EXCEPT !.st = "kErrorUnresolved", !.err = e]
  OBVIOUS
<1>3. /\ n \in Classes /\ n.d = heap[c].d /\ n.l = heap[c].l /\ n.tid = heap[c].tid
      /\ n.cache = heap[c].cache /\ n.st = "kErrorUnresolved"
  BY <1>1, <1>2 DEF Classes, Statuses
<1>4. heap' = [heap EXCEPT ![c] = n]
  BY <1>1, <1>2 DEF Failed, Classes
<1> QED BY <1>3, <1>4 DEF Changes

\* An error, or a change of the object of the innermost frame, disturbs no
\* frame below.
LEMMA BelowSpared ==
    ASSUME Consistent, NEW t \in Threads, stack[t] /= <<>>, UNCHANGED table, NEW c,
           \A b \in DOMAIN heap : b /= c => heap'[b] = heap[b],
           \/ heap'[c].st = "kErrorUnresolved"
           \/ Owns(Top(t)) /\ Top(t).obj = c
    PROVE  \A i \in 2..Len(stack[t]) : Spares(t, stack[t][i])
<1> TAKE i \in 2..Len(stack[t])
<1>1. PICK h : h = stack[t][i]
  OBVIOUS
<1>2. /\ FrameOK(t, h) /\ (Owns(h) => Working(h))
      /\ h.fn /= "Ensure" /\ h.pc \notin {"retire", "resolve"}
      /\ Owns(h) /\ Owns(Top(t)) => h.obj /= Top(t).obj
  BY <1>1, BelowFacts
<1>3. Owns(h) => h.obj \in DOMAIN heap
  BY <1>2 DEF FrameOK, DefineOK, MadeFor, Owns
<1>4. Spares(t, h)
  BY <1>2, <1>3 DEF Spares
<1> QED BY <1>1, <1>4

\* EnsureResolved returns the class, its error, or a circularity error.
LEMMA EnsurePollStep ==
    ASSUME Consistent, NEW t \in Threads, EnsurePoll(t)
    PROVE  Consistent'
<1>1. stack[t] /= <<>> /\ UNCHANGED <<table, dexCaches, calls, found>>
  BY DEF EnsurePoll, At
<1> PICK f \in Frames : f = Top(t)
  BY <1>1, TopFacts
<1> PICK c : c = f.obj
  OBVIOUS
<1>2. /\ f.fn = "Ensure" /\ f.pc = "poll" /\ FrameOK(t, f) /\ c \in DOMAIN heap /\ heap[c].d = f.d
      /\ heap[c].l = f.l \/ Current(c, <<f.d, f.l>>)
      /\ heap[c].tid = t => ~IsRetired(c)
  BY <1>1, TopFacts DEF FrameOK, EnsureOK, EnsurePoll, At
<1>3. ~At(t, "Define", "retire") /\ heap[c] \in Classes /\ FoundOK /\ c \in 0..Len(heap)
  BY <1>2, Start DEF At, Consistent, Shape
<1>4. /\ found \in [Keys -> SUBSET Nat] /\ calls \in [Threads -> 0..MaxCalls]
      /\ exc \in [Threads -> Exceptions \union {"none"}] /\ 0 \in 0..Len(heap)
      /\ heap \in Seq(Classes)
  BY Start DEF Consistent, Shape
<1>5. CASE IsResolved(c) /\ Return(t, c) /\ UNCHANGED <<heap, exc>>
  <2>1. Current(c, <<f.d, f.l>>)
    BY <1>2, <1>5, ResolvedCurrent DEF Home
  <2>2. Right(f, c)'
    BY <1>1, <1>2, <1>5, <2>1 DEF Right, Current, IsResolved
  <2>3. FoundOK'
    BY <1>1, <1>3, <1>5 DEF FoundOK, Current, IsResolved
  <2>4. /\ UNCHANGED <<heap, table, dexCaches, calls>> /\ found' = found
        /\ exc' \in [Threads -> Exceptions \union {"none"}]
        /\ stack' = [stack EXCEPT ![t] = Tail(@)] /\ ret' = [ret EXCEPT ![t] = c]
    BY <1>1, <1>4, <1>5 DEF Return
  <2> QED BY <1>1, <1>3, <1>4, <2>2, <2>3, <2>4, QuietReturn
<1>6. CASE IsErroneousUnresolved(c) /\ Throw(t, heap[c].err) /\ Return(t, 0) /\ UNCHANGED heap
  <2>1. Right(f, 0)'
    BY DEF Right
  <2>2. FoundOK'
    BY <1>1, <1>3, <1>6 DEF FoundOK, Current, IsResolved
  <2>3. /\ UNCHANGED <<heap, table, dexCaches, calls>> /\ found' = found
        /\ exc' \in [Threads -> Exceptions \union {"none"}]
        /\ stack' = [stack EXCEPT ![t] = Tail(@)] /\ ret' = [ret EXCEPT ![t] = 0]
    BY <1>1, <1>3, <1>4, <1>6, Start DEF Return, Throw, Classes
  <2> QED BY <1>1, <1>3, <1>4, <2>1, <2>2, <2>3, QuietReturn
<1>7. CASE /\ ~IsResolved(c) /\ heap[c].tid = t /\ Throw(t, Circular)
           /\ heap' = Failed(c, Circular) /\ Return(t, 0)
  <2>1. /\ heap' \in Seq(Classes) /\ Len(heap') = Len(heap)
        /\ \A b \in DOMAIN heap : b /= c => heap'[b] = heap[b]
        /\ heap'[c].d = heap[c].d /\ heap'[c].l = heap[c].l
        /\ heap'[c].tid = heap[c].tid /\ heap'[c].cache = heap[c].cache
        /\ heap'[c].st = "kErrorUnresolved"
    <3>1. Circular \in Exceptions \union {"none"}
      BY DEF Exceptions, Circular
    <3> QED BY <1>2, <1>4, <1>7, <3>1, FailedSet DEF Changes
  <2>2. ~IsRetired(c)' /\ table[Home(c)] = c
    <3>1. ObjectOK(c) /\ ~IsRetired(c)
      BY <1>2, <1>7 DEF Consistent, ObjectsOK
    <3>2. ~BeingReplaced(c)
      BY <1>3, <1>7 DEF BeingReplaced
    <3> QED BY <2>1, <3>1, <3>2 DEF ObjectOK, IsRetired
  <2>3. \A u \in Threads : u /= t => stack'[u] = stack[u]
    BY <1>7 DEF Return, Consistent, Shape
  <2>4. Grows /\ Minds(t) /\ ObjectsOK' /\ EntriesOK' /\ FoundOK'
    BY <1>1, <1>2, <1>3, <1>7, <2>1, <2>2, <2>3, ChangeGrows
  <2>5. \A i \in 2..Len(stack[t]) : Spares(t, stack[t][i])
    BY <1>1, <2>1, BelowSpared
  <2>6. Right(f, 0)'
    BY DEF Right
  <2>7. /\ exc' \in [Threads -> Exceptions \union {"none"}] /\ calls' \in [Threads -> 0..MaxCalls]
        /\ stack' = [stack EXCEPT ![t] = Tail(@)] /\ ret' = [ret EXCEPT ![t] = 0] /\ 0 \in 0..Len(heap')
    BY <1>1, <1>4, <1>7, <2>1, Start DEF Return, Throw, Circular, Exceptions
  <2> QED BY <1>1, <2>4, <2>5, <2>6, <2>7, Returns
<1> QED BY <1>5, <1>6, <1>7 DEF EnsurePoll, Circular

----------------------------------------------------------------------------
\* Steps that change the heap or the table.

\* The innermost frame goes on, as the same call.
LEMMA GoesOn ==
    ASSUME Consistent, NEW t \in Threads, stack[t] /= <<>>,
           Grows, Minds(t), ObjectsOK', EntriesOK', FoundOK',
           \A i \in 2..Len(stack[t]) : Spares(t, stack[t][i]),
           exc' \in [Threads -> Exceptions \union {"none"}],
           calls' \in [Threads -> 0..MaxCalls],
           NEW f, f = Top(t), NEW g \in Frames, g.fn = f.fn, g.d = f.d, g.l = f.l, f.fn /= "Ensure",
           stack' = [stack EXCEPT ![t] = <<g>> \o Tail(@)],
           NEW c \in 0..Len(heap'), ret' = [ret EXCEPT ![t] = c],
           FrameOK(t, g)', AnswerOK(t, g, c)',
           \A h \in Frames : Owns(g) /\ Owns(h) /\ h.obj = g.obj =>
               \A i \in 2..Len(stack[t]) : stack[t][i] /= h
    PROVE  Consistent'
<1>1. PICK s \in Seq(Frames) : s = stack[t]
  BY DEF Consistent, Shape
<1>2. /\ s /= <<>> /\ LineOK(t, s) /\ f = s[1] /\ f \in Frames /\ FrameOK(t, f)
      /\ Len(s) >= 1 /\ Len(s) \in Nat
      /\ Shape /\ \A i \in 1..Len(s) : s[i] \in Frames
  BY <1>1, TopFacts DEF Consistent
<1>3. PICK s2 : s2 = <<g>> \o Tail(s)
  OBVIOUS
<1>4. Len(s) > 1 => CallOK(g, s[2])'
  <2> HAVE Len(s) > 1
  <2>1. s[2] \in Frames /\ FrameOK(t, s[2]) /\ Waits(s[2]) /\ CallOK(f, s[2])
    BY <1>1, <1>2, TopFacts
  <2>2. CallOK(g, s[2])
    BY <2>1 DEF CallOK, Answers
  <2> QED BY <1>2, <2>1, <2>2, CallKept DEF FrameOK
<1>5. Len(s) = 1 => g.fn = "Find"
  BY <1>2 DEF LineOK
<1>6. Owns(g) => \A i \in 2..Len(s) : Owns(s[i]) => s[i].obj /= g.obj
  BY <1>1, <1>2
<1>7. \A i \in 2..Len(s) : Spares(t, s[i])
  BY <1>1
<1>8. s2 \in Seq(Frames) /\ s2 /= <<>> /\ Head(s2) = g /\ LineOK(t, s2)'
  BY ONLY <1>2, <1>3, <1>4, <1>5, <1>6, <1>7, LinePut, s \in Seq(Frames), g \in Frames,
          FrameOK(t, g)', Grows
<1>9. stack' = [stack EXCEPT ![t] = s2] /\ AnswerOK(t, Head(s2), c)'
  BY <1>1, <1>3, <1>8
<1> QED BY <1>8, <1>9, Assemble

\* The object a thread is working on changes its status.
LEMMA WorkingChange ==
    ASSUME Consistent, NEW t \in Threads, stack[t] /= <<>>, NEW f, f = Top(t), Working(f),
           NEW st, st /= "kRetired", Changes(f.obj, st), UNCHANGED <<table, dexCaches, found>>,
           \A u \in Threads : u /= t => stack'[u] = stack[u]
    PROVE  /\ Grows /\ Minds(t) /\ ObjectsOK' /\ EntriesOK' /\ FoundOK'
           /\ \A i \in 2..Len(stack[t]) : Spares(t, stack[t][i])
<1> PICK c : c = f.obj
  OBVIOUS
<1>1. FrameOK(t, f) /\ Owns(f) /\ ~At(t, "Define", "retire")
  BY TopFacts DEF Working, Owns, At
<1>2. /\ c \in DOMAIN heap /\ heap[c].tid = t /\ table[Home(c)] = c
      /\ ~IsResolved(c) /\ ~IsRetired(c)'
  BY <1>1 DEF FrameOK, DefineOK, MadeFor, Home, IsResolved, IsRetired, Changes, Working
<1>3. Grows /\ Minds(t) /\ ObjectsOK' /\ EntriesOK' /\ FoundOK'
  BY <1>1, <1>2, ChangeGrows DEF Changes
<1>4. \A i \in 2..Len(stack[t]) : Spares(t, stack[t][i])
  BY <1>1, BelowSpared DEF Changes
<1> QED BY <1>3, <1>4

\* A DefineClass fails.
LEMMA FailsStep ==
    ASSUME Consistent, NEW t \in Threads, stack[t] /= <<>>, Working(Top(t)),
           NEW what \in Exceptions \union {"none"}, DefineFails(t, what),
           UNCHANGED <<dexCaches, calls, found>>
    PROVE  Consistent'
<1> PICK f \in Frames : f = Top(t)
  BY TopFacts
<1>1. FrameOK(t, f) /\ f.obj \in DOMAIN heap /\ ~At(t, "Define", "retire")
  BY TopFacts DEF FrameOK, DefineOK, MadeFor, Working, Owns, At
<1>2. /\ UNCHANGED table /\ exc' \in [Threads -> Exceptions \union {"none"}]
      /\ stack' = [stack EXCEPT ![t] = Tail(@)] /\ ret' = [ret EXCEPT ![t] = 0]
      /\ heap \in Seq(Classes) /\ calls' \in [Threads -> 0..MaxCalls] /\ FoundOK
      /\ found \in [Keys -> SUBSET Nat]
      /\ \A u \in Threads : u /= t => stack'[u] = stack[u]
  BY Start DEF DefineFails, Throw, Return, Consistent, Shape
<1>3. Right(f, 0)'
  BY DEF Right
<1>4. CASE heap' = heap
  <2>1. FoundOK'
    BY <1>2, <1>4 DEF FoundOK, Current, IsResolved
  <2>2. 0 \in 0..Len(heap)
    BY Start
  <2> QED BY <1>1, <1>2, <1>3, <1>4, <2>1, <2>2, QuietReturn
<1>5. CASE heap' = Failed(f.obj, what)
  <2>1. Changes(f.obj, "kErrorUnresolved")
    BY <1>1, <1>2, <1>5, FailedSet
  <2>2. /\ Grows /\ Minds(t) /\ ObjectsOK' /\ EntriesOK' /\ FoundOK'
        /\ \A i \in 2..Len(stack[t]) : Spares(t, stack[t][i])
    BY <1>2, <2>1, WorkingChange
  <2>3. 0 \in 0..Len(heap')
    BY <2>1, Start DEF Changes
  <2> QED BY <1>2, <1>3, <2>2, <2>3, Returns
<1> QED BY <1>4, <1>5 DEF DefineFails

----------------------------------------------------------------------------
\* The steps of DefineClass.

\* What is known when thread t is in DefineClass.
LEMMA DefineFacts ==
    ASSUME Consistent, NEW t \in Threads, NEW pc, At(t, "Define", pc)
    PROVE  /\ stack[t] /= <<>> /\ Top(t) \in Frames /\ Top(t).fn = "Define" /\ Top(t).pc = pc
           /\ FrameOK(t, Top(t)) /\ DefineOK(t, Top(t)) /\ Top(t).d \notin Arrays
           /\ Top(t).d \in Descriptors /\ Top(t).l \in Loaders
           /\ <<Top(t).d, Top(t).l>> \in Keys /\ DexFile[Top(t).l] \in Range(DexFile)
           /\ calls \in [Threads -> 0..MaxCalls] /\ found \in [Keys -> SUBSET Nat]
<1>1. stack[t] /= <<>> /\ Top(t).fn = "Define" /\ Top(t).pc = pc
  BY DEF At
<1>2. Top(t) \in Frames /\ FrameOK(t, Top(t)) /\ DefineOK(t, Top(t)) /\ Top(t).d \notin Arrays
  BY <1>1, TopFacts DEF FrameOK, DefineOK
<1>3. Top(t).d \in Descriptors /\ Top(t).l \in Loaders /\ <<Top(t).d, Top(t).l>> \in Keys
  BY <1>2 DEF Frames, Keys
<1>4. DexFile[Top(t).l] \in Range(DexFile)
  BY <1>3, DefineAssumption DEF Range
<1> QED BY <1>1, <1>2, <1>3, <1>4 DEF Consistent, Shape

\* Returning nullptr without a change is always right.
LEMMA NothingReturned ==
    ASSUME Consistent, NEW t \in Threads, stack[t] /= <<>>, ~At(t, "Define", "retire"),
           UNCHANGED <<heap, table, dexCaches, calls, found>>,
           exc' \in [Threads -> Exceptions \union {"none"}], Return(t, 0)
    PROVE  Consistent'
<1>1. found' \in [Keys -> SUBSET Nat] /\ \A k \in Keys : found[k] \subseteq found'[k]
  BY DEF Consistent, Shape
<1>2. FoundOK'
  BY DEF Consistent, FoundOK, Current, IsResolved
<1>3. Right(Top(t), 0)' /\ 0 \in 0..Len(heap)
  BY Start DEF Right
<1>4. PICK f : f = Top(t)
  OBVIOUS
<1>5. Right(f, 0)'
  BY DEF Right
<1> QED BY <1>1, <1>2, <1>3, <1>4, <1>5, QuietReturn DEF Return

\* DefineClass starts: it looks for the registered cache of its dex file.
LEMMA DefineStartStep ==
    ASSUME Consistent, NEW t \in Threads, DefineStart(t)
    PROVE  Consistent'
<1>1. At(t, "Define", "start") /\ UNCHANGED <<heap, table, dexCaches, calls, found>>
  BY DEF DefineStart
<1> PICK f \in Frames : f = Top(t)
  BY <1>1, DefineFacts
<1>2. /\ stack[t] /= <<>> /\ f.fn = "Define" /\ f.pc = "start" /\ FrameOK(t, f)
      /\ f.d \notin Arrays /\ DexFile[f.l] \in Range(DexFile) /\ ~At(t, "Define", "retire")
  BY <1>1, DefineFacts DEF At
<1>3. /\ exc \in [Threads -> Exceptions \union {"none"}] /\ ret[t] \in 0..Len(heap)
      /\ Throw(t, "InternalError") => exc' \in [Threads -> Exceptions \union {"none"}]
  BY Start DEF Throw, Exceptions
<1>4. ASSUME Return(t, 0), UNCHANGED exc \/ Throw(t, "InternalError") PROVE Consistent'
  BY <1>1, <1>2, <1>3, <1>4, NothingReturned
<1>5. ASSUME NEW g \in Frames, g.fn = "Define", g.d = f.d, g.l = f.l, g.obj = f.obj,
             g.pc \in {"register", "insert"}, FrameOK(t, g), UNCHANGED exc,
             Put(t, g)
      PROVE  Consistent'
  <2>1. PICK r \in 0..Len(heap) : r = ret[t]
    BY <1>3
  <2>2. /\ stack' = [stack EXCEPT ![t] = <<g>> \o Tail(@)] /\ ret' = [ret EXCEPT ![t] = r]
        /\ exc' \in [Threads -> Exceptions \union {"none"}]
    BY <1>3, <1>5, <2>1, Start DEF Put
  <2>3. AnswerOK(t, g, r) /\ ~Owns(g)
    BY <1>5 DEF AnswerOK, Owns
  <2> QED BY <1>1, <1>2, <1>5, <2>2, <2>3, QuietGoto
<1>6. CASE Goto(t, "register") /\ UNCHANGED exc
  <2>1. PICK g : g = [f EXCEPT !.pc = "register"]
    OBVIOUS
  <2>2. g \in Frames /\ g.fn = "Define" /\ g.d = f.d /\ g.l = f.l /\ g.obj = f.obj /\ g.pc = "register"
    BY <1>2, <2>1, Moved DEF Frames, Places, DefinePlaces
  <2>3. FrameOK(t, g)
    BY <1>2, <2>2 DEF FrameOK, FindOK, DefineOK, ArrayOK, EnsureOK, DefinePlaces, Owns, Working
  <2> QED BY <1>5, <1>6, <2>1, <2>2, <2>3 DEF Goto
<1>7. CASE /\ dexCaches[DexFile[f.l]].cache /= 0 /\ dexCaches[DexFile[f.l]].loader = f.l
           /\ Put(t, [f EXCEPT !.pc = "insert", !.cache = dexCaches[DexFile[f.l]].cache])
           /\ UNCHANGED exc
  <2>1. PICK e \in [cache : Nat, loader : Loaders \union {"none"}] : e = dexCaches[DexFile[f.l]]
    BY <1>2 DEF Consistent, Shape
  <2>2. PICK g : g = [f EXCEPT !.pc = "insert", !.cache = e.cache]
    OBVIOUS
  <2>3. /\ g \in Frames /\ g.fn = "Define" /\ g.d = f.d /\ g.l = f.l /\ g.obj = f.obj
        /\ g.pc = "insert" /\ g.cache = e.cache
    BY <1>2, <2>1, <2>2 DEF Frames, Places, DefinePlaces
  <2>4. Registered(g)
    <3>1. e = [cache |-> e.cache, loader |-> e.loader]
      BY <2>1
    <3> QED BY <1>7, <2>1, <2>3, <3>1 DEF Registered
  <2>5. FrameOK(t, g)
    BY <1>2, <2>3, <2>4 DEF FrameOK, FindOK, DefineOK, ArrayOK, EnsureOK, DefinePlaces, Owns, Working
  <2> QED BY <1>5, <1>7, <2>1, <2>2, <2>3, <2>5
<1> QED BY <1>4, <1>6, <1>7 DEF DefineStart, EnsureSameClassLoader

\* RegisterDexFile enters a new cache, or takes the one of another thread.
LEMMA DefineRegisterStep ==
    ASSUME Consistent, NEW t \in Threads, DefineRegister(t)
    PROVE  Consistent'
<1>1. At(t, "Define", "register") /\ UNCHANGED <<heap, table, calls, found>>
  BY DEF DefineRegister
<1> PICK f \in Frames : f = Top(t)
  BY <1>1, DefineFacts
<1> PICK file : file = DexFile[f.l]
  OBVIOUS
<1>2. /\ stack[t] /= <<>> /\ f.fn = "Define" /\ f.pc = "register" /\ FrameOK(t, f)
      /\ f.d \notin Arrays /\ file \in Range(DexFile) /\ ~At(t, "Define", "retire")
      /\ f.l \in Loaders
  BY <1>1, DefineFacts DEF At
<1>3. /\ exc \in [Threads -> Exceptions \union {"none"}] /\ ret[t] \in 0..Len(heap)
      /\ Throw(t, "InternalError") \/ Throw(t, "OutOfMemoryError") =>
             exc' \in [Threads -> Exceptions \union {"none"}]
  BY Start DEF Throw, Exceptions
<1>4. CASE /\ Return(t, 0) /\ UNCHANGED dexCaches
           /\ Throw(t, "InternalError") \/ Throw(t, "OutOfMemoryError")
  BY <1>1, <1>2, <1>3, <1>4, NothingReturned
<1>5. ASSUME NEW n \in Nat, n /= 0, CachesGrow, dexCaches'[file] = [cache |-> n, loader |-> f.l],
             Put(t, [f EXCEPT !.pc = "insert", !.cache = n]), UNCHANGED exc
      PROVE  Consistent'
  <2>1. PICK g : g = [f EXCEPT !.pc = "insert", !.cache = n]
    OBVIOUS
  <2>2. /\ g \in Frames /\ g.fn = "Define" /\ g.d = f.d /\ g.l = f.l /\ g.obj = f.obj
        /\ g.pc = "insert" /\ g.cache = n
    BY <1>2, <1>5, <2>1 DEF Frames, Places, DefinePlaces
  <2>3. Registered(g)'
    BY <1>5, <2>2 DEF Registered
  <2>4. FrameOK(t, g)'
    BY <1>2, <2>2, <2>3 DEF FrameOK, FindOK, DefineOK, ArrayOK, EnsureOK, DefinePlaces, Owns, Working
  <2>5. PICK r \in 0..Len(heap) : r = ret[t]
    BY <1>3
  <2>6. AnswerOK(t, g, r)' /\ ~Owns(g)
    BY <2>2 DEF AnswerOK, Owns
  <2>7. ASSUME NEW h \in Frames, Len(stack[t]) > 1, h = stack[t][2] PROVE CallOK(g, h)'
    <3>1. FrameOK(t, h) /\ Waits(h) /\ CallOK(f, h)
      BY <1>2, <2>7, TopFacts
    <3>2. CallOK(g, h)
      BY <1>2, <2>2, <3>1 DEF CallOK, Answers
    <3>3. Quiet(t) /\ Shape
      BY <1>1, <1>2, <1>5, Start DEF Quiet, Put, Shape
    <3> QED BY <2>2, <3>1, <3>2, <3>3, QuietGrows, CallKept DEF FrameOK
  <2>8. /\ stack' = [stack EXCEPT ![t] = <<g>> \o Tail(@)] /\ ret' = [ret EXCEPT ![t] = r]
        /\ exc' \in [Threads -> Exceptions \union {"none"}]
    BY <1>3, <1>5, <2>1, <2>5, Start DEF Put
  <2>9. Len(stack[t]) /= 1
    BY <1>2, TopFacts
  <2> QED BY <1>1, <1>2, <1>5, <2>2, <2>4, <2>6, <2>7, <2>8, <2>9, QuietPut
<1>6. CASE /\ dexCaches[file].cache /= 0 /\ dexCaches[file].loader = f.l
           /\ Put(t, [f EXCEPT !.pc = "insert", !.cache = dexCaches[file].cache])
           /\ UNCHANGED <<dexCaches, exc>>
  <2>1. PICK e \in [cache : Nat, loader : Loaders \union {"none"}] : e = dexCaches[file]
    BY <1>2 DEF Consistent, Shape
  <2>2. e = [cache |-> e.cache, loader |-> e.loader]
    BY <2>1
  <2>3. CachesGrow
    BY <1>6, Start DEF CachesGrow, Shape
  <2> QED BY <1>5, <1>6, <2>1, <2>2, <2>3
<1>7. ASSUME NEW n, n = 1 + Cardinality({g \in DOMAIN dexCaches : dexCaches[g] /= None}),
             dexCaches[file].cache = 0, RegisterDexFileLocked(file, n, f.l),
             Put(t, [f EXCEPT !.pc = "insert", !.cache = n]), UNCHANGED exc
      PROVE  Consistent'
  <2>1. n \in Nat /\ n /= 0
    <3>1. DOMAIN dexCaches = Range(DexFile)
      BY Start DEF Shape
    <3>2. IsFiniteSet({g \in DOMAIN dexCaches : dexCaches[g] /= None})
      BY <3>1, DefineAssumption, FS_Subset
    <3> QED BY <1>7, <3>2, FS_CardinalityType
  <2>2. dexCaches \in [Range(DexFile) -> [cache : Nat, loader : Loaders \union {"none"}]]
    BY Start DEF Shape
  <2>3. PICK e \in [cache : Nat, loader : Loaders \union {"none"}] : e = [cache |-> n, loader |-> f.l]
    BY <1>2, <2>1
  <2>4. dexCaches' = [dexCaches EXCEPT ![file] = e]
    BY <1>7, <2>3 DEF RegisterDexFileLocked
  <2>5. CachesGrow /\ dexCaches'[file] = [cache |-> n, loader |-> f.l]
    BY <1>2, <1>7, <2>2, <2>3, <2>4 DEF CachesGrow
  <2> QED BY <1>5, <1>7, <2>1, <2>5
<1> QED BY <1>4, <1>6, <1>7 DEF DefineRegister, EnsureSameClassLoader

\* A tail call of EnsureResolved, when another thread has entered the class.
LEMMA DefineInsertExisting ==
    ASSUME Consistent, NEW t \in Threads, At(t, "Define", "insert"),
           UNCHANGED <<heap, table, dexCaches, exc, calls, found>>,
           NEW k, k = <<Top(t).d, Top(t).l>>, table[k] /= 0, Put(t, EnsureFrame(table[k]))
    PROVE  Consistent'
<1> PICK f \in Frames : f = Top(t)
  BY DefineFacts
<1>2. /\ stack[t] /= <<>> /\ f.fn = "Define" /\ k \in Keys /\ k = <<f.d, f.l>> /\ FrameOK(t, f)
      /\ ~At(t, "Define", "retire")
  BY DefineFacts DEF At
<1> PICK g : g = EnsureFrame(table[k])
  OBVIOUS
<1>3. /\ g \in Frames /\ FrameOK(t, g) /\ g.fn = "Ensure" /\ g.pc = "temp" /\ g.obj = table[k]
      /\ Answers(g, f.d, f.l) /\ ~Owns(g)
  BY <1>2, NewEnsure DEF Owns
<1>4. CachesGrow /\ Quiet(t) /\ Shape
  BY <1>2, Start DEF CachesGrow, Quiet, Shape, Put
<1>5. FrameOK(t, g)'
  BY <1>3, <1>4, QuietGrows, FrameKept
<1>6. ASSUME NEW h \in Frames, Len(stack[t]) > 1, h = stack[t][2] PROVE CallOK(g, h)'
  <2>1. FrameOK(t, h) /\ Waits(h) /\ CallOK(f, h)
    BY <1>2, <1>6, TopFacts
  <2>2. ASSUME NEW d, NEW l, Answers(f, d, l) PROVE Answers(g, d, l)
    BY <1>2, <1>3, <2>2 DEF Answers
  <2>3. CallOK(g, h)
    BY <1>2, <1>3, <2>1, <2>2 DEF CallOK
  <2> QED BY <1>3, <1>4, <2>1, <2>3, QuietGrows, CallKept DEF FrameOK
<1>7. PICK r \in 0..Len(heap) : r = ret[t]
  BY Start
<1>8. /\ stack' = [stack EXCEPT ![t] = <<g>> \o Tail(@)] /\ ret' = [ret EXCEPT ![t] = r]
      /\ exc' \in [Threads -> Exceptions \union {"none"}] /\ AnswerOK(t, g, r)'
  BY <1>3, <1>7, Start DEF Put, AnswerOK
<1>9. Len(stack[t]) /= 1
  BY <1>2, TopFacts
<1> QED BY <1>2, <1>3, <1>4, <1>5, <1>6, <1>8, <1>9, QuietPut

\* A new object changes no object of a frame below.
LEMMA BelowAppend ==
    ASSUME Consistent, NEW t \in Threads, stack[t] /= <<>>, NEW n \in Classes, NEW k \in Keys,
           heap' = Append(heap, n), \A j \in Keys : j /= k => table'[j] = table[j],
           table[k] = 0 \/ (Owns(Top(t)) /\ table[k] = Top(t).obj)
    PROVE  \A i \in 2..Len(stack[t]) :
               /\ Spares(t, stack[t][i])
               /\ Owns(stack[t][i]) => stack[t][i].obj \in DOMAIN heap
<1> TAKE i \in 2..Len(stack[t])
<1>1. PICK h \in Frames : h = stack[t][i]
  BY BelowFacts
<1>2. /\ FrameOK(t, h) /\ (Owns(h) => Working(h))
      /\ h.fn /= "Ensure" /\ h.pc \notin {"retire", "resolve"}
      /\ Owns(h) /\ Owns(Top(t)) => h.obj /= Top(t).obj
  BY <1>1, BelowFacts
<1>3. Owns(h) => h.obj \in DOMAIN heap /\ table[<<h.d, h.l>>] = h.obj /\ <<h.d, h.l>> \in Keys
  <2>1. <<h.d, h.l>> \in Keys
    BY DEF Frames, Keys
  <2>2. Owns(h) => MadeFor(h.obj, t, h) /\ table[<<h.d, h.l>>] = h.obj
    BY <1>2 DEF FrameOK, DefineOK, Working
  <2> QED BY <2>1, <2>2 DEF MadeFor
<1>4. heap \in Seq(Classes) /\ DOMAIN heap = 1..Len(heap)
  BY Start DEF Shape
<1>5. Owns(h) => heap'[h.obj] = heap[h.obj] /\ h.obj /= 0
  BY <1>3, <1>4
<1>6. Owns(h) => <<h.d, h.l>> /= k
  BY <1>2, <1>3, <1>5
<1>7. Spares(t, h)
  BY <1>2, <1>3, <1>5, <1>6 DEF Spares
<1> QED BY <1>1, <1>3, <1>7

\* The new object of a DefineClass enters the table.
LEMMA DefineInsertNew ==
    ASSUME Consistent, NEW t \in Threads, At(t, "Define", "insert"),
           UNCHANGED <<dexCaches, exc, calls, found>>, NEW f, f = Top(t), table[<<f.d, f.l>>] = 0,
           InsertClass(NewClass(f.d, f.l, "kIdx", t, f.cache)),
           Put(t, [f EXCEPT !.pc = "load", !.obj = Len(heap) + 1])
    PROVE  Consistent'
<1> PICK k : k = <<f.d, f.l>>
  OBVIOUS
<1>2. /\ stack[t] /= <<>> /\ f.fn = "Define" /\ f.pc = "insert" /\ k \in Keys /\ DefineOK(t, f)
      /\ ~At(t, "Define", "retire") /\ f \in Frames /\ f.d \notin Arrays /\ ~Owns(f)
  BY DefineFacts DEF At, Owns
<1> PICK new \in Nat : new = Len(heap) + 1
  BY Start
<1> PICK n : n = NewClass(f.d, f.l, "kIdx", t, f.cache)
  OBVIOUS
<1>3. /\ n \in Classes /\ n.d = f.d /\ n.l = f.l /\ n.st = "kIdx" /\ n.tid = t /\ n.cache = f.cache
      /\ heap' = Append(heap, n) /\ table' = [table EXCEPT ![k] = new]
  BY <1>2 DEF NewClass, Classes, Frames, Statuses, InsertClass
<1>4. Registered(f) /\ Registered(n)
  BY <1>2, <1>3 DEF DefineOK, Registered
<1>5. \A u \in Threads : u /= t => stack'[u] = stack[u]
  BY DEF Put, Consistent, Shape
<1>6. Grows /\ Minds(t) /\ ObjectsOK' /\ EntriesOK' /\ FoundOK'
  BY <1>2, <1>3, <1>4, <1>5, InsertGrows
<1>7. /\ heap \in Seq(Classes) /\ DOMAIN heap = 1..Len(heap) /\ new \notin DOMAIN heap
      /\ heap'[new] = n /\ new \in DOMAIN heap' /\ table'[k] = new
      /\ \A j \in Keys : j /= k => table'[j] = table[j]
  BY <1>2, <1>3, Start DEF Shape
<1>8. \A i \in 2..Len(stack[t]) : /\ Spares(t, stack[t][i])
                                  /\ Owns(stack[t][i]) => stack[t][i].obj \in DOMAIN heap
  BY <1>2, <1>3, <1>7, BelowAppend
<1> PICK g : g = [f EXCEPT !.pc = "load", !.obj = new]
  OBVIOUS
<1>9. /\ g \in Frames /\ g.fn = "Define" /\ g.d = f.d /\ g.l = f.l /\ g.pc = "load" /\ g.obj = new
      /\ g.cache = f.cache
  BY <1>2 DEF Frames, Places, DefinePlaces
<1>10. FrameOK(t, g)'
  <2>1. MadeFor(g.obj, t, g)'
    BY <1>3, <1>7, <1>9 DEF MadeFor
  <2>2. Registered(g)'
    BY <1>4, <1>9 DEF Registered
  <2>3. table'[<<g.d, g.l>>] = g.obj /\ heap'[g.obj].st = "kIdx"
    BY <1>3, <1>7, <1>9
  <2> QED BY <1>2, <1>9, <2>1, <2>2, <2>3 DEF FrameOK, FindOK, DefineOK, ArrayOK, EnsureOK, DefinePlaces
<1>11. PICK r \in 0..Len(heap) : r = ret[t]
  BY Start
<1>12. /\ stack' = [stack EXCEPT ![t] = <<g>> \o Tail(@)] /\ ret' = [ret EXCEPT ![t] = r]
       /\ exc' \in [Threads -> Exceptions \union {"none"}] /\ AnswerOK(t, g, r)'
       /\ calls' \in [Threads -> 0..MaxCalls] /\ r \in 0..Len(heap')
  BY <1>3, <1>9, <1>11, Start DEF Put, AnswerOK, Shape
<1>13. \A h \in Frames : Owns(g) /\ Owns(h) /\ h.obj = g.obj =>
           \A i \in 2..Len(stack[t]) : stack[t][i] /= h
  BY <1>7, <1>8, <1>9
<1>14. \A i \in 2..Len(stack[t]) : Spares(t, stack[t][i])
  BY <1>8
<1>15. g.fn = f.fn /\ f.fn /= "Ensure"
  BY <1>2, <1>9
<1> QED
  BY ONLY Consistent, t \in Threads, f = Top(t), <1>2, <1>6, <1>9, <1>10, <1>12, <1>13, <1>14,
          <1>15, GoesOn

\* InsertClass of DefineClass: one thread enters its object, the others wait.
LEMMA DefineInsertStep ==
    ASSUME Consistent, NEW t \in Threads, DefineInsert(t)
    PROVE  Consistent'
<1>1. At(t, "Define", "insert") /\ UNCHANGED <<dexCaches, exc, calls, found>>
  BY DEF DefineInsert
<1> PICK f : f = Top(t)
  OBVIOUS
<1>2. CASE /\ table[<<f.d, f.l>>] /= 0 /\ Put(t, EnsureFrame(table[<<f.d, f.l>>]))
           /\ UNCHANGED <<heap, table>>
  BY <1>1, <1>2, DefineInsertExisting
<1>3. CASE /\ table[<<f.d, f.l>>] = 0
           /\ InsertClass(NewClass(f.d, f.l, "kIdx", t, f.cache))
           /\ Put(t, [f EXCEPT !.pc = "load", !.obj = Len(heap) + 1])
  BY <1>1, <1>3, DefineInsertNew
<1> QED BY <1>2, <1>3 DEF DefineInsert, LookupClass, TailCall

\* The frame of a DefineClass that works on its object goes on: with another
\* list, or after a change of the object's status.
LEMMA WorkingGoes ==
    ASSUME Consistent, NEW t \in Threads, NEW f, f = Top(t), stack[t] /= <<>>, Working(f),
           NEW g \in Frames, g.fn = f.fn, g.d = f.d, g.l = f.l, g.obj = f.obj, g.cache = f.cache,
           Working(g), g.pc \in {"parents", "parent"} => g.todo \in Seq(Descriptors \ Arrays),
           g.pc = "parent" => g.todo /= <<>>
    PROVE  FrameOK(t, g)
<1>1. f \in Frames /\ FrameOK(t, f) /\ f.pc \in {"load", "parents", "parent", "link"} /\ Owns(f)
  BY TopFacts DEF Working, Owns
<1>2. MadeFor(g.obj, t, g) /\ Registered(g)
  BY <1>1 DEF FrameOK, DefineOK, MadeFor, Registered, Working
<1> QED BY <1>1, <1>2 DEF FrameOK, FindOK, DefineOK, ArrayOK, EnsureOK, Working, DefinePlaces, Owns

\* The places of DefineClass at which it works on its object.
LEMMA WorkingPlaces ==
    /\ {"load", "parents", "parent", "link", "retire", "resolve"} \subseteq Places
    /\ {"OutOfMemoryError", "ClassCircularityError", "LinkageError"} \subseteq Exceptions
  BY DEF Places, DefinePlaces, Exceptions

\* DefineClass goes from one place to another while it works on its object.
LEMMA WorkingGoto ==
    ASSUME Consistent, NEW t \in Threads, NEW f, f = Top(t), stack[t] /= <<>>, Working(f),
           NEW pc \in {"parents", "link"}, NEW todo \in Seq(Entries \union Descriptors \union Nat),
           pc = "parents" => todo \in Seq(Descriptors \ Arrays),
           GotoWith(t, pc, todo), UNCHANGED <<heap, table, dexCaches, exc, calls, found>>
    PROVE  Consistent'
<1> PICK g : g = [f EXCEPT !.pc = pc, !.todo = todo]
  OBVIOUS
<1>1. f \in Frames /\ FrameOK(t, f) /\ f.fn = "Define" /\ f.pc /= "retire" /\ Owns(f)
  BY TopFacts DEF Working, Owns
<1>2. /\ g \in Frames /\ g.fn = f.fn /\ g.d = f.d /\ g.l = f.l /\ g.obj = f.obj /\ g.cache = f.cache
      /\ g.pc = pc /\ g.todo = todo
  BY <1>1, WorkingPlaces DEF Frames
<1>3. FrameOK(t, g)
  BY <1>1, <1>2, WorkingGoes DEF Working
<1>4. PICK r \in 0..Len(heap) : r = ret[t]
  BY Start
<1>5. /\ stack' = [stack EXCEPT ![t] = <<g>> \o Tail(@)] /\ ret' = [ret EXCEPT ![t] = r]
      /\ exc' \in [Threads -> Exceptions \union {"none"}] /\ AnswerOK(t, g, r)
      /\ f.fn /= "Ensure"
  BY <1>1, <1>2, <1>4, Start DEF GotoWith, Put, AnswerOK
<1> QED BY <1>1, <1>2, <1>3, <1>5, QuietGoto

\* LoadClass of DefineClass.
LEMMA DefineLoadStep ==
    ASSUME Consistent, NEW t \in Threads, DefineLoad(t)
    PROVE  Consistent'
<1>1. At(t, "Define", "load") /\ UNCHANGED <<dexCaches, calls, found>>
  BY DEF DefineLoad
<1> PICK f : f = Top(t)
  OBVIOUS
<1>2. stack[t] /= <<>> /\ Working(f) /\ f.d \in Descriptors
  BY <1>1, DefineFacts DEF Working
<1>3. CASE GotoWith(t, "parents", Parents[f.d]) /\ UNCHANGED <<heap, table, exc>>
  <2>1. PICK todo : todo = Parents[f.d]
    OBVIOUS
  <2>2. todo \in Seq(Descriptors \ Arrays)
    BY <1>2, <2>1, DefineAssumption
  <2>3. todo \in Seq(Entries \union Descriptors \union Nat)
    BY <2>2
  <2> QED BY <1>1, <1>2, <1>3, <2>1, <2>2, <2>3, WorkingGoto
<1>4. CASE DefineFails(t, "OutOfMemoryError")
  BY <1>1, <1>2, <1>4, WorkingPlaces, FailsStep
<1> QED BY <1>3, <1>4 DEF DefineLoad

\* The loop over the superclass and the interfaces.
LEMMA DefineParentsStep ==
    ASSUME Consistent, NEW t \in Threads, DefineParents(t)
    PROVE  Consistent'
<1>1. At(t, "Define", "parents") /\ UNCHANGED <<dexCaches, calls, found>>
  BY DEF DefineParents
<1> PICK f \in Frames : f = Top(t)
  BY <1>1, DefineFacts
<1>2. /\ stack[t] /= <<>> /\ Working(f) /\ f.d \in Descriptors /\ FrameOK(t, f) /\ f.fn = "Define"
      /\ f.pc = "parents" /\ f.todo \in Seq(Descriptors \ Arrays) /\ f.l \in Loaders
      /\ f.obj \in DOMAIN heap
  BY <1>1, DefineFacts DEF Working, DefineOK, MadeFor, Owns
<1>3. CASE DefineFails(t, "ClassCircularityError")
  BY <1>1, <1>2, <1>3, WorkingPlaces, FailsStep
<1>4. CASE /\ f.todo /= <<>> /\ Call(t, "parent", FindFrame(Head(f.todo), f.l))
           /\ UNCHANGED <<heap, table, exc>>
  <2> PICK d : d = Head(f.todo)
    OBVIOUS
  <2>1. d \in Descriptors \ Arrays
    BY <1>2, <1>4
  <2> PICK g : g = FindFrame(d, f.l)
    OBVIOUS
  <2>2. /\ g \in Frames /\ FrameOK(t, g) /\ g.fn = "Find" /\ g.d = d /\ g.l = f.l /\ g.pc = "lookup"
    BY <1>2, <2>1, NewFrames DEF FindFrame, Frame
  <2> PICK h : h = [f EXCEPT !.pc = "parent"]
    OBVIOUS
  <2>3. /\ h \in Frames /\ h.fn = f.fn /\ h.d = f.d /\ h.l = f.l /\ h.obj = f.obj /\ h.cache = f.cache
        /\ h.pc = "parent" /\ h.todo = f.todo
    BY <1>2, WorkingPlaces DEF Frames
  <2>4. FrameOK(t, h) /\ Waits(h) /\ CallOK(g, h) /\ (Owns(h) => Owns(f)) /\ f.pc /= "retire"
    <3>1. Working(h) /\ Waits(h) /\ CallOK(g, h) /\ (Owns(h) => Owns(f)) /\ f.pc /= "retire"
      BY <1>2, <2>2, <2>3 DEF Working, Waits, CallOK, Answers, Owns
    <3>2. h.todo \in Seq(Descriptors \ Arrays) /\ h.todo /= <<>>
      BY <1>2, <1>4, <2>3
    <3> QED
      BY ONLY Consistent, t \in Threads, f = Top(t), <1>2, <2>3, <3>1, <3>2, WorkingGoes
  <2>5. /\ stack' = [stack EXCEPT ![t] = <<g, h>> \o Tail(@)] /\ UNCHANGED ret
        /\ exc' \in [Threads -> Exceptions \union {"none"}]
    BY <1>4, Start DEF Call
  <2> QED BY <1>1, <1>2, <1>4, <2>2, <2>3, <2>4, <2>5, QuietCall
<1>5. CASE /\ heap' = [heap EXCEPT ![f.obj].st = "kLoaded"] /\ Goto(t, "link")
           /\ UNCHANGED <<table, exc>>
  <2>1. Changes(f.obj, "kLoaded")
    <3>1. heap' = Marked(f.obj, "kLoaded") /\ heap \in Seq(Classes)
      BY <1>5, Start DEF Marked, Shape
    <3> QED BY <1>2, <3>1, MarkedSet DEF Statuses
  <2>2. \A u \in Threads : u /= t => stack'[u] = stack[u]
    BY <1>5 DEF Goto, Put, Consistent, Shape
  <2>3. /\ Grows /\ Minds(t) /\ ObjectsOK' /\ EntriesOK' /\ FoundOK'
        /\ \A i \in 2..Len(stack[t]) : Spares(t, stack[t][i])
    BY <1>1, <1>2, <1>5, <2>1, <2>2, WorkingChange
  <2> PICK g : g = [f EXCEPT !.pc = "link"]
    OBVIOUS
  <2>4. /\ g \in Frames /\ g.fn = f.fn /\ g.d = f.d /\ g.l = f.l /\ g.obj = f.obj /\ g.cache = f.cache
        /\ g.pc = "link" /\ g.todo = f.todo
    BY <1>2, WorkingPlaces DEF Frames
  <2>5. FrameOK(t, g) /\ Owns(g) /\ Working(g)
    <3>1. Working(g) /\ Owns(g)
      BY <1>2, <2>4 DEF Working, Owns
    <3>2. g.pc /= "parent" /\ g.pc /= "parents"
      BY <2>4
    <3> QED
      BY ONLY Consistent, t \in Threads, f = Top(t), <1>2, <2>4, <3>1, <3>2, WorkingGoes
  <2>6. FrameOK(t, g)'
    <3>1. MadeFor(g.obj, t, g)' /\ Registered(g)'
      BY <1>1, <1>2, <2>1, <2>4, <2>5 DEF FrameOK, DefineOK, MadeFor, Registered, Changes
    <3>2. table'[<<g.d, g.l>>] = g.obj /\ heap'[g.obj].st = "kLoaded"
      <4>1. table[<<g.d, g.l>>] = g.obj
        BY <1>2, <2>4, <2>5 DEF FrameOK, DefineOK
      <4> QED BY <1>5, <2>1, <2>4, <4>1 DEF Changes
    <3> QED BY <1>2, <2>4, <2>5, <3>1, <3>2 DEF FrameOK, FindOK, DefineOK, ArrayOK, EnsureOK, DefinePlaces
  <2>7. PICK r \in 0..Len(heap) : r = ret[t]
    BY Start
  <2>8. /\ stack' = [stack EXCEPT ![t] = <<g>> \o Tail(@)] /\ ret' = [ret EXCEPT ![t] = r]
        /\ exc' \in [Threads -> Exceptions \union {"none"}] /\ AnswerOK(t, g, r)'
        /\ calls' \in [Threads -> 0..MaxCalls] /\ r \in 0..Len(heap')
    BY <1>1, <1>2, <1>5, <2>1, <2>4, <2>7, Start DEF Goto, Put, AnswerOK, Changes, Shape
  <2>9. \A h \in Frames : Owns(g) /\ Owns(h) /\ h.obj = g.obj =>
            \A i \in 2..Len(stack[t]) : stack[t][i] /= h
    BY <1>2, <2>4, BelowFacts DEF Working, Owns
  <2>10. f.fn /= "Ensure"
    BY <1>2
  <2> QED
    BY ONLY Consistent, t \in Threads, f = Top(t), <1>2, <2>3, <2>4, <2>6, <2>8, <2>9, <2>10, GoesOn
<1> QED BY <1>3, <1>4, <1>5 DEF DefineParents

\* A superclass or an interface was found, or not.
LEMMA DefineParentStep ==
    ASSUME Consistent, NEW t \in Threads, DefineParent(t)
    PROVE  Consistent'
<1>1. At(t, "Define", "parent") /\ UNCHANGED <<dexCaches, calls, found>>
  BY DEF DefineParent
<1> PICK f : f = Top(t)
  OBVIOUS
<1>2. /\ stack[t] /= <<>> /\ Working(f) /\ f.todo \in Seq(Descriptors \ Arrays) /\ f.todo /= <<>>
  BY <1>1, DefineFacts DEF Working, DefineOK
<1>3. CASE DefineFails(t, exc[t])
  BY <1>1, <1>2, <1>3, Start, FailsStep
<1>4. CASE GotoWith(t, "parents", Tail(f.todo)) /\ UNCHANGED <<heap, table, exc>>
  <2>1. PICK todo : todo = Tail(f.todo)
    OBVIOUS
  <2>2. todo \in Seq(Descriptors \ Arrays)
    BY <1>2, <2>1
  <2>3. todo \in Seq(Entries \union Descriptors \union Nat)
    BY <2>2
  <2> QED BY <1>1, <1>2, <1>4, <2>1, <2>2, <2>3, WorkingGoto
<1> QED BY <1>3, <1>4 DEF DefineParent

\* LinkClass of a class that was not temporary.
LEMMA DefineLinkInPlace ==
    ASSUME Consistent, NEW t \in Threads, At(t, "Define", "link"),
           UNCHANGED <<dexCaches, calls, found, table, exc>>, NEW f \in Frames, f = Top(t),
           heap' = [heap EXCEPT ![f.obj].st = "kResolved"], Return(t, f.obj)
    PROVE  Consistent'
<1>2. /\ stack[t] /= <<>> /\ Working(f) /\ FrameOK(t, f) /\ f.fn = "Define" /\ Owns(f)
  BY DefineFacts DEF Working, Owns
<1>3. /\ f.obj \in DOMAIN heap /\ table[<<f.d, f.l>>] = f.obj
      /\ heap \in Seq(Classes) /\ DOMAIN heap = 1..Len(heap)
  BY <1>2, Start DEF FrameOK, DefineOK, MadeFor, Shape
<1>4. Changes(f.obj, "kResolved")
  <2>1. heap' = Marked(f.obj, "kResolved")
    BY DEF Marked
  <2> QED BY <1>3, <2>1, MarkedSet DEF Statuses
<1>5. \A u \in Threads : u /= t => stack'[u] = stack[u]
  BY DEF Return, Consistent, Shape
<1>6. /\ Grows /\ Minds(t) /\ ObjectsOK' /\ EntriesOK' /\ FoundOK'
      /\ \A i \in 2..Len(stack[t]) : Spares(t, stack[t][i])
  BY <1>2, <1>4, <1>5, WorkingChange
<1>7. PICK c \in 0..Len(heap') : c = f.obj
  BY <1>3, <1>4 DEF Changes
<1>8. Right(f, c)'
  BY <1>2, <1>3, <1>4, <1>7 DEF Right, Current, Changes, IsResolved
<1>9. /\ exc' \in [Threads -> Exceptions \union {"none"}] /\ calls' \in [Threads -> 0..MaxCalls]
      /\ stack' = [stack EXCEPT ![t] = Tail(@)] /\ ret' = [ret EXCEPT ![t] = c]
  BY <1>7, Start DEF Return, Shape
<1> QED BY <1>2, <1>6, <1>8, <1>9, Returns

\* LinkClass of a temporary class: the copy enters the table.
LEMMA DefineLinkCopy ==
    ASSUME Consistent, NEW t \in Threads, At(t, "Define", "link"),
           UNCHANGED <<dexCaches, calls, found, exc>>, NEW f \in Frames, f = Top(t), IsTemp(f.obj),
           InsertClass(NewClass(f.d, f.l, "kResolving", t, f.cache)),
           GotoWith(t, "retire", <<Len(heap) + 1>>)
    PROVE  Consistent'
<1> PICK k : k = <<f.d, f.l>>
  OBVIOUS
<1>2. /\ stack[t] /= <<>> /\ f.fn = "Define" /\ f.pc = "link" /\ k \in Keys /\ FrameOK(t, f)
      /\ ~At(t, "Define", "retire") /\ f.d \notin Arrays /\ Owns(f) /\ Working(f)
  BY DefineFacts DEF At, Owns, Working
<1> PICK new \in Nat : new = Len(heap) + 1
  BY Start
<1> PICK n : n = NewClass(f.d, f.l, "kResolving", t, f.cache)
  OBVIOUS
<1>3. /\ n \in Classes /\ n.d = f.d /\ n.l = f.l /\ n.st = "kResolving" /\ n.tid = t
      /\ n.cache = f.cache /\ heap' = Append(heap, n) /\ table' = [table EXCEPT ![k] = new]
  BY <1>2 DEF NewClass, Classes, Frames, Statuses, InsertClass
<1>4. Registered(f) /\ Registered(n) /\ MadeFor(f.obj, t, f) /\ table[k] = f.obj
  BY <1>2, <1>3 DEF FrameOK, DefineOK, Registered
<1>5. \A u \in Threads : u /= t => stack'[u] = stack[u]
  BY DEF GotoWith, Put, Consistent, Shape
<1>6. /\ heap \in Seq(Classes) /\ DOMAIN heap = 1..Len(heap) /\ new \notin DOMAIN heap
      /\ heap'[new] = n /\ new \in DOMAIN heap' /\ table'[k] = new
      /\ \A j \in Keys : j /= k => table'[j] = table[j]
      /\ heap'[f.obj] = heap[f.obj] /\ f.obj \in DOMAIN heap /\ f.obj \in DOMAIN heap' /\ f.obj /= new
  BY <1>2, <1>3, <1>4, Start DEF Shape, MadeFor
<1> PICK g : g = [f EXCEPT !.pc = "retire", !.todo = <<new>>]
  OBVIOUS
<1>7. /\ g \in Frames /\ g.fn = "Define" /\ g.d = f.d /\ g.l = f.l /\ g.pc = "retire" /\ g.obj = f.obj
      /\ g.cache = f.cache /\ g.todo = <<new>>
  <2>1. <<new>> \in Seq(Entries \union Descriptors \union Nat)
    OBVIOUS
  <2> QED BY <1>2, <2>1, WorkingPlaces DEF Frames
<1>8. PICK r \in 0..Len(heap) : r = ret[t]
  BY Start
<1>9. /\ stack' = [stack EXCEPT ![t] = <<g>> \o Tail(@)] /\ ret' = [ret EXCEPT ![t] = r]
      /\ exc' \in [Threads -> Exceptions \union {"none"}] /\ AnswerOK(t, g, r)'
      /\ calls' \in [Threads -> 0..MaxCalls] /\ r \in 0..Len(heap')
  BY <1>3, <1>7, <1>8, Start DEF GotoWith, Put, AnswerOK, Shape
<1>10. BeingReplaced(f.obj)'
  <2>1. stack'[t] = <<g>> \o Tail(stack[t]) /\ stack[t] \in Seq(Frames)
    BY <1>9, Start DEF Shape
  <2>2. stack'[t] /= <<>> /\ Head(stack'[t]) = g
    BY <1>2, <1>7, <2>1, PutSeq
  <2>3. heap'[f.obj].tid = t
    BY <1>4, <1>6 DEF MadeFor
  <2> QED BY <1>7, <2>2, <2>3 DEF BeingReplaced, At, Top
<1>11. Grows /\ Minds(t) /\ ObjectsOK' /\ EntriesOK' /\ FoundOK'
  <2>1. ~IsResolved(f.obj) /\ heap[f.obj].tid = t
    BY <1>4 DEF IsTemp, IsResolved, MadeFor
  <2>2. PICK old : old = f.obj
    OBVIOUS
  <2>3. ~IsResolved(old) /\ heap[old].tid = t /\ BeingReplaced(old)' /\ old = table[<<n.d, n.l>>]
    BY <1>3, <1>4, <1>10, <2>1, <2>2
  <2>4. n.st /= "kRetired" /\ n.d \notin Arrays /\ n.tid \in Threads
    BY <1>2, <1>3
  <2>5. heap' = Append(heap, n) /\ table' = [table EXCEPT ![<<n.d, n.l>>] = Len(heap) + 1]
    BY <1>3
  <2> QED BY ONLY Consistent, t \in Threads, UNCHANGED <<dexCaches, found>>, <1>2, <1>3, <1>4, <1>5,
                  <2>3, <2>4, <2>5, InsertGrows
<1>12. \A i \in 2..Len(stack[t]) : /\ Spares(t, stack[t][i])
                                   /\ Owns(stack[t][i]) => stack[t][i].obj \in DOMAIN heap
  BY <1>2, <1>3, <1>4, <1>6, BelowAppend
<1>13. FrameOK(t, g)'
  <2>1. MadeFor(g.obj, t, g)' /\ MadeFor(new, t, g)'
    BY <1>3, <1>4, <1>6, <1>7 DEF MadeFor
  <2>2. Registered(g)'
    BY <1>4, <1>7 DEF Registered
  <2>3. table'[<<g.d, g.l>>] = new /\ g.todo = <<new>> /\ new /= g.obj /\ heap'[new].st = "kResolving"
    BY <1>3, <1>6, <1>7
  <2>4. IsTemp(g.obj)'
    BY <1>6, <1>7 DEF IsTemp
  <2> HIDE DEF MadeFor
  <2>5. MadeFor(table[<<g.d, g.l>>], t, g)'
    BY <2>1, <2>3
  <2> QED BY <1>2, <1>7, <2>1, <2>2, <2>3, <2>4, <2>5
          DEF FrameOK, FindOK, DefineOK, ArrayOK, EnsureOK, DefinePlaces, Working
<1>14. \A h \in Frames : Owns(g) /\ Owns(h) /\ h.obj = g.obj =>
           \A i \in 2..Len(stack[t]) : stack[t][i] /= h
  BY <1>2, <1>7, BelowFacts
<1>15. \A i \in 2..Len(stack[t]) : Spares(t, stack[t][i])
  BY <1>12
<1>16. g.fn = f.fn /\ f.fn /= "Ensure"
  BY <1>2, <1>7
<1> QED
  BY ONLY Consistent, t \in Threads, f = Top(t), <1>2, <1>7, <1>9, <1>11, <1>13, <1>14,
          <1>15, <1>16, GoesOn

\* LinkClass fails, resolves the class, or makes its copy.
LEMMA DefineLinkStep ==
    ASSUME Consistent, NEW t \in Threads, DefineLink(t)
    PROVE  Consistent'
<1>1. At(t, "Define", "link") /\ UNCHANGED <<dexCaches, calls, found>>
  BY DEF DefineLink
<1> PICK f \in Frames : f = Top(t)
  BY <1>1, DefineFacts
<1>2. stack[t] /= <<>> /\ Working(f)
  BY <1>1, DefineFacts DEF Working
<1>3. CASE DefineFails(t, "LinkageError")
  BY <1>1, <1>2, <1>3, WorkingPlaces, FailsStep
<1>4. CASE /\ heap' = [heap EXCEPT ![f.obj].st = "kResolved"]
           /\ Return(t, f.obj) /\ UNCHANGED <<table, exc>>
  BY <1>1, <1>4, DefineLinkInPlace
<1>5. CASE /\ IsTemp(f.obj)
           /\ InsertClass(NewClass(f.d, f.l, "kResolving", t, f.cache))
           /\ GotoWith(t, "retire", <<Len(heap) + 1>>) /\ UNCHANGED exc
  BY <1>1, <1>5, DefineLinkCopy
<1> QED BY <1>3, <1>4, <1>5 DEF DefineLink

\* The temporary class is retired.
LEMMA DefineRetireStep ==
    ASSUME Consistent, NEW t \in Threads, DefineRetire(t)
    PROVE  Consistent'
<1>1. At(t, "Define", "retire") /\ UNCHANGED <<table, dexCaches, exc, calls, found>>
  BY DEF DefineRetire
<1> PICK f \in Frames : f = Top(t)
  BY <1>1, DefineFacts
<1> PICK k : k = <<f.d, f.l>>
  OBVIOUS
<1> PICK new : new = table[k]
  OBVIOUS
<1>2. /\ stack[t] /= <<>> /\ f.fn = "Define" /\ f.pc = "retire" /\ k \in Keys /\ FrameOK(t, f)
      /\ Owns(f) /\ f.d \notin Arrays /\ f.d \in Descriptors
  BY <1>1, DefineFacts DEF At, Owns, Working
<1>3. /\ MadeFor(f.obj, t, f) /\ MadeFor(new, t, f) /\ f.todo = <<new>> /\ new /= f.obj
      /\ heap[new].st = "kResolving" /\ IsTemp(f.obj) /\ Registered(f)
  BY <1>2 DEF FrameOK, DefineOK
<1>4. /\ heap \in Seq(Classes) /\ f.obj \in DOMAIN heap /\ new \in DOMAIN heap /\ ~IsResolved(f.obj)
      /\ heap[f.obj].tid = t /\ Home(f.obj) = k
  BY <1>3, Start DEF Shape, MadeFor, IsTemp, IsResolved, Home
<1>5. Changes(f.obj, "kRetired")
  <2>1. heap' = Marked(f.obj, "kRetired")
    BY DEF DefineRetire, Marked
  <2> QED BY <1>4, <2>1, MarkedSet DEF Statuses
<1>6. \A u \in Threads : u /= t => stack'[u] = stack[u]
  BY DEF DefineRetire, Goto, Put, Consistent, Shape
<1>7. Grows /\ Minds(t) /\ ObjectsOK' /\ EntriesOK' /\ FoundOK'
  <2>1. IsRetired(f.obj)' /\ table[Home(f.obj)] /= f.obj
    BY <1>3, <1>4, <1>5 DEF Changes, IsRetired
  <2>2. Top(t).obj = f.obj
    OBVIOUS
  <2> QED BY <1>1, <1>4, <1>5, <1>6, <2>1, <2>2, ChangeGrows DEF Changes
<1>8. \A i \in 2..Len(stack[t]) : Spares(t, stack[t][i])
  BY <1>1, <1>2, <1>5, BelowSpared DEF Changes
<1> PICK g : g = [f EXCEPT !.pc = "resolve"]
  OBVIOUS
<1>9. /\ g \in Frames /\ g.fn = "Define" /\ g.d = f.d /\ g.l = f.l /\ g.pc = "resolve" /\ g.obj = f.obj
      /\ g.cache = f.cache /\ g.todo = <<new>>
  BY <1>2, <1>3, WorkingPlaces DEF Frames
<1>10. PICK r \in 0..Len(heap) : r = ret[t]
  BY Start
<1>11. /\ stack' = [stack EXCEPT ![t] = <<g>> \o Tail(@)] /\ ret' = [ret EXCEPT ![t] = r]
       /\ exc' \in [Threads -> Exceptions \union {"none"}] /\ AnswerOK(t, g, r)'
       /\ calls' \in [Threads -> 0..MaxCalls] /\ r \in 0..Len(heap')
  BY <1>1, <1>5, <1>9, <1>10, Start DEF DefineRetire, Goto, Put, AnswerOK, Shape, Changes
<1>12. FrameOK(t, g)'
  <2>1. heap'[new] = heap[new] /\ DOMAIN heap' = DOMAIN heap
    BY <1>3, <1>4, <1>5 DEF Changes
  <2>2. MadeFor(g.obj, t, g)' /\ MadeFor(new, t, g)' /\ IsRetired(g.obj)'
    BY <1>3, <1>4, <1>5, <1>9, <2>1 DEF MadeFor, Changes, IsRetired
  <2>3. Registered(g)'
    BY <1>1, <1>3, <1>9 DEF Registered
  <2>4. table'[<<g.d, g.l>>] = new /\ heap'[new].st = "kResolving"
    BY <1>1, <1>3, <1>9, <2>1
  <2> HIDE DEF MadeFor
  <2>5. MadeFor(table[<<g.d, g.l>>], t, g)'
    BY <2>2, <2>4
  <2> QED BY <1>2, <1>3, <1>9, <2>2, <2>3, <2>4, <2>5
          DEF FrameOK, FindOK, DefineOK, ArrayOK, EnsureOK, DefinePlaces, Working
<1>13. \A h \in Frames : Owns(g) /\ Owns(h) /\ h.obj = g.obj =>
           \A i \in 2..Len(stack[t]) : stack[t][i] /= h
  BY <1>2, <1>9, BelowFacts
<1>14. g.fn = f.fn /\ f.fn /= "Ensure"
  BY <1>2, <1>9
<1> QED
  BY ONLY Consistent, t \in Threads, f = Top(t), <1>2, <1>7, <1>8, <1>9, <1>11, <1>12, <1>13,
          <1>14, GoesOn

\* The copy is resolved and returned.
LEMMA DefineResolveStep ==
    ASSUME Consistent, NEW t \in Threads, DefineResolve(t)
    PROVE  Consistent'
<1>1. /\ At(t, "Define", "resolve") /\ UNCHANGED <<table, dexCaches, exc, calls, found>>
      /\ ~At(t, "Define", "retire")
  BY DEF DefineResolve, At
<1> PICK f \in Frames : f = Top(t)
  BY <1>1, DefineFacts
<1> PICK k : k = <<f.d, f.l>>
  OBVIOUS
<1> PICK new : new = table[k]
  OBVIOUS
<1>2. /\ stack[t] /= <<>> /\ f.fn = "Define" /\ f.pc = "resolve" /\ k \in Keys /\ FrameOK(t, f)
      /\ Owns(f)
  BY <1>1, DefineFacts DEF Owns
<1>3. /\ MadeFor(new, t, f) /\ f.todo = <<new>> /\ heap[new].st = "kResolving"
  BY <1>2 DEF FrameOK, DefineOK
<1>4. /\ heap \in Seq(Classes) /\ new \in DOMAIN heap /\ ~IsResolved(new)
      /\ heap[new].tid = t /\ Home(new) = k /\ DOMAIN heap = 1..Len(heap)
  BY <1>3, Start DEF Shape, MadeFor, IsResolved, Home
<1>5. Changes(new, "kResolved")
  <2>1. heap' = Marked(new, "kResolved")
    BY <1>3 DEF DefineResolve, Marked
  <2> QED BY <1>4, <2>1, MarkedSet DEF Statuses
<1>6. \A u \in Threads : u /= t => stack'[u] = stack[u]
  BY DEF DefineResolve, Return, Consistent, Shape
<1>7. Grows /\ Minds(t) /\ ObjectsOK' /\ EntriesOK' /\ FoundOK'
  <2>1. ~IsRetired(new)' /\ table[Home(new)] = new
    BY <1>4, <1>5 DEF Changes, IsRetired
  <2> QED BY <1>1, <1>4, <1>5, <1>6, <2>1, ChangeGrows DEF Changes
<1>8. ASSUME NEW i \in 2..Len(stack[t]) PROVE Spares(t, stack[t][i])
  <2>1. PICK h : h = stack[t][i]
    OBVIOUS
  <2>2. /\ FrameOK(t, h) /\ (Owns(h) => Working(h))
        /\ h.fn /= "Ensure" /\ h.pc \notin {"retire", "resolve"}
    BY <1>2, <2>1, BelowFacts
  <2>3. Owns(h) => h.obj \in DOMAIN heap /\ h.obj /= new
    <3> HAVE Owns(h)
    <3>1. MadeFor(h.obj, t, h) /\ heap[h.obj].st \in {"kIdx", "kLoaded", "kErrorUnresolved"}
      BY <2>2 DEF FrameOK, DefineOK, Working
    <3> QED BY <1>3, <3>1 DEF MadeFor
  <2>4. Spares(t, h)
    BY <1>1, <1>5, <2>2, <2>3 DEF Spares, Changes
  <2> QED BY <2>1, <2>4
<1>9. PICK c \in 0..Len(heap') : c = new
  BY <1>4, <1>5 DEF Changes
<1>10. Right(f, c)'
  BY <1>1, <1>2, <1>4, <1>5, <1>9 DEF Right, Current, Changes, IsResolved
<1>11. /\ exc' \in [Threads -> Exceptions \union {"none"}] /\ calls' \in [Threads -> 0..MaxCalls]
       /\ stack' = [stack EXCEPT ![t] = Tail(@)] /\ ret' = [ret EXCEPT ![t] = c]
  BY <1>1, <1>3, <1>9, Start DEF DefineResolve, Return, Shape
<1> QED BY <1>2, <1>7, <1>8, <1>10, <1>11, Returns

----------------------------------------------------------------------------
\* The steps of FindClass.

\* What is known when thread t is in FindClass.
LEMMA FindFacts ==
    ASSUME Consistent, NEW t \in Threads, NEW pc, At(t, "Find", pc)
    PROVE  /\ stack[t] /= <<>> /\ Top(t) \in Frames /\ Top(t).fn = "Find" /\ Top(t).pc = pc
           /\ FrameOK(t, Top(t)) /\ FindOK(Top(t)) /\ AnswerOK(t, Top(t), ret[t])
           /\ Top(t).d \in Descriptors /\ Top(t).l \in Loaders
           /\ <<Top(t).d, Top(t).l>> \in Keys /\ ~At(t, "Define", "retire")
           /\ calls \in [Threads -> 0..MaxCalls] /\ found \in [Keys -> SUBSET Nat]
<1>1. stack[t] /= <<>> /\ Top(t).fn = "Find" /\ Top(t).pc = pc /\ ~At(t, "Define", "retire")
  BY DEF At
<1>2. Top(t) \in Frames /\ FrameOK(t, Top(t)) /\ FindOK(Top(t)) /\ AnswerOK(t, Top(t), ret[t])
  BY <1>1, TopFacts DEF FrameOK
<1>3. Top(t).d \in Descriptors /\ Top(t).l \in Loaders /\ <<Top(t).d, Top(t).l>> \in Keys
  BY <1>2 DEF Frames, Keys
<1> QED BY <1>1, <1>2, <1>3 DEF Consistent, Shape

\* FindClass goes on, or has its result.
LEMMA FindGoes ==
    ASSUME Consistent, NEW t \in Threads, stack[t] /= <<>>, NEW f, f = Top(t), f.fn = "Find",
           UNCHANGED <<heap, table, dexCaches, found, calls>>,
           exc' \in [Threads -> Exceptions \union {"none"}],
           NEW g \in Frames, g.fn = "Find", g.d = f.d, g.l = f.l, g.obj = f.obj, FindOK(g),
           stack' = [stack EXCEPT ![t] = <<g>> \o Tail(@)],
           NEW c \in 0..Len(heap), ret' = [ret EXCEPT ![t] = c], AnswerOK(t, g, c)
    PROVE  Consistent'
<1>1. FrameOK(t, g) /\ ~Owns(g)
  BY DEF FrameOK, DefineOK, ArrayOK, EnsureOK, Owns
<1>2. f.fn /= "Ensure" /\ f.pc /= "retire" /\ g.fn = f.fn
  <2>1. f \in Frames /\ FrameOK(t, f)
    BY TopFacts
  <2> QED BY <2>1 DEF FrameOK, FindOK, FindPlaces
<1> QED
  BY ONLY Consistent, t \in Threads, f = Top(t), stack[t] /= <<>>, g \in Frames, g.d = f.d, g.l = f.l,
          g.obj = f.obj, UNCHANGED <<heap, table, dexCaches, found, calls>>,
          exc' \in [Threads -> Exceptions \union {"none"}], AnswerOK(t, g, c),
          stack' = [stack EXCEPT ![t] = <<g>> \o Tail(@)], c \in 0..Len(heap),
          ret' = [ret EXCEPT ![t] = c], <1>1, <1>2, QuietGoto

\* FindClass moves to a place where no answer is expected.
LEMMA FindMoves ==
    ASSUME Consistent, NEW t \in Threads, stack[t] /= <<>>, NEW f, f = Top(t), f.fn = "Find",
           UNCHANGED <<heap, table, dexCaches, found, calls>>,
           exc' \in [Threads -> Exceptions \union {"none"}],
           NEW pc \in {"search", "java", "raised"}, NEW todo, NEW g,
           g = [f EXCEPT !.pc = pc, !.todo = todo], todo \in Seq(Entries) \/ todo = f.todo,
           pc \in {"search", "java"} => f.d \notin Arrays /\ f.l /= "boot",
           pc = "search" => \A i \in DOMAIN todo : VisitOK(todo[i]),
           Put(t, g)
    PROVE  Consistent'
<1>1. f \in Frames
  BY TopFacts
<1>2. todo \in Seq(Entries \union Descriptors \union Nat)
  <2>1. CASE todo \in Seq(Entries)
    BY <2>1
  <2>2. CASE todo = f.todo
    BY <1>1, <2>2 DEF Frames
  <2> QED BY <2>1, <2>2
<1>3. /\ g \in Frames /\ g.fn = "Find" /\ g.d = f.d /\ g.l = f.l /\ g.obj = f.obj /\ g.pc = pc
      /\ g.todo = todo
  BY <1>1, <1>2 DEF Frames, Places, FindPlaces
<1>4. FindOK(g)
  BY <1>3 DEF FindOK, FindPlaces
<1>5. PICK r \in 0..Len(heap) : r = ret[t]
  BY Start
<1>6. /\ stack' = [stack EXCEPT ![t] = <<g>> \o Tail(@)] /\ ret' = [ret EXCEPT ![t] = r]
      /\ AnswerOK(t, g, r)
  BY <1>3, <1>5, Start DEF Put, AnswerOK
<1> QED
  BY ONLY Consistent, t \in Threads, stack[t] /= <<>>, f = Top(t), f.fn = "Find",
          UNCHANGED <<heap, table, dexCaches, found, calls>>,
          exc' \in [Threads -> Exceptions \union {"none"}], <1>3, <1>4, <1>5, <1>6, FindGoes

\* FindClass has no result.
LEMMA FindEnds ==
    ASSUME Consistent, NEW t \in Threads, stack[t] /= <<>>, Top(t).fn = "Find",
           UNCHANGED <<heap, table, dexCaches, found, calls>>,
           exc' \in [Threads -> Exceptions \union {"none"}],
           stack' = [stack EXCEPT ![t] = <<[Top(t) EXCEPT !.pc = "done"]>> \o Tail(@)],
           ret' = [ret EXCEPT ![t] = 0]
    PROVE  Consistent'
<1> PICK f \in Frames : f = Top(t)
  BY TopFacts
<1> PICK g : g = [f EXCEPT !.pc = "done"]
  OBVIOUS
<1>1. /\ g \in Frames /\ g.fn = "Find" /\ g.d = f.d /\ g.l = f.l /\ g.obj = f.obj /\ g.pc = "done"
  BY DEF Frames, Places, FindPlaces
<1>2. FindOK(g) /\ AnswerOK(t, g, 0) /\ 0 \in 0..Len(heap)
  BY <1>1, Start DEF FindOK, FindPlaces, AnswerOK
<1>3. stack' = [stack EXCEPT ![t] = <<g>> \o Tail(@)]
  OBVIOUS
<1>4. PICK c : c = 0
  OBVIOUS
<1>5. ret' = [ret EXCEPT ![t] = c] /\ AnswerOK(t, g, c) /\ c \in 0..Len(heap)
  BY <1>2, <1>4
<1> QED
  BY ONLY Consistent, t \in Threads, stack[t] /= <<>>, f = Top(t), Top(t).fn = "Find",
          UNCHANGED <<heap, table, dexCaches, found, calls>>,
          exc' \in [Threads -> Exceptions \union {"none"}], <1>1, <1>2, <1>3, <1>5, FindGoes

\* FindClass calls.
LEMMA FindCalls ==
    ASSUME Consistent, NEW t \in Threads, stack[t] /= <<>>, NEW f \in Frames, f = Top(t), f.fn = "Find",
           UNCHANGED <<heap, table, dexCaches, found, calls>>,
           exc' \in [Threads -> Exceptions \union {"none"}],
           NEW pc \in {"done", "searched", "array", "loaded"}, NEW g \in Frames, FrameOK(t, g),
           g.pc \in {"lookup", "start", "component", "temp"}, Call(t, pc, g),
           NEW h, h = [f EXCEPT !.pc = pc], FindOK(h), CallOK(g, h)
    PROVE  Consistent'
<1>1. h \in Frames /\ h.fn = "Find" /\ h.d = f.d /\ h.l = f.l /\ h.obj = f.obj /\ h.pc = pc
  BY DEF Frames, Places, FindPlaces
<1>2. FrameOK(t, h) /\ ~Owns(h) /\ Waits(h)
  BY <1>1 DEF FrameOK, DefineOK, ArrayOK, EnsureOK, Owns, Waits
<1>3. f.pc /= "retire" /\ h.fn = f.fn
  <2>1. FrameOK(t, f)
    BY TopFacts
  <2> QED BY <1>1, <2>1 DEF FrameOK, FindOK, FindPlaces
<1>4. stack' = [stack EXCEPT ![t] = <<g, h>> \o Tail(@)] /\ UNCHANGED ret
  BY DEF Call
<1> QED
  BY ONLY Consistent, t \in Threads, stack[t] /= <<>>, f = Top(t), g \in Frames, FrameOK(t, g),
          UNCHANGED <<heap, table, dexCaches, found, calls>>, CallOK(g, h),
          exc' \in [Threads -> Exceptions \union {"none"}],
          g.pc \in {"lookup", "start", "component", "temp"}, <1>1, <1>2, <1>3, <1>4, QuietCall

\* It asks for the class that its table has, or for one to be defined.
LEMMA FindEnsures ==
    ASSUME Consistent, NEW t \in Threads, stack[t] /= <<>>, NEW f \in Frames, f = Top(t), f.fn = "Find",
           UNCHANGED <<heap, table, dexCaches, found, calls>>,
           exc' \in [Threads -> Exceptions \union {"none"}],
           NEW c, c = table[<<f.d, f.l>>], c /= 0, Call(t, "done", EnsureFrame(c))
    PROVE  Consistent'
<1> PICK g : g = EnsureFrame(c)
  OBVIOUS
<1> PICK h : h = [f EXCEPT !.pc = "done"]
  OBVIOUS
<1> PICK k : k = <<f.d, f.l>>
  OBVIOUS
<1>1. h.fn = "Find" /\ h.pc = "done" /\ h.d = f.d /\ h.l = f.l /\ k \in Keys
  BY DEF Frames, Keys
<1>2. /\ g \in Frames /\ FrameOK(t, g) /\ g.fn = "Ensure" /\ g.pc = "temp" /\ Answers(g, f.d, f.l)
  BY <1>1, NewEnsure
<1>3. FindOK(h) /\ CallOK(g, h)
  BY <1>1, <1>2 DEF FindOK, FindPlaces, CallOK
<1> PICK pc \in {"done", "searched", "array", "loaded"} : pc = "done"
  OBVIOUS
<1>4. Call(t, pc, g) /\ h = [f EXCEPT !.pc = pc] /\ g.pc \in {"lookup", "start", "component", "temp"}
  BY <1>2
<1> QED
  BY ONLY Consistent, t \in Threads, stack[t] /= <<>>, f \in Frames, f = Top(t), f.fn = "Find",
          UNCHANGED <<heap, table, dexCaches, found, calls>>,
          pc \in {"done", "searched", "array", "loaded"},
          exc' \in [Threads -> Exceptions \union {"none"}], <1>2, <1>3, <1>4, FindCalls

\* FindClass asks for a class of the loader it has come to.
LEMMA FindAsks ==
    ASSUME Consistent, NEW t \in Threads, stack[t] /= <<>>, NEW f \in Frames, f = Top(t), f.fn = "Find",
           UNCHANGED <<heap, table, dexCaches, found, calls>>,
           exc' \in [Threads -> Exceptions \union {"none"}],
           NEW pc \in {"done", "searched", "array", "loaded"}, NEW g, NEW l \in Loaders,
           \/ g = DefineFrame(f.d, l) /\ f.d \notin Arrays /\ pc /= "array"
           \/ g = ArrayFrame(f.d, l) /\ f.d \in Arrays /\ pc = "array"
           \/ g = FindFrame(f.d, l) /\ pc = "loaded",
           pc \in {"done", "array"} => l = f.l,
           pc = "loaded" => f.d \notin Arrays /\ f.l /= "boot",
           pc = "loaded" => l = IF g.fn = "Find" THEN Parent[f.l] ELSE f.l,
           pc = "searched" => /\ l = Head(f.todo).at /\ f.pc = "search"
                              /\ f.todo /= <<>> /\ ~Head(f.todo).whole,
           Call(t, pc, g)
    PROVE  Consistent'
<1>1. f.d \in Descriptors /\ FindOK(f)
  BY TopFacts DEF Frames, FrameOK
<1>2. /\ g \in Frames /\ FrameOK(t, g) /\ g.pc \in {"lookup", "start", "component", "temp"}
      /\ g.d = f.d /\ g.l = l
  <2>1. g \in Frames /\ FrameOK(t, g)
    BY <1>1, NewFrames
  <2> QED BY <2>1 DEF DefineFrame, ArrayFrame, FindFrame, Frame
<1>3. /\ g.fn \in {"Define", "Array", "Find"}
      /\ g.fn = "Define" => f.d \notin Arrays /\ pc /= "array"
      /\ g.fn = "Array" => f.d \in Arrays /\ pc = "array"
      /\ g.fn = "Find" => pc = "loaded"
  BY DEF DefineFrame, ArrayFrame, FindFrame, Frame
<1> PICK h : h = [f EXCEPT !.pc = pc]
  OBVIOUS
<1>4. h.fn = "Find" /\ h.pc = pc /\ h.d = f.d /\ h.l = f.l /\ h.todo = f.todo
  BY DEF Frames
<1>5. FindOK(h)
  <2>1. pc = "array" => f.d \in Arrays
    BY <1>3
  <2>2. pc = "searched" => /\ f.d \notin Arrays /\ f.l /= "boot"
                           /\ \A i \in DOMAIN f.todo : VisitOK(f.todo[i])
    BY <1>1 DEF FindOK
  <2> QED BY <1>4, <2>1, <2>2 DEF FindOK, FindPlaces
<1>6. CallOK(g, h)
  BY <1>2, <1>3, <1>4 DEF CallOK, Answers
<1> QED
  BY ONLY Consistent, t \in Threads, stack[t] /= <<>>, f \in Frames, f = Top(t), f.fn = "Find",
          UNCHANGED <<heap, table, dexCaches, found, calls>>, Call(t, pc, g),
          pc \in {"done", "searched", "array", "loaded"}, h = [f EXCEPT !.pc = pc],
          exc' \in [Threads -> Exceptions \union {"none"}], <1>2, <1>5, <1>6, FindCalls

\* FindClass looks into the table of the loader, and decides how to search.
LEMMA FindLookupStep ==
    ASSUME Consistent, NEW t \in Threads, FindLookup(t)
    PROVE  Consistent'
<1>1. At(t, "Find", "lookup") /\ UNCHANGED <<heap, table, dexCaches, calls, found>>
  BY DEF FindLookup
<1> PICK f \in Frames : f = Top(t)
  BY <1>1, FindFacts
<1>2. /\ stack[t] /= <<>> /\ f.fn = "Find" /\ f.d \in Descriptors /\ f.l \in Loaders
      /\ \A l \in Loaders : Kind[l] = "boot" <=> l = "boot"
  BY <1>1, FindFacts, DefineAssumption
<1>3. /\ UNCHANGED exc => exc' \in [Threads -> Exceptions \union {"none"}]
      /\ Throw(t, "NoClassDefFoundError") => exc' \in [Threads -> Exceptions \union {"none"}]
  BY Start DEF Throw, Exceptions
<1>4. CASE /\ table[<<f.d, f.l>>] /= 0 /\ Call(t, "done", EnsureFrame(table[<<f.d, f.l>>]))
           /\ UNCHANGED exc
  BY <1>1, <1>2, <1>3, <1>4, FindEnsures
<1>5. CASE f.d \notin Arrays /\ Call(t, "done", DefineFrame(f.d, f.l)) /\ UNCHANGED exc
  <2> PICK pc \in {"done", "searched", "array", "loaded"} : pc = "done"
    OBVIOUS
  <2> PICK g : g = DefineFrame(f.d, f.l)
    OBVIOUS
  <2>1. Call(t, pc, g) /\ g = DefineFrame(f.d, f.l) /\ f.d \notin Arrays
    BY <1>5
  <2> QED BY <1>1, <1>2, <1>3, <1>5, <2>1, FindAsks
<1>6. CASE /\ stack' = [stack EXCEPT ![t] = <<[Top(t) EXCEPT !.pc = "done"]>> \o Tail(@)]
           /\ ret' = [ret EXCEPT ![t] = 0] /\ Throw(t, "NoClassDefFoundError")
  BY <1>1, <1>2, <1>3, <1>6, FindEnds
<1>7. CASE f.d \in Arrays /\ Call(t, "array", ArrayFrame(f.d, f.l)) /\ UNCHANGED exc
  <2> PICK pc \in {"done", "searched", "array", "loaded"} : pc = "array"
    OBVIOUS
  <2> PICK g : g = ArrayFrame(f.d, f.l)
    OBVIOUS
  <2>1. Call(t, pc, g) /\ g = ArrayFrame(f.d, f.l) /\ f.d \in Arrays
    BY <1>7
  <2> QED BY <1>1, <1>2, <1>3, <1>7, <2>1, FindAsks
<1>8. CASE /\ f.d \notin Arrays /\ Kind[f.l] /= "boot" /\ GotoWith(t, "search", <<Whole(f.l)>>)
           /\ UNCHANGED exc
  <2> PICK todo : todo = <<Whole(f.l)>>
    OBVIOUS
  <2> PICK pc \in {"search", "java", "raised"} : pc = "search"
    OBVIOUS
  <2>1. todo \in Seq(Entries) /\ \A i \in DOMAIN todo : VisitOK(todo[i])
    <3>1. Whole(f.l) \in Entries /\ VisitOK(Whole(f.l))
      BY <1>2 DEF Whole, Entries, VisitOK
    <3> QED BY <3>1
  <2>2. Put(t, [f EXCEPT !.pc = pc, !.todo = todo])
    BY <1>8 DEF GotoWith
  <2> QED BY <1>1, <1>2, <1>3, <1>8, <2>1, <2>2, FindMoves
<1> QED BY <1>4, <1>5, <1>6, <1>7, <1>8 DEF FindLookup, LookupClass

\* The loaders to visit instead of one that delegates.
LEMMA VisitOrderOK ==
    ASSUME NEW l \in Loaders, l /= "boot"
    PROVE  VisitOrder(l) \in Seq(Entries) /\ \A i \in DOMAIN VisitOrder(l) : VisitOK(VisitOrder(l)[i])
<1>1. \A k \in Loaders : /\ Whole(k) \in {e \in Entries : VisitOK(e)}
                         /\ Own(k) \in {e \in Entries : VisitOK(e)}
  BY DEF Whole, Own, Entries, VisitOK
<1> PICK V : V = {e \in Entries : VisitOK(e)}
  OBVIOUS
<1> PICK libs : libs = [i \in DOMAIN Libs[l] |-> Whole(Libs[l][i])]
  OBVIOUS
<1>2. libs \in Seq(V)
  <2>1. Libs[l] \in Seq(Loaders)
    BY DefineAssumption
  <2>2. /\ DOMAIN Libs[l] = 1..Len(Libs[l]) /\ Len(Libs[l]) \in Nat
        /\ \A i \in DOMAIN Libs[l] : Libs[l][i] \in Loaders
    BY <2>1
  <2>3. libs \in [1..Len(Libs[l]) -> V]
    BY <1>1, <2>2
  <2> QED BY <2>2, <2>3, IsASeq
<1>3. Whole(Parent[l]) \in V /\ Own(l) \in V /\ Own("boot") \in V
  BY <1>1, DefineAssumption
<1> PICK a : a = Whole(Parent[l])
  OBVIOUS
<1> PICK b : b = Own(l)
  OBVIOUS
<1> PICK c : c = Own("boot")
  OBVIOUS
<1>4. <<a>> \o libs \o <<b>> \in Seq(V) /\ <<c>> \o libs \o <<b, a>> \in Seq(V)
  <2>1. <<a>> \in Seq(V) /\ <<b>> \in Seq(V) /\ <<c>> \in Seq(V) /\ <<b, a>> \in Seq(V)
    BY <1>3
  <2>2. <<a>> \o libs \in Seq(V) /\ <<c>> \o libs \in Seq(V)
    BY <1>2, <2>1
  <2> QED BY <2>1, <2>2
<1>5. VisitOrder(l) \in Seq(V)
  <2>1. VisitOrder(l) = IF Kind[l] = "path" THEN <<a>> \o libs \o <<b>> ELSE <<c>> \o libs \o <<b, a>>
    BY DEF VisitOrder
  <2> QED BY <1>4, <2>1
<1>6. PICK v \in Seq(V) : v = VisitOrder(l)
  BY <1>5
<1>7. v \in Seq(Entries) /\ \A i \in DOMAIN v : VisitOK(v[i])
  OBVIOUS
<1> QED BY <1>6, <1>7

\* The search comes to a loader that delegates, or gives up.
LEMMA FindDelegatesStep ==
    ASSUME Consistent, NEW t \in Threads, FindDelegates(t)
    PROVE  Consistent'
<1>1. At(t, "Find", "search") /\ UNCHANGED <<heap, table, dexCaches, exc, calls, found>>
  BY DEF FindDelegates
<1> PICK f \in Frames : f = Top(t)
  BY <1>1, FindFacts
<1>2. /\ stack[t] /= <<>> /\ f.fn = "Find" /\ f.pc = "search" /\ FindOK(f)
      /\ exc' \in [Threads -> Exceptions \union {"none"}]
  BY <1>1, FindFacts, Start
<1>3. /\ f.todo /= <<>> /\ Head(f.todo).whole /\ f.d \notin Arrays /\ f.l /= "boot"
      /\ \A i \in DOMAIN f.todo : VisitOK(f.todo[i])
  BY <1>2 DEF FindDelegates, FindOK
<1> PICK todo : todo = f.todo
  OBVIOUS
<1>4. todo \in Seq(Entries)
  <2>1. todo \in Seq(Entries \union Descriptors \union Nat) /\ \A i \in DOMAIN todo : todo[i] \in Entries
    BY <1>3 DEF Frames, VisitOK
  <2> QED BY <2>1
<1>5. CASE GotoWith(t, "search", VisitOrder(Head(todo).at) \o Tail(todo))
  <2> PICK l : l = Head(todo).at
    OBVIOUS
  <2>1. l \in Loaders /\ l /= "boot"
    <3>1. VisitOK(Head(todo)) /\ Head(todo).whole
      BY <1>3, <1>4
    <3> QED BY <3>1 DEF VisitOK, Entries
  <2> PICK v : v = VisitOrder(l)
    OBVIOUS
  <2>2. v \in Seq(Entries) /\ \A i \in DOMAIN v : VisitOK(v[i])
    BY <2>1, VisitOrderOK
  <2> PICK w : w = v \o Tail(todo)
    OBVIOUS
  <2>3. w \in Seq(Entries) /\ \A i \in DOMAIN w : VisitOK(w[i])
    <3> PICK V : V = {e \in Entries : VisitOK(e)}
      OBVIOUS
    <3>1. v \in Seq(V) /\ todo \in Seq(V)
      BY <1>3, <1>4, <2>2
    <3>2. Tail(todo) \in Seq(V)
      BY <1>3, <3>1
    <3>3. w \in Seq(V)
      BY <3>1, <3>2
    <3> QED BY ONLY <3>3, V = {e \in Entries : VisitOK(e)}
  <2> PICK pc \in {"search", "java", "raised"} : pc = "search"
    OBVIOUS
  <2>4. Put(t, [f EXCEPT !.pc = pc, !.todo = w])
    BY <1>5 DEF GotoWith
  <2> QED BY <1>1, <1>2, <1>3, <2>3, <2>4, FindMoves
<1>6. CASE Goto(t, "java") \/ Goto(t, "raised")
  <2> PICK pc \in {"search", "java", "raised"} : pc \in {"java", "raised"} /\ Goto(t, pc)
    BY <1>6
  <2>1. [f EXCEPT !.pc = pc] = [f EXCEPT !.pc = pc, !.todo = todo]
    BY DEF Frames
  <2>2. Put(t, [f EXCEPT !.pc = pc, !.todo = todo])
    BY <2>1 DEF Goto
  <2> QED BY <1>1, <1>2, <1>3, <1>4, <2>2, FindMoves
<1> QED BY <1>5, <1>6 DEF FindDelegates

\* The list of a search.
LEMMA SearchList ==
    ASSUME NEW f \in Frames, FindOK(f), f.fn = "Find", f.pc \in {"search", "searched"}
    PROVE  /\ f.todo \in Seq(Entries) /\ f.d \notin Arrays /\ f.l /= "boot"
           /\ \A i \in DOMAIN f.todo : VisitOK(f.todo[i])
           /\ f.todo /= <<>> =>
                  /\ Head(f.todo) \in Entries /\ VisitOK(Head(f.todo)) /\ Head(f.todo).at \in Loaders
                  /\ Tail(f.todo) \in Seq(Entries)
                  /\ \A i \in DOMAIN Tail(f.todo) : VisitOK(Tail(f.todo)[i])
<1> PICK todo : todo = f.todo
  OBVIOUS
<1>1. f.d \notin Arrays /\ f.l /= "boot" /\ \A i \in DOMAIN todo : VisitOK(todo[i])
  BY DEF FindOK
<1>2. todo \in Seq(Entries)
  <2>1. todo \in Seq(Entries \union Descriptors \union Nat) /\ \A i \in DOMAIN todo : todo[i] \in Entries
    BY <1>1 DEF Frames, VisitOK
  <2> QED BY <2>1
<1>3. ASSUME todo /= <<>>
      PROVE  /\ Head(todo) \in Entries /\ VisitOK(Head(todo)) /\ Head(todo).at \in Loaders
             /\ Tail(todo) \in Seq(Entries)
             /\ \A i \in DOMAIN Tail(todo) : VisitOK(Tail(todo)[i])
  <2>1. Head(todo) = todo[1] /\ 1 \in DOMAIN todo /\ Tail(todo) \in Seq(Entries)
    BY <1>2, <1>3
  <2>2. Head(todo) \in Entries /\ VisitOK(Head(todo)) /\ Head(todo).at \in Loaders
    BY <1>1, <2>1 DEF VisitOK, Entries
  <2>3. \A i \in DOMAIN Tail(todo) : i + 1 \in DOMAIN todo /\ Tail(todo)[i] = todo[i + 1]
    BY <1>2, <1>3
  <2> QED BY <1>1, <2>1, <2>2, <2>3
<1> QED BY <1>1, <1>2, <1>3

\* The two ways a search goes on.
LEMMA SearchGoes ==
    ASSUME Consistent, NEW t \in Threads, NEW pc0 \in {"search", "searched"}, At(t, "Find", pc0),
           UNCHANGED <<heap, table, dexCaches, found, calls>>,
           exc' \in [Threads -> Exceptions \union {"none"}],
           \/ Goto(t, "raised")
           \/ Top(t).todo /= <<>> /\ GotoWith(t, "search", Tail(Top(t).todo))
    PROVE  Consistent'
<1> PICK f \in Frames : f = Top(t)
  BY FindFacts
<1>1. stack[t] /= <<>> /\ f.fn = "Find" /\ f.pc = pc0 /\ FindOK(f)
  BY FindFacts
<1>2. CASE Goto(t, "raised")
  <2> PICK pc \in {"search", "java", "raised"} : pc = "raised"
    OBVIOUS
  <2> PICK todo : todo = f.todo
    OBVIOUS
  <2>1. [f EXCEPT !.pc = pc] = [f EXCEPT !.pc = pc, !.todo = todo]
    BY DEF Frames
  <2>2. Put(t, [f EXCEPT !.pc = pc, !.todo = todo])
    BY <1>2, <2>1 DEF Goto
  <2> QED BY <1>1, <2>2, FindMoves
<1>3. CASE f.todo /= <<>> /\ GotoWith(t, "search", Tail(f.todo))
  <2> PICK pc \in {"search", "java", "raised"} : pc = "search"
    OBVIOUS
  <2> PICK todo : todo = Tail(f.todo)
    OBVIOUS
  <2>1. todo \in Seq(Entries) /\ f.d \notin Arrays /\ f.l /= "boot"
        /\ \A i \in DOMAIN todo : VisitOK(todo[i])
    BY <1>1, <1>3, SearchList
  <2>2. Put(t, [f EXCEPT !.pc = pc, !.todo = todo])
    BY <1>3 DEF GotoWith
  <2> QED BY <1>1, <2>1, <2>2, FindMoves
<1> QED BY <1>2, <1>3

\* The search looks into one class path.
LEMMA FindSearchStep ==
    ASSUME Consistent, NEW t \in Threads, FindSearch(t)
    PROVE  Consistent'
<1>1. At(t, "Find", "search") /\ UNCHANGED <<heap, table, dexCaches, calls, found>>
  BY DEF FindSearch
<1> PICK f \in Frames : f = Top(t)
  BY <1>1, FindFacts
<1>2. /\ stack[t] /= <<>> /\ f.fn = "Find" /\ f.pc = "search" /\ FindOK(f) /\ f.d \in Descriptors
      /\ exc \in [Threads -> Exceptions \union {"none"}] /\ f.d \notin Arrays
  BY <1>1, FindFacts, Start, SearchList
<1> PICK e : e = Head(f.todo)
  OBVIOUS
<1>3. f.todo /= <<>> => e \in Entries /\ e.at \in Loaders /\ ~e.whole
  BY <1>2, SearchList DEF FindSearch
<1>4. CASE /\ f.todo /= <<>> /\ table[<<f.d, e.at>>] /= 0
           /\ Call(t, "searched", EnsureFrame(table[<<f.d, e.at>>])) /\ UNCHANGED exc
  <2> PICK k \in Keys : k = <<f.d, e.at>>
    BY <1>2, <1>3, <1>4 DEF Keys
  <2> PICK g : g = EnsureFrame(table[k])
    OBVIOUS
  <2>1. /\ g \in Frames /\ FrameOK(t, g) /\ g.fn = "Ensure" /\ g.pc = "temp" /\ Answers(g, f.d, e.at)
    BY <1>4, NewEnsure
  <2> PICK h : h = [f EXCEPT !.pc = "searched"]
    OBVIOUS
  <2>2. h.fn = "Find" /\ h.pc = "searched" /\ h.d = f.d /\ h.l = f.l /\ h.todo = f.todo
    BY <1>2 DEF Frames
  <2>3. FindOK(h)
    BY <1>2, <1>3, <1>4, <2>2, SearchList DEF FindOK, FindPlaces
  <2>4. CallOK(g, h)
    BY <2>1, <2>2 DEF CallOK
  <2> PICK pc \in {"done", "searched", "array", "loaded"} : pc = "searched"
    OBVIOUS
  <2>5. /\ Call(t, pc, g) /\ h = [f EXCEPT !.pc = pc] /\ g.pc \in {"lookup", "start", "component", "temp"}
        /\ exc' \in [Threads -> Exceptions \union {"none"}]
    BY <1>2, <1>4, <2>1
  <2> QED
    BY ONLY Consistent, t \in Threads, f \in Frames, f = Top(t), <1>1, <1>2,
            pc \in {"done", "searched", "array", "loaded"}, <2>1, <2>3, <2>4, <2>5, FindCalls
<1>5. CASE f.todo /= <<>> /\ Call(t, "searched", DefineFrame(f.d, e.at)) /\ UNCHANGED exc
  <2> PICK pc \in {"done", "searched", "array", "loaded"} : pc = "searched"
    OBVIOUS
  <2> PICK g : g = DefineFrame(f.d, e.at)
    OBVIOUS
  <2> PICK l \in Loaders : l = e.at
    BY <1>3, <1>5
  <2>1. /\ Call(t, pc, g) /\ g = DefineFrame(f.d, l) /\ f.d \notin Arrays
        /\ l = Head(f.todo).at /\ f.pc = "search" /\ f.todo /= <<>> /\ ~Head(f.todo).whole
        /\ exc' \in [Threads -> Exceptions \union {"none"}]
    BY <1>2, <1>3, <1>5
  <2> QED BY <1>1, <1>2, <2>1, FindAsks
<1>6. CASE /\ f.todo /= <<>> /\ UNCHANGED exc
           /\ Goto(t, "raised") \/ GotoWith(t, "search", Tail(f.todo))
  BY <1>1, <1>2, <1>6, SearchGoes
<1>7. CASE /\ exc' = [exc EXCEPT ![t] = IF @ = "none" THEN "ClassNotFoundException" ELSE @]
           /\ Goto(t, "raised")
  <2>1. exc' \in [Threads -> Exceptions \union {"none"}]
    BY <1>2, <1>7 DEF Exceptions
  <2> QED BY <1>1, <1>2, <1>7, <2>1, SearchGoes
<1> QED BY <1>4, <1>5, <1>6, <1>7 DEF FindSearch, LookupClass

\* A class that was found is about to enter the initiating loader's table.
LEMMA FindInserts ==
    ASSUME Consistent, NEW t \in Threads, NEW pc0 \in {"searched", "array", "loaded"}, At(t, "Find", pc0),
           UNCHANGED <<heap, table, dexCaches, found, calls, exc>>, Goto(t, "insert")
    PROVE  Consistent'
<1> PICK f \in Frames : f = Top(t)
  BY FindFacts
<1>1. /\ stack[t] /= <<>> /\ f.fn = "Find" /\ f.pc = pc0 /\ AnswerOK(t, f, ret[t])
      /\ exc' \in [Threads -> Exceptions \union {"none"}]
  BY FindFacts, Start
<1> PICK g : g = [f EXCEPT !.pc = "insert"]
  OBVIOUS
<1>2. g \in Frames /\ g.fn = "Find" /\ g.d = f.d /\ g.l = f.l /\ g.obj = f.obj /\ g.pc = "insert"
  BY <1>1 DEF Frames, Places, FindPlaces
<1> PICK r \in 0..Len(heap) : r = ret[t]
  BY Start
<1>3. FindOK(g) /\ AnswerOK(t, g, r)
  BY <1>1, <1>2 DEF FindOK, FindPlaces, AnswerOK
<1>4. /\ stack' = [stack EXCEPT ![t] = <<g>> \o Tail(@)] /\ ret' = [ret EXCEPT ![t] = r]
  BY Start DEF Goto, Put
<1> QED
  BY ONLY Consistent, t \in Threads, f = Top(t), UNCHANGED <<heap, table, dexCaches, found, calls>>,
          r \in 0..Len(heap), <1>1, <1>2, <1>3, <1>4, FindGoes

\* A class path has answered.
LEMMA FindSearchedStep ==
    ASSUME Consistent, NEW t \in Threads, FindSearched(t)
    PROVE  Consistent'
<1>1. At(t, "Find", "searched") /\ UNCHANGED <<heap, table, dexCaches, calls, found>>
  BY DEF FindSearched
<1>2. Top(t).todo /= <<>>
  BY <1>1, FindFacts DEF FindOK
<1>3. CASE Goto(t, "insert") /\ UNCHANGED exc
  BY <1>1, <1>3, FindInserts
<1>4. ASSUME Throw(t, IF exc[t] \in Caught THEN "none" ELSE exc[t]),
             Goto(t, "raised") \/ GotoWith(t, "search", Tail(Top(t).todo))
      PROVE  Consistent'
  <2>1. exc' \in [Threads -> Exceptions \union {"none"}]
    BY <1>4, Start DEF Throw
  <2> QED BY <1>1, <1>2, <1>4, <2>1, SearchGoes
<1> QED BY <1>3, <1>4 DEF FindSearched

\* CreateArrayClass or loadClass has returned.
LEMMA FindLoadedStep ==
    ASSUME Consistent, NEW t \in Threads, FindLoaded(t)
    PROVE  Consistent'
<1>1. UNCHANGED <<heap, table, dexCaches, exc, calls, found>>
  BY DEF FindLoaded
<1> PICK pc0 \in {"array", "loaded"} : At(t, "Find", pc0)
  BY DEF FindLoaded
<1>2. CASE Goto(t, "insert")
  BY <1>1, <1>2, FindInserts
<1>3. CASE Goto(t, "raised")
  <2> PICK f \in Frames : f = Top(t)
    BY FindFacts
  <2>1. stack[t] /= <<>> /\ f.fn = "Find" /\ exc' \in [Threads -> Exceptions \union {"none"}]
    BY <1>1, FindFacts, Start
  <2> PICK pc \in {"search", "java", "raised"} : pc = "raised"
    OBVIOUS
  <2> PICK todo : todo = f.todo
    OBVIOUS
  <2>2. [f EXCEPT !.pc = pc] = [f EXCEPT !.pc = pc, !.todo = todo]
    BY DEF Frames
  <2>3. Put(t, [f EXCEPT !.pc = pc, !.todo = todo])
    BY <1>3, <2>2 DEF Goto
  <2> QED BY <1>1, <2>1, <2>3, FindMoves
<1> QED BY <1>2, <1>3 DEF FindLoaded

\* Java is asked.
LEMMA FindJavaStep ==
    ASSUME Consistent, NEW t \in Threads, FindJava(t)
    PROVE  Consistent'
<1>1. At(t, "Find", "java") /\ UNCHANGED <<heap, table, dexCaches, calls, found>>
  BY DEF FindJava
<1> PICK f \in Frames : f = Top(t)
  BY <1>1, FindFacts
<1>2. /\ stack[t] /= <<>> /\ f.fn = "Find" /\ f.l \in Loaders /\ Parent[f.l] \in Loaders
      /\ f.d \notin Arrays /\ f.l /= "boot"
  BY <1>1, FindFacts, DefineAssumption DEF FindOK
<1>3. /\ UNCHANGED exc => exc' \in [Threads -> Exceptions \union {"none"}]
      /\ Throw(t, "ClassNotFoundException") \/ Throw(t, "NullPointerException") =>
             exc' \in [Threads -> Exceptions \union {"none"}]
  BY Start DEF Throw, Exceptions
<1> PICK pc1 \in {"done", "searched", "array", "loaded"} : pc1 = "loaded"
  OBVIOUS
<1>4. CASE Call(t, "loaded", FindFrame(f.d, Parent[f.l])) /\ UNCHANGED exc
  <2> PICK l \in Loaders : l = Parent[f.l]
    BY <1>2
  <2> PICK g : g = FindFrame(f.d, l)
    OBVIOUS
  <2>1. Call(t, pc1, g) /\ g = FindFrame(f.d, l) /\ g.fn = "Find"
    BY <1>4 DEF FindFrame, Frame
  <2> QED BY <1>1, <1>2, <1>3, <1>4, <2>1, FindAsks
<1>5. CASE Call(t, "loaded", DefineFrame(f.d, f.l)) /\ UNCHANGED exc
  <2> PICK g : g = DefineFrame(f.d, f.l)
    OBVIOUS
  <2>1. Call(t, pc1, g) /\ g = DefineFrame(f.d, f.l) /\ g.fn = "Define"
    BY <1>5 DEF DefineFrame, Frame
  <2> QED BY <1>1, <1>2, <1>3, <1>5, <2>1, FindAsks
<1>6. CASE Throw(t, "ClassNotFoundException") /\ Goto(t, "raised")
  <2> PICK pc \in {"search", "java", "raised"} : pc = "raised"
    OBVIOUS
  <2> PICK todo : todo = f.todo
    OBVIOUS
  <2>1. [f EXCEPT !.pc = pc] = [f EXCEPT !.pc = pc, !.todo = todo]
    BY DEF Frames
  <2>2. Put(t, [f EXCEPT !.pc = pc, !.todo = todo])
    BY <1>6, <2>1 DEF Goto
  <2> QED BY <1>1, <1>2, <1>3, <1>6, <2>2, FindMoves
<1>7. CASE /\ stack' = [stack EXCEPT ![t] = <<[Top(t) EXCEPT !.pc = "done"]>> \o Tail(@)]
           /\ ret' = [ret EXCEPT ![t] = 0] /\ Throw(t, "NullPointerException")
  BY <1>1, <1>2, <1>3, <1>7, FindEnds
<1> QED BY <1>4, <1>5, <1>6, <1>7 DEF FindJava

\* An exception is passed up, unless another thread has succeeded.
LEMMA FindRaisedStep ==
    ASSUME Consistent, NEW t \in Threads, FindRaised(t)
    PROVE  Consistent'
<1>1. At(t, "Find", "raised") /\ UNCHANGED <<heap, table, dexCaches, calls, found>>
  BY DEF FindRaised
<1> PICK f \in Frames : f = Top(t)
  BY <1>1, FindFacts
<1>2. /\ stack[t] /= <<>> /\ f.fn = "Find"
      /\ UNCHANGED exc \/ Throw(t, "none") => exc' \in [Threads -> Exceptions \union {"none"}]
  BY <1>1, FindFacts, Start DEF Throw
<1> PICK c : c = table[<<f.d, f.l>>]
  OBVIOUS
<1>3. CASE c /= 0 /\ Throw(t, "none") /\ Call(t, "done", EnsureFrame(c))
  BY <1>1, <1>2, <1>3, FindEnsures
<1>4. CASE /\ stack' = [stack EXCEPT ![t] = <<[Top(t) EXCEPT !.pc = "done"]>> \o Tail(@)]
           /\ ret' = [ret EXCEPT ![t] = 0] /\ UNCHANGED exc
  BY <1>1, <1>2, <1>4, FindEnds
<1> QED BY <1>3, <1>4 DEF FindRaised, LookupClass

\* The class found becomes the entry of the initiating loader.
LEMMA FindInsertEntry ==
    ASSUME Consistent, NEW t \in Threads, At(t, "Find", "insert"), NEW f \in Frames, f = Top(t),
           table[<<f.d, f.l>>] \in {0, ret[t]}, ret[t] /= 0,
           table' = [table EXCEPT ![<<f.d, f.l>>] = ret[t]], Goto(t, "done"),
           UNCHANGED <<heap, dexCaches, exc, calls, found>>
    PROVE  Consistent'
<1> PICK k \in Keys : k = <<f.d, f.l>>
  BY FindFacts
<1> PICK c : c = ret[t]
  OBVIOUS
<1>1. /\ stack[t] /= <<>> /\ f.fn = "Find" /\ f.pc = "insert" /\ AnswerOK(t, f, c)
      /\ ~At(t, "Define", "retire")
  BY FindFacts
<1>2. c /= 0 /\ c \in DOMAIN heap /\ IsResolved(c) /\ heap[c].d = k[1] /\ c \in 0..Len(heap)
  BY <1>1, Start DEF AnswerOK
<1>3. table[k] \in {0, c} /\ table' = [table EXCEPT ![k] = c] /\ table'[k] = c
  BY Start DEF Shape
<1>4. \A u \in Threads : u /= t => stack'[u] = stack[u]
  BY DEF Goto, Put, Consistent, Shape
<1>5. Grows /\ Minds(t) /\ ObjectsOK' /\ EntriesOK' /\ FoundOK'
  BY <1>1, <1>2, <1>3, <1>4, EntryGrows
<1>6. ASSUME NEW i \in 2..Len(stack[t]) PROVE Spares(t, stack[t][i])
  <2>1. PICK h \in Frames : h = stack[t][i]
    BY <1>1, BelowFacts
  <2>2. /\ FrameOK(t, h) /\ (Owns(h) => Working(h))
        /\ h.fn /= "Ensure" /\ h.pc \notin {"retire", "resolve"}
    BY <1>1, <2>1, BelowFacts
  <2>3. Owns(h) => table'[<<h.d, h.l>>] = table[<<h.d, h.l>>]
    <3> HAVE Owns(h)
    <3>1. <<h.d, h.l>> \in Keys
      BY DEF Frames, Keys
    <3>2. MadeFor(h.obj, t, h) /\ table[<<h.d, h.l>>] = h.obj
      BY <2>2 DEF FrameOK, DefineOK, Working
    <3>3. h.obj /= 0
      BY <3>2, Start DEF MadeFor
    <3> QED BY <1>3, <3>1, <3>2, <3>3, Start DEF Shape
  <2>4. Spares(t, h)
    BY <2>2, <2>3 DEF Spares
  <2> QED BY <2>1, <2>4
<1> PICK g : g = [f EXCEPT !.pc = "done"]
  OBVIOUS
<1>7. g \in Frames /\ g.fn = "Find" /\ g.d = f.d /\ g.l = f.l /\ g.obj = f.obj /\ g.pc = "done"
  BY <1>1 DEF Frames, Places, FindPlaces
<1>8. FrameOK(t, g)' /\ AnswerOK(t, g, c)'
  <2>1. Current(c, k)'
    BY <1>2, <1>3 DEF Current, IsResolved
  <2> QED BY <1>2, <1>7, <2>1
          DEF FrameOK, FindOK, DefineOK, ArrayOK, EnsureOK, FindPlaces, AnswerOK
<1> PICK r \in 0..Len(heap') : r = c
  BY <1>2
<1>9. /\ stack' = [stack EXCEPT ![t] = <<g>> \o Tail(@)] /\ ret' = [ret EXCEPT ![t] = r]
      /\ exc' \in [Threads -> Exceptions \union {"none"}] /\ calls' \in [Threads -> 0..MaxCalls]
      /\ AnswerOK(t, g, r)'
  BY <1>8, Start DEF Goto, Put, Shape
<1>10. /\ \A h \in Frames : Owns(g) /\ Owns(h) /\ h.obj = g.obj =>
              \A i \in 2..Len(stack[t]) : stack[t][i] /= h
       /\ g.fn = f.fn /\ f.fn /= "Ensure" /\ \A i \in 2..Len(stack[t]) : Spares(t, stack[t][i])
  BY <1>1, <1>6, <1>7 DEF Owns
<1> QED
  BY ONLY Consistent, t \in Threads, f = Top(t), r \in 0..Len(heap'), <1>1, <1>5, <1>7, <1>8, <1>9, <1>10,
          GoesOn

\* The class enters the table of the initiating loader, unless that has one.
LEMMA FindInsertStep ==
    ASSUME Consistent, NEW t \in Threads, FindInsert(t)
    PROVE  Consistent'
<1>1. At(t, "Find", "insert") /\ UNCHANGED <<heap, dexCaches, exc, calls, found>>
  BY DEF FindInsert
<1> PICK f \in Frames : f = Top(t)
  BY <1>1, FindFacts
<1>2. /\ stack[t] /= <<>> /\ f.fn = "Find" /\ exc' \in [Threads -> Exceptions \union {"none"}]
      /\ <<f.d, f.l>> \in Keys
  BY <1>1, FindFacts, Start
<1>3. CASE /\ table[<<f.d, f.l>>] \in {0, ret[t]} /\ ret[t] /= 0
           /\ table' = [table EXCEPT ![<<f.d, f.l>>] = ret[t]] /\ Goto(t, "done")
  BY <1>1, <1>3, FindInsertEntry
<1>4. CASE /\ table[<<f.d, f.l>>] \in {0, ret[t]} /\ ret[t] = 0
           /\ table' = [table EXCEPT ![<<f.d, f.l>>] = ret[t]] /\ Goto(t, "done")
  <2>1. table' = table /\ ret = [ret EXCEPT ![t] = 0]
    BY <1>2, <1>4, Start DEF Shape
  <2>2. /\ stack' = [stack EXCEPT ![t] = <<[Top(t) EXCEPT !.pc = "done"]>> \o Tail(@)]
        /\ ret' = [ret EXCEPT ![t] = 0]
    BY <1>4, <2>1 DEF Goto, Put
  <2> QED BY <1>1, <1>2, <2>1, <2>2, FindEnds
<1>5. CASE /\ table[<<f.d, f.l>>] \notin {0, ret[t]}
           /\ Call(t, "done", EnsureFrame(table[<<f.d, f.l>>])) /\ UNCHANGED table
  BY <1>1, <1>2, <1>5, FindEnsures
<1> QED BY <1>3, <1>4, <1>5 DEF FindInsert

\* FindClass returns.
LEMMA FindDoneStep ==
    ASSUME Consistent, NEW t \in Threads, FindDone(t)
    PROVE  Consistent'
<1>1. At(t, "Find", "done") /\ UNCHANGED <<heap, table, dexCaches, exc, calls>>
  BY DEF FindDone
<1> PICK f \in Frames : f = Top(t)
  BY <1>1, FindFacts
<1> PICK k \in Keys : k = <<f.d, f.l>>
  BY <1>1, FindFacts
<1>2. /\ stack[t] /= <<>> /\ f.fn = "Find" /\ f.pc = "done" /\ ~At(t, "Define", "retire")
      /\ exc' \in [Threads -> Exceptions \union {"none"}] /\ found \in [Keys -> SUBSET Nat]
      /\ AnswerOK(t, f, ret[t])
  BY <1>1, FindFacts, Start
<1> PICK c \in 0..Len(heap) : c = ret[t]
  BY Start
<1>3. c /= 0 => Current(c, k) /\ Current(c, k)'
  BY <1>1, <1>2 DEF AnswerOK, Current, IsResolved
<1>4. found' = IF c = 0 THEN found ELSE [found EXCEPT ![k] = found[k] \union {c}]
  BY DEF FindDone
<1>5. /\ found' \in [Keys -> SUBSET Nat] /\ \A j \in Keys : found[j] \subseteq found'[j]
      /\ c /= 0 => c \in found'[k]
      /\ \A j \in Keys : \A b \in found'[j] : b \in found[j] \/ (j = k /\ b = c /\ c /= 0)
  <2>1. c \in Nat
    BY Start
  <2> QED BY <1>2, <1>4, <2>1
<1>6. FoundOK'
  <2>1. ASSUME NEW j \in Keys, NEW b \in found'[j] PROVE Current(b, j)'
    <3>1. CASE b \in found[j]
      BY <1>1, <3>1 DEF Consistent, FoundOK, Current, IsResolved
    <3>2. CASE j = k /\ b = c /\ c /= 0
      BY <1>3, <3>2
    <3> QED BY <1>5, <2>1, <3>1, <3>2
  <2> QED BY <2>1 DEF FoundOK
<1>7. Right(f, c)'
  BY <1>2, <1>3, <1>5 DEF Right
<1>8. stack' = [stack EXCEPT ![t] = Tail(@)] /\ ret' = [ret EXCEPT ![t] = c]
  BY DEF FindDone, Return
<1> QED BY <1>1, <1>2, <1>5, <1>6, <1>7, <1>8, QuietReturn

----------------------------------------------------------------------------
\* The steps of CreateArrayClass.

\* What is known when thread t is in CreateArrayClass.
LEMMA ArrayFacts ==
    ASSUME Consistent, NEW t \in Threads, NEW pc, At(t, "Array", pc)
    PROVE  /\ stack[t] /= <<>> /\ Top(t) \in Frames /\ Top(t).fn = "Array" /\ Top(t).pc = pc
           /\ Top(t).d \in Arrays /\ Top(t).l \in Loaders /\ Component[Top(t).d] \in Descriptors
           /\ ~At(t, "Define", "retire") /\ FrameOK(t, Top(t))
<1>1. stack[t] /= <<>> /\ Top(t).fn = "Array" /\ Top(t).pc = pc /\ ~At(t, "Define", "retire")
  BY DEF At
<1>2. Top(t) \in Frames /\ FrameOK(t, Top(t))
  BY <1>1, TopFacts
<1>3. Top(t).d \in Arrays /\ Top(t).l \in Loaders
  BY <1>1, <1>2 DEF FrameOK, ArrayOK, Frames
<1> QED BY <1>1, <1>2, <1>3, DefineAssumption

\* CreateArrayClass looks for the component type.
LEMMA ArrayComponentStep ==
    ASSUME Consistent, NEW t \in Threads, ArrayComponent(t)
    PROVE  Consistent'
<1>1. At(t, "Array", "component") /\ UNCHANGED <<heap, table, dexCaches, exc, calls, found>>
  BY DEF ArrayComponent
<1> PICK f \in Frames : f = Top(t)
  BY <1>1, ArrayFacts
<1>2. /\ stack[t] /= <<>> /\ f.fn = "Array" /\ f.d \in Arrays /\ f.l \in Loaders /\ f.pc = "component"
      /\ Component[f.d] \in Descriptors /\ exc' \in [Threads -> Exceptions \union {"none"}]
  BY <1>1, ArrayFacts, Start
<1> PICK d : d = Component[f.d]
  OBVIOUS
<1> PICK g : g = FindFrame(d, f.l)
  OBVIOUS
<1>3. g \in Frames /\ FrameOK(t, g) /\ g.fn = "Find" /\ g.d = d /\ g.l = f.l /\ g.pc = "lookup"
  <2>1. g \in Frames /\ FrameOK(t, g)
    BY <1>2, NewFrames
  <2> QED BY <2>1 DEF FindFrame, Frame
<1> PICK h : h = [f EXCEPT !.pc = "create"]
  OBVIOUS
<1>4. h \in Frames /\ h.fn = f.fn /\ h.d = f.d /\ h.l = f.l /\ h.obj = f.obj /\ h.pc = "create"
  BY <1>2 DEF Frames, Places
<1>5. FrameOK(t, h) /\ Waits(h) /\ CallOK(g, h) /\ ~Owns(h) /\ f.pc /= "retire"
  BY <1>2, <1>3, <1>4
     DEF FrameOK, FindOK, DefineOK, ArrayOK, EnsureOK, Waits, CallOK, Answers, Owns
<1>6. stack' = [stack EXCEPT ![t] = <<g, h>> \o Tail(@)] /\ UNCHANGED ret
  BY DEF ArrayComponent, Call
<1> QED BY <1>1, <1>2, <1>3, <1>4, <1>5, <1>6, QuietCall

\* The array class is in the table already, or there is no component.
LEMMA ArrayReturns ==
    ASSUME Consistent, NEW t \in Threads, At(t, "Array", "create"),
           UNCHANGED <<heap, table, dexCaches, calls, found>>,
           exc' \in [Threads -> Exceptions \union {"none"}], NEW f, f = Top(t),
           NEW k \in Keys, k[1] = f.d, NEW c, c = 0 \/ c = table[k], Return(t, c)
    PROVE  Consistent'
<1>1. stack[t] /= <<>> /\ f.fn = "Array" /\ f.d \in Arrays /\ ~At(t, "Define", "retire")
  BY ArrayFacts
<1>2. /\ c \in 0..Len(heap) /\ found' \in [Keys -> SUBSET Nat]
      /\ \A j \in Keys : found[j] \subseteq found'[j]
  BY Start DEF Shape
<1>3. c /= 0 => c \in DOMAIN heap /\ IsResolved(c) /\ heap[c].d = f.d
  <2> HAVE c /= 0
  <2>1. EntryOK(k) /\ c = table[k] /\ c \in DOMAIN heap
    BY <1>2, Start DEF Consistent, EntriesOK
  <2>2. ObjectOK(c)
    BY <2>1 DEF Consistent, ObjectsOK
  <2> QED BY <1>1, <2>1, <2>2 DEF EntryOK, ObjectOK
<1>4. Right(f, c)' /\ FoundOK'
  BY <1>1, <1>3 DEF Right, Consistent, FoundOK, Current, IsResolved
<1>5. stack' = [stack EXCEPT ![t] = Tail(@)] /\ ret' = [ret EXCEPT ![t] = c]
  BY DEF Return
<1> QED BY <1>1, <1>2, <1>4, <1>5, QuietReturn

\* A new array class, resolved at once.
LEMMA ArrayMakes ==
    ASSUME Consistent, NEW t \in Threads, At(t, "Array", "create"),
           UNCHANGED <<dexCaches, calls, found>>,
           exc' \in [Threads -> Exceptions \union {"none"}], NEW f, f = Top(t), NEW l \in Loaders,
           table[<<f.d, l>>] = 0, InsertClass(NewClass(f.d, l, "kResolved", NoThread, 0)),
           Return(t, Len(heap) + 1)
    PROVE  Consistent'
<1>1. stack[t] /= <<>> /\ f.fn = "Array" /\ f.d \in Arrays /\ ~At(t, "Define", "retire") /\ f \in Frames
  BY ArrayFacts
<1> PICK k : k = <<f.d, l>>
  OBVIOUS
<1> PICK new \in Nat : new = Len(heap) + 1
  BY Start
<1> PICK n : n = NewClass(f.d, l, "kResolved", NoThread, 0)
  OBVIOUS
<1>2. /\ k \in Keys /\ n \in Classes /\ n.d = f.d /\ n.l = l /\ n.st = "kResolved"
      /\ heap' = Append(heap, n) /\ table' = [table EXCEPT ![k] = new]
  BY <1>1 DEF NewClass, Classes, Frames, Statuses, InsertClass, Keys
<1>3. \A u \in Threads : u /= t => stack'[u] = stack[u]
  BY DEF Return, Consistent, Shape
<1>4. Grows /\ Minds(t) /\ ObjectsOK' /\ EntriesOK' /\ FoundOK'
  BY <1>1, <1>2, <1>3, InsertGrows
<1>5. /\ heap \in Seq(Classes) /\ heap'[new] = n /\ new \in DOMAIN heap' /\ new \in 0..Len(heap')
      /\ \A j \in Keys : j /= k => table'[j] = table[j]
  BY <1>1, <1>2, Start DEF Shape
<1>6. \A i \in 2..Len(stack[t]) : Spares(t, stack[t][i])
  BY <1>1, <1>2, <1>5, BelowAppend
<1>7. Right(f, new)'
  BY <1>1, <1>2, <1>5 DEF Right, IsResolved
<1>8. /\ calls' \in [Threads -> 0..MaxCalls]
      /\ stack' = [stack EXCEPT ![t] = Tail(@)] /\ ret' = [ret EXCEPT ![t] = new]
  BY Start DEF Return, Shape
<1> QED BY <1>1, <1>4, <1>5, <1>6, <1>7, <1>8, Returns

\* CreateArrayClass makes the array class, or finds it in the table.
LEMMA ArrayCreateStep ==
    ASSUME Consistent, NEW t \in Threads, ArrayCreate(t)
    PROVE  Consistent'
<1>1. At(t, "Array", "create") /\ UNCHANGED <<dexCaches, calls, found>>
  BY DEF ArrayCreate
<1> PICK f \in Frames : f = Top(t)
  BY <1>1, ArrayFacts
<1>2. /\ stack[t] /= <<>> /\ f.d \in Arrays /\ f.l \in Loaders /\ Component[f.d] \in Descriptors
      /\ f.d \in Descriptors /\ ~At(t, "Define", "retire")
      /\ UNCHANGED exc \/ Throw(t, "none") => exc' \in [Threads -> Exceptions \union {"none"}]
  BY <1>1, ArrayFacts, Start DEF Frames, Throw
<1> PICK comp : comp = IF ret[t] /= 0 THEN ret[t] ELSE LookupClass(Component[f.d], f.l)
  OBVIOUS
<1>3. comp /= 0 => comp \in DOMAIN heap /\ heap[comp].l \in Loaders
  <2>1. comp \in 0..Len(heap)
    <3>1. <<Component[f.d], f.l>> \in Keys
      BY <1>2 DEF Keys
    <3> QED BY <3>1, Start DEF LookupClass, Shape
  <2> HAVE comp /= 0
  <2>2. comp \in DOMAIN heap
    BY <2>1, Start
  <2>3. heap[comp] \in Classes
    BY <2>2, Start DEF Shape
  <2> QED BY <2>2, <2>3 DEF Classes
<1>4. CASE comp = 0 /\ Return(t, 0) /\ UNCHANGED <<heap, table, exc>>
  BY <1>1, <1>2, <1>4, NothingReturned
<1>5. CASE comp /= 0
  <2> PICK l \in Loaders : l = heap[comp].l
    BY <1>3, <1>5
  <2> PICK k \in Keys : k = <<f.d, l>>
    BY <1>2 DEF Keys
  <2>1. CASE Return(t, table[k]) /\ Throw(t, "none") /\ UNCHANGED <<heap, table>>
    <3> PICK c : c = table[k]
      OBVIOUS
    <3>1. k[1] = f.d /\ Return(t, c)
      BY <2>1
    <3> QED BY <1>1, <1>2, <2>1, <3>1, ArrayReturns
  <2>2. CASE /\ table[k] = 0 /\ InsertClass(NewClass(f.d, l, "kResolved", NoThread, 0))
             /\ Return(t, Len(heap) + 1) /\ Throw(t, "none")
    BY <1>1, <1>2, <2>2, ArrayMakes
  <2> QED BY <1>5, <2>1, <2>2 DEF ArrayCreate, LookupClass
<1> QED BY <1>4, <1>5 DEF ArrayCreate

----------------------------------------------------------------------------
\* The invariant.

\* A thread calls FindClass.
LEMMA FindClassStep ==
    ASSUME Consistent, NEW t \in Threads, NEW r \in Roots[t], FindClass(t, r[1], r[2])
    PROVE  Consistent'
<1>1. r[1] \in Descriptors /\ r[2] \in Loaders
  BY DefineAssumption DEF Keys
<1> PICK g : g = FindFrame(r[1], r[2])
  OBVIOUS
<1>2. g \in Frames /\ FrameOK(t, g) /\ g.fn = "Find" /\ g.pc = "lookup"
  <2>1. g \in Frames /\ FrameOK(t, g)
    BY <1>1, NewFrames
  <2> QED BY <2>1 DEF FindFrame, Frame
<1>3. /\ stack[t] = <<>> /\ UNCHANGED <<heap, table, dexCaches, ret, found>>
      /\ stack' = [stack EXCEPT ![t] = <<g>>] /\ calls' = [calls EXCEPT ![t] = @ + 1]
      /\ calls[t] < MaxCalls /\ exc' \in [Threads -> Exceptions \union {"none"}]
  BY Start DEF FindClass, Throw
<1>4. calls' \in [Threads -> 0..MaxCalls]
  BY <1>3, DefineAssumption DEF Consistent, Shape
<1>5. Quiet(t) /\ Shape
  BY <1>3, Start DEF Quiet, CachesGrow, Shape, At
<1>6. Grows /\ Minds(t) /\ ObjectsOK' /\ EntriesOK' /\ FoundOK' /\ FrameOK(t, g)'
  <2>1. Grows /\ Minds(t) /\ ObjectsOK' /\ EntriesOK' /\ Spares(t, g)
    BY <1>2, <1>5, QuietGrows
  <2> QED BY <1>2, <1>3, <1>5, <2>1, FrameKept, FoundKept
<1> PICK s : s = <<g>>
  OBVIOUS
<1>7. s \in Seq(Frames) /\ Len(s) = 1 /\ s[1] = g /\ Head(s) = g /\ s /= <<>>
  BY <1>2
<1>8. LineOK(t, s)'
  <2>1. (\A i \in 1..Len(s) : FrameOK(t, s[i]))'
    BY <1>6, <1>7
  <2>2. (\A i \in 2..Len(s) : Waits(s[i]) /\ CallOK(s[i - 1], s[i]))'
    BY <1>7
  <2> QED BY <1>2, <1>7, <2>1, <2>2 DEF LineOK, Owns
<1> PICK c \in 0..Len(heap) : c = ret[t]
  BY Start
<1>9. /\ c \in 0..Len(heap') /\ ret' = [ret EXCEPT ![t] = c] /\ stack' = [stack EXCEPT ![t] = s]
      /\ AnswerOK(t, Head(s), c)'
  BY <1>2, <1>3, <1>7, Start DEF AnswerOK
<1> QED BY <1>3, <1>4, <1>6, <1>7, <1>8, <1>9, Assemble

\* Nothing happens.
LEMMA StutterKept ==
    ASSUME Consistent, UNCHANGED vars
    PROVE  Consistent'
<1>1. \A c \in Nat, k \in Keys : Current(c, k)' <=> Current(c, k)
  BY DEF vars, Current, IsResolved
<1>2. Shape' /\ ObjectsOK' /\ EntriesOK' /\ FoundOK'
  BY DEF vars, Consistent, Shape, ObjectsOK, EntriesOK, FoundOK, ObjectOK, EntryOK, Current, IsResolved,
         IsRetired, Home, Registered, BeingReplaced, At, Top
<1>3. ASSUME NEW t \in Threads PROVE StackOK(t)'
  <2>1. Grows /\ \A f \in Frames : Spares(t, f)
    BY DEF vars, Consistent, Shape, Grows, Spares, IsResolved
  <2> PICK s \in Seq(Frames) : s = stack[t]
    BY Start DEF Shape
  <2>2. LineOK(t, s) /\ (s /= <<>> => AnswerOK(t, Head(s), ret[t])) /\ ret[t] \in 0..Len(heap)
    BY Start DEF Consistent, StackOK, Top
  <2>3. /\ \A i \in 1..Len(s) : s[i] \in Frames /\ FrameOK(t, s[i]) /\ FrameOK(t, s[i])'
        /\ \A i \in 2..Len(s) : Waits(s[i]) /\ CallOK(s[i - 1], s[i])'
    <3>1. ASSUME NEW i \in 1..Len(s) PROVE s[i] \in Frames /\ FrameOK(t, s[i]) /\ FrameOK(t, s[i])'
      <4>1. s[i] \in Frames /\ FrameOK(t, s[i])
        BY <2>2 DEF LineOK
      <4> QED BY <2>1, <4>1, FrameKept DEF Consistent
    <3>2. ASSUME NEW i \in 2..Len(s) PROVE Waits(s[i]) /\ CallOK(s[i - 1], s[i])'
      <4>1. i \in 1..Len(s) /\ i - 1 \in 1..Len(s) /\ Waits(s[i]) /\ CallOK(s[i - 1], s[i])
        BY <2>2 DEF LineOK
      <4> QED BY <2>1, <3>1, <4>1, CallKept DEF Consistent, FrameOK
    <3> QED BY <3>1, <3>2
  <2>4. LineOK(t, s)'
    <3>1. (\A i \in 1..Len(s) : FrameOK(t, s[i]))'
      BY <2>3
    <3>2. (\A i \in 2..Len(s) : Waits(s[i]) /\ CallOK(s[i - 1], s[i]))'
      BY <2>3
    <3> QED BY <2>2, <3>1, <3>2 DEF LineOK
  <2>5. s /= <<>> => AnswerOK(t, Head(s), ret[t])'
    <3> HAVE s /= <<>>
    <3> PICK f : f = Head(s)
      OBVIOUS
    <3> PICK c \in 0..Len(heap) : c = ret[t]
      BY <2>2
    <3>1. f \in Frames /\ FrameOK(t, f) /\ AnswerOK(t, f, c)
      BY <2>2, <2>3
    <3>2. AnswerOK(t, f, c)'
      BY <2>1, <3>1, AnswerKept DEF Consistent
    <3> QED BY <3>2 DEF vars
  <2>6. stack'[t] = s /\ ret' = ret
    BY DEF vars
  <2> QED BY <2>4, <2>5, <2>6 DEF StackOK, Top
<1> QED BY <1>2, <1>3 DEF Consistent

\* Every step keeps the invariant.
LEMMA StepKept ==
    ASSUME Consistent, NEW t \in Threads, Step(t)
    PROVE  Consistent'
  BY EnsureTempStep, EnsurePollStep, FindLookupStep, FindDelegatesStep, FindSearchStep,
     FindSearchedStep, FindJavaStep, FindLoadedStep, FindRaisedStep, FindInsertStep, FindDoneStep,
     DefineStartStep, DefineRegisterStep, DefineInsertStep, DefineLoadStep, DefineParentsStep,
     DefineParentStep, DefineLinkStep, DefineRetireStep, DefineResolveStep, ArrayComponentStep,
     ArrayCreateStep DEF Step

\* The invariant holds in the beginning.
LEMMA InitConsistent == Init => Consistent
<1> SUFFICES ASSUME Init PROVE Consistent
  OBVIOUS
<1>1. heap = <<>> /\ heap \in Seq(Classes) /\ Len(heap) = 0 /\ DOMAIN heap = {}
  BY DEF Init
<1>2. dexCaches \in [Range(DexFile) -> [cache : Nat, loader : Loaders \union {"none"}]]
  BY DefineAssumption DEF Init, BootCaches, None
<1>3. Shape
  <2>1. /\ table \in [Keys -> 0..Len(heap)] /\ ret \in [Threads -> 0..Len(heap)]
        /\ calls \in [Threads -> 0..MaxCalls]
    BY <1>1, DefineAssumption DEF Init
  <2>2. stack \in [Threads -> Seq(Frames)]
    BY DEF Init
  <2>3. exc \in [Threads -> Exceptions \union {"none"}] /\ found \in [Keys -> SUBSET Nat]
    BY DEF Init
  <2> QED BY <1>1, <1>2, <2>1, <2>2, <2>3 DEF Shape
<1>4. ObjectsOK /\ EntriesOK /\ FoundOK
  BY <1>1 DEF Init, ObjectsOK, EntriesOK, EntryOK, FoundOK
<1>5. \A t \in Threads : StackOK(t)
  <2> TAKE t \in Threads
  <2>1. stack[t] = <<>>
    BY DEF Init
  <2>2. LineOK(t, <<>>)
    BY DEF LineOK
  <2> QED BY <2>1, <2>2 DEF StackOK
<1> QED BY <1>3, <1>4, <1>5 DEF Consistent

\* Objects, tables, frames and calls fit together in every state.
THEOREM ConsistentAlways == Spec => []Consistent
<1>1. Consistent /\ [Next]_vars => Consistent'
  <2> SUFFICES ASSUME Consistent, [Next]_vars PROVE Consistent'
    OBVIOUS
  <2>1. CASE UNCHANGED vars
    BY <2>1, StutterKept
  <2>2. ASSUME NEW t \in Threads, Step(t) PROVE Consistent'
    BY <2>2, StepKept
  <2>3. ASSUME NEW t \in Threads, NEW r \in Roots[t], FindClass(t, r[1], r[2]) PROVE Consistent'
    BY <2>3, FindClassStep
  <2> QED BY <2>1, <2>2, <2>3 DEF Next, Ended
<1> QED BY <1>1, InitConsistent, PTL DEF Spec

\* A class path file has one cache, which every class defined from it uses,
\* however threads raced through RegisterDexFile (class_linker.c).
THEOREM OneDexCacheAlways == Spec => []OneDexCache
<1>1. Consistent => OneDexCache
  BY DEF Consistent, ObjectsOK, ObjectOK, Registered, OneDexCache
<1> QED BY <1>1, ConsistentAlways, PTL

\* What FindClass has returned is resolved, and is what the table holds for its
\* key: all threads that look for a name through a loader get one class.
THEOREM FoundIsCurrentAlways == Spec => []FoundIsCurrent
<1>1. Consistent => FoundIsCurrent
  BY DEF Consistent, FoundOK, Current, FoundIsCurrent
<1> QED BY <1>1, ConsistentAlways, PTL

----------------------------------------------------------------------------
\* Tables.

\* What a step may do to the table.
EntriesStay == \A k \in Keys : table'[k] /= table[k] =>
                   \/ table[k] = 0
                   \/ IsTemp(table[k]) /\ heap[table[k]].d = heap'[table'[k]].d

\* An object is entered where there is no entry, or for a temporary one.
LEMMA InsertedStays ==
    ASSUME Consistent, NEW c \in Classes, InsertClass(c), NEW old, old = table[<<c.d, c.l>>],
           old = 0 \/ (IsTemp(old) /\ heap[old].d = c.d)
    PROVE  EntriesStay
<1> PICK k \in Keys : k = <<c.d, c.l>>
  BY DEF Classes, Keys
<1> PICK new \in Nat : new = Len(heap) + 1
  BY Start DEF Consistent, Shape
<1>1. /\ heap \in Seq(Classes) /\ heap' = Append(heap, c) /\ table' = [table EXCEPT ![k] = new]
      /\ table \in [Keys -> 0..Len(heap)]
  BY DEF Consistent, Shape, InsertClass
<1>2. heap'[new] = c /\ table'[k] = new /\ \A j \in Keys : j /= k => table'[j] = table[j]
  BY <1>1
<1> QED BY <1>2 DEF EntriesStay

\* Every step leaves the entries it may not change.
LEMMA StepStays ==
    ASSUME Consistent, NEW t \in Threads, Step(t)
    PROVE  EntriesStay
<1>1. CASE UNCHANGED table
  BY <1>1 DEF EntriesStay
<1>2. CASE FindInsert(t)
  <2>1. PICK k \in Keys : k = <<Top(t).d, Top(t).l>>
    BY <1>2, FindFacts DEF FindInsert
  <2>2. UNCHANGED table \/ (table[k] \in {0, ret[t]} /\ table' = [table EXCEPT ![k] = ret[t]])
    BY <1>2, <2>1 DEF FindInsert
  <2>3. \A j \in Keys : table'[j] /= table[j] => table[j] = 0
    BY <2>2 DEF Consistent, Shape
  <2> QED BY <2>3 DEF EntriesStay
<1>3. CASE DefineInsert(t)
  <2> PICK f : f = Top(t)
    OBVIOUS
  <2>1. f \in Frames
    BY <1>3, DefineFacts DEF DefineInsert
  <2> PICK n : n = NewClass(f.d, f.l, "kIdx", t, f.cache)
    OBVIOUS
  <2>2. n \in Classes /\ n.d = f.d /\ n.l = f.l
    BY <2>1 DEF NewClass, Classes, Frames, Statuses
  <2>3. UNCHANGED table \/ (table[<<f.d, f.l>>] = 0 /\ InsertClass(n))
    BY <1>3 DEF DefineInsert, LookupClass
  <2> QED BY <1>1, <2>2, <2>3, InsertedStays
<1>4. CASE DefineLink(t)
  <2> PICK f : f = Top(t)
    OBVIOUS
  <2>1. f \in Frames /\ f.fn = "Define" /\ f.pc = "link" /\ DefineOK(t, f)
    BY <1>4, DefineFacts DEF DefineLink
  <2> PICK n : n = NewClass(f.d, f.l, "kResolving", t, f.cache)
    OBVIOUS
  <2>2. n \in Classes /\ n.d = f.d /\ n.l = f.l
    BY <2>1 DEF NewClass, Classes, Frames, Statuses
  <2>3. table[<<f.d, f.l>>] = f.obj /\ heap[f.obj].d = f.d
    BY <2>1 DEF DefineOK, Working, Owns, MadeFor
  <2>4. UNCHANGED table \/ (IsTemp(f.obj) /\ InsertClass(n))
    BY <1>4 DEF DefineLink, DefineFails
  <2> QED BY <1>1, <2>2, <2>3, <2>4, InsertedStays
<1>5. CASE ArrayCreate(t)
  <2> PICK f : f = Top(t)
    OBVIOUS
  <2> PICK comp : comp = IF ret[t] /= 0 THEN ret[t] ELSE LookupClass(Component[f.d], f.l)
    OBVIOUS
  <2>1. /\ f \in Frames /\ f.d \in Descriptors /\ f.l \in Loaders /\ Component[f.d] \in Descriptors
    BY <1>5, ArrayFacts DEF ArrayCreate, Frames
  <2>2. comp /= 0 => heap[comp].l \in Loaders
    <3> HAVE comp /= 0
    <3>1. <<Component[f.d], f.l>> \in Keys
      BY <2>1 DEF Keys
    <3>2. comp \in 1..Len(heap)
      BY <3>1, Start DEF LookupClass, Shape
    <3>3. heap[comp] \in Classes
      BY <3>2, Start DEF Shape
    <3> QED BY <3>3 DEF Classes
  <2> PICK n : n = NewClass(f.d, heap[comp].l, "kResolved", NoThread, 0)
    OBVIOUS
  <2>3. n.d = f.d /\ n.l = heap[comp].l /\ (comp /= 0 => n \in Classes)
    BY <2>1, <2>2 DEF NewClass, Classes, Statuses
  <2>4. UNCHANGED table \/ (comp /= 0 /\ table[<<f.d, heap[comp].l>>] = 0 /\ InsertClass(n))
    BY <1>5 DEF ArrayCreate, LookupClass
  <2> QED BY <1>1, <2>3, <2>4, InsertedStays
<1> QED
  BY <1>1, <1>2, <1>3, <1>4, <1>5
     DEF Step, EnsureTemp, EnsurePoll, FindLookup, FindDelegates, FindSearch, FindSearched, FindJava,
         FindLoaded, FindRaised, FindDone, DefineStart, DefineRegister, DefineLoad, DefineParents,
         DefineParent, DefineFails, DefineRetire, DefineResolve, ArrayComponent

\* An entry of a class table is never removed, and changes only from a temporary
\* class to the copy that LinkClass (class_linker.c) makes of it.
THEOREM TableStableAlways == Spec => TableStable
<1>1. Consistent /\ [Next]_vars => [EntriesStay]_vars
  <2> SUFFICES ASSUME Consistent, [Next]_vars PROVE [EntriesStay]_vars
    OBVIOUS
  <2>1. CASE UNCHANGED vars
    BY <2>1
  <2>2. ASSUME NEW t \in Threads, Step(t) PROVE EntriesStay
    BY <2>2, StepStays
  <2>3. ASSUME NEW t \in Threads, NEW r \in Roots[t], FindClass(t, r[1], r[2]) PROVE EntriesStay
    BY <2>3 DEF FindClass, EntriesStay
  <2> QED BY <2>1, <2>2, <2>3 DEF Next, Ended
<1> QED BY <1>1, ConsistentAlways, PTL DEF Spec, TableStable, EntriesStay

----------------------------------------------------------------------------
\* Parents.

\* The classes a step resolves have had all their parents found, or are arrays.
ResolvesInOrder ==
    \A c \in DOMAIN heap' : IsResolved(c)' =>
        \/ c \in DOMAIN heap /\ IsResolved(c) /\ heap'[c].d = heap[c].d /\ heap'[c].l = heap[c].l
        \/ heap'[c].d \in Arrays
        \/ /\ heap'[c].d \in Descriptors /\ heap'[c].l \in Loaders
           /\ ParentsFound(heap'[c].d, heap'[c].l)
FoundGrows == \A k \in Keys : found[k] \subseteq found'[k]
\* The frames of thread t are as they were, or have made progress.
Advances(t) ==
    /\ \A u \in Threads : u /= t => stack'[u] = stack[u]
    /\ \A i \in 1..Len(stack'[t]) : \/ ProgressOK(stack[t][i])'
                                    \/ \E j \in 1..Len(stack[t]) : stack'[t][i] = stack[t][j]

\* The parents of a class are no arrays, and may be looked for.
LEMMA ParentsAreKeys ==
    ASSUME NEW d \in Descriptors, NEW l \in Loaders, NEW p \in Range(Parents[d])
    PROVE  p \in Descriptors \ Arrays /\ <<p, l>> \in Keys
<1>1. Parents[d] \in Seq(Descriptors \ Arrays)
  BY DefineAssumption
<1> QED BY <1>1 DEF Range, Keys

\* A class whose parents were found is under no circle: they would be, too.
LEMMA NoCircle ==
    ASSUME Consistent, \A c \in DOMAIN heap : ResolvedOK(c),
           NEW d \in Descriptors, NEW l \in Loaders, ParentsFound(d, l)
    PROVE  ~UnderCircle(d)
<1> SUFFICES ASSUME NEW S \in SUBSET Descriptors, d \in S,
                    \A e \in S : Range(Parents[e]) \intersect S /= {}
             PROVE  FALSE
  BY DEF UnderCircle
<1>1. PICK p \in Range(Parents[d]) : p \in S
  OBVIOUS
<1>2. p \notin Arrays /\ <<p, l>> \in Keys
  BY ParentsAreKeys
<1>3. PICK c : c \in found[<<p, l>>]
  BY DEF ParentsFound
<1>4. c \in DOMAIN heap /\ IsResolved(c) /\ table[<<p, l>>] = c
  BY <1>2, <1>3 DEF Consistent, FoundOK, Current
<1>5. heap[c].d = p
  <2>1. c /= 0
    BY <1>4, Start DEF Consistent, Shape
  <2> QED BY <1>2, <1>4, <2>1 DEF Consistent, EntriesOK, EntryOK
<1>6. ~UnderCircle(p)
  BY <1>2, <1>4, <1>5 DEF ResolvedOK
<1> QED BY <1>1, <1>6 DEF UnderCircle

\* The progress of a DefineClass is not lost while more is found.
LEMMA ProgressKept ==
    ASSUME NEW f \in Frames, ProgressOK(f), FoundGrows
    PROVE  ProgressOK(f)'
<1>1. f.d \in Descriptors /\ f.l \in Loaders
  BY DEF Frames
<1>2. \A p \in Range(Parents[f.d]) : found[<<p, f.l>>] /= {} => found'[<<p, f.l>>] /= {}
  BY <1>1, ParentsAreKeys DEF FoundGrows
<1> QED BY <1>2 DEF ProgressOK, ParentsFound

\* A step that resolves in order, forgets nothing and advances keeps Ordered.
LEMMA OrderedKept ==
    ASSUME Consistent, Ordered, NEW t \in Threads, ResolvesInOrder, FoundGrows, Advances(t)
    PROVE  Ordered'
<1>1. ASSUME NEW c \in DOMAIN heap', IsResolved(c)', heap'[c].d \notin Arrays
      PROVE  ~UnderCircle(heap'[c].d) /\ ParentsFound(heap[c].d, heap[c].l)'
  <2>1. PICK d \in Descriptors, l \in Loaders :
            d = heap'[c].d /\ l = heap'[c].l /\ ~UnderCircle(d) /\ ParentsFound(d, l)
    <3>1. CASE c \in DOMAIN heap /\ IsResolved(c) /\ heap'[c].d = heap[c].d /\ heap'[c].l = heap[c].l
      <4>1. heap[c] \in Classes
        BY <3>1 DEF Consistent, Shape
      <4>2. heap[c].d \in Descriptors /\ heap[c].l \in Loaders
        BY <4>1 DEF Classes
      <4> QED BY <1>1, <3>1, <4>2 DEF Ordered, ResolvedOK
    <3>2. CASE /\ heap'[c].d \in Descriptors /\ heap'[c].l \in Loaders
               /\ ParentsFound(heap'[c].d, heap'[c].l)
      BY <3>2, NoCircle DEF Ordered
    <3> QED BY <1>1, <3>1, <3>2 DEF ResolvesInOrder
  <2>2. \A p \in Range(Parents[d]) : found'[<<p, l>>] /= {}
    BY <2>1, ParentsAreKeys DEF FoundGrows, ParentsFound
  <2> QED BY <2>1, <2>2 DEF ParentsFound
<1>2. ASSUME NEW u \in Threads, NEW i \in 1..Len(stack'[u]) PROVE ProgressOK(stack[u][i])'
  <2>1. ASSUME NEW j \in 1..Len(stack[u]), stack'[u][i] = stack[u][j] PROVE ProgressOK(stack[u][i])'
    <3>1. PICK f \in Frames : f = stack[u][j]
      BY Start DEF Shape
    <3>2. ProgressOK(f)'
      BY <3>1, ProgressKept DEF Ordered
    <3> QED BY <2>1, <3>1, <3>2
  <2>2. CASE u = t
    BY <1>2, <2>1, <2>2 DEF Advances
  <2>3. CASE u /= t
    BY <1>2, <2>1, <2>3 DEF Advances
  <2> QED BY <2>2, <2>3
<1>3. (\A c \in DOMAIN heap : ResolvedOK(c))'
  BY <1>1 DEF ResolvedOK
<1>4. (\A u \in Threads : \A i \in 1..Len(stack[u]) : ProgressOK(stack[u][i]))'
  BY <1>2
<1> QED BY <1>3, <1>4 DEF Ordered

\* The three ways a stack changes.
LEMMA PutAdvances ==
    ASSUME Consistent, NEW t \in Threads, stack[t] /= <<>>, NEW g, ProgressOK(g)',
           stack' = [stack EXCEPT ![t] = <<g>> \o Tail(@)]
    PROVE  Advances(t)
<1> PICK S : S = Frames \union {g}
  OBVIOUS
<1> PICK s \in Seq(S) : s = stack[t]
  BY Start DEF Shape
<1>1. stack' \in [Threads -> Seq(S)] /\ stack'[t] = <<g>> \o Tail(s)
      /\ \A u \in Threads : u /= t => stack'[u] = stack[u]
  <2>1. stack \in [Threads -> Seq(S)]
    BY Start DEF Shape
  <2>2. <<g>> \o Tail(s) \in Seq(S)
    BY PutSeq
  <2> QED BY <2>1, <2>2
<1> PICK s2 : s2 = stack'[t]
  OBVIOUS
<1>2. /\ Len(s2) = Len(s) /\ s2[1] = g /\ \A i \in 2..Len(s) : s2[i] = s[i]
  BY <1>1, PutSeq
<1>3. \A i \in 1..Len(s2) : s2[i] = g \/ \E j \in 1..Len(s) : s2[i] = s[j]
  <2> TAKE i \in 1..Len(s2)
  <2>1. i = 1 \/ (i \in 2..Len(s) /\ i \in 1..Len(s))
    BY <1>2
  <2> QED BY <1>2, <2>1
<1>4. ASSUME NEW i \in 1..Len(s2)
      PROVE ProgressOK(stack[t][i])' \/ \E j \in 1..Len(s) : s2[i] = s[j]
  BY <1>3
<1> QED BY <1>1, <1>4 DEF Advances

\* A call of a frame that may go on.
LEMMA CallAdvances ==
    ASSUME Consistent, NEW t \in Threads, stack[t] /= <<>>, NEW g, NEW f, ProgressOK(g)', ProgressOK(f)',
           stack' = [stack EXCEPT ![t] = <<g, f>> \o Tail(@)]
    PROVE  Advances(t)
<1> PICK S : S = Frames \union {f, g}
  OBVIOUS
<1> PICK s \in Seq(S) : s = stack[t]
  BY Start DEF Shape
<1>1. stack' \in [Threads -> Seq(S)] /\ stack'[t] = <<g, f>> \o Tail(s)
      /\ \A u \in Threads : u /= t => stack'[u] = stack[u]
  <2>1. stack \in [Threads -> Seq(S)]
    BY Start DEF Shape
  <2>2. <<g, f>> \o Tail(s) \in Seq(S)
    BY CallSeq
  <2> QED BY <2>1, <2>2
<1> PICK s2 : s2 = stack'[t]
  OBVIOUS
<1>2. /\ Len(s2) = Len(s) + 1 /\ s2[1] = g /\ s2[2] = f /\ \A i \in 3..Len(s) + 1 : s2[i] = s[i - 1]
  BY <1>1, CallSeq
<1>3. \A i \in 1..Len(s2) : s2[i] = g \/ s2[i] = f \/ \E j \in 1..Len(s) : s2[i] = s[j]
  <2> TAKE i \in 1..Len(s2)
  <2>1. i = 1 \/ i = 2 \/ (i \in 3..Len(s) + 1 /\ i - 1 \in 1..Len(s))
    BY <1>2
  <2> QED BY <1>2, <2>1
<1>4. ASSUME NEW i \in 1..Len(s2)
      PROVE ProgressOK(stack[t][i])' \/ \E j \in 1..Len(s) : s2[i] = s[j]
  BY <1>3
<1> QED BY <1>1, <1>4 DEF Advances

\* A return.
LEMMA ReturnAdvances ==
    ASSUME Consistent, NEW t \in Threads, stack[t] /= <<>>, stack' = [stack EXCEPT ![t] = Tail(@)]
    PROVE  Advances(t)
<1> PICK s \in Seq(Frames) : s = stack[t]
  BY Start DEF Shape
<1>1. stack'[t] = Tail(s) /\ \A u \in Threads : u /= t => stack'[u] = stack[u]
  BY Start DEF Shape
<1> PICK s2 : s2 = stack'[t]
  OBVIOUS
<1>2. Len(s2) = Len(s) - 1 /\ \A i \in 1..Len(s) - 1 : s2[i] = s[i + 1]
  <2>1. s /= <<>> /\ s2 = Tail(s)
    BY <1>1
  <2> QED BY <2>1, ReturnSeq
<1>3. \A i \in 1..Len(s2) : \E j \in 1..Len(s) : s2[i] = s[j]
  <2> TAKE i \in 1..Len(s2)
  <2>1. i \in 1..Len(s) - 1 /\ i + 1 \in 1..Len(s)
    BY <1>2
  <2> QED BY <1>2, <2>1
<1> QED BY <1>1, <1>3 DEF Advances

\* A frame whose progress says nothing.
Idle(f) == f.fn /= "Define" \/ f.pc \notin {"parents", "parent", "link", "retire", "resolve"}
\* Moves among frames outside DefineClass.
Rests(t) ==
    \/ \E pc : Goto(t, pc)
    \/ \E pc, todo : GotoWith(t, pc, todo)
    \/ \E pc, obj : Put(t, [Top(t) EXCEPT !.pc = pc, !.obj = obj])
    \/ stack' = [stack EXCEPT ![t] = <<[Top(t) EXCEPT !.pc = "done"]>> \o Tail(@)]
    \/ \E pc, g : Call(t, pc, g) /\ Idle(g)
    \/ \E c : Return(t, c)

\* A new frame has made no progress.
LEMMA NewIdle ==
    \A d, l, c : Idle(FindFrame(d, l)) /\ Idle(ArrayFrame(d, l)) /\ Idle(DefineFrame(d, l))
                 /\ Idle(EnsureFrame(c))
<1>1. \A d, l, c : /\ FindFrame(d, l).fn = "Find" /\ ArrayFrame(d, l).fn = "Array"
                   /\ DefineFrame(d, l).pc = "start" /\ EnsureFrame(c).fn = "Ensure"
  BY DEF FindFrame, ArrayFrame, DefineFrame, EnsureFrame, Frame
<1> QED BY <1>1 DEF Idle

\* The innermost frame is replaced by one that has made no progress.
LEMMA IdlePut ==
    ASSUME Consistent, NEW t \in Threads, stack[t] /= <<>>, NEW g, Idle(g),
           stack' = [stack EXCEPT ![t] = <<g>> \o Tail(@)]
    PROVE  Advances(t)
<1>1. ProgressOK(g)'
  BY DEF Idle, ProgressOK
<1> QED BY <1>1, PutAdvances

\* Two frames that have made no progress.
LEMMA IdleCall ==
    ASSUME Consistent, NEW t \in Threads, stack[t] /= <<>>, NEW g, NEW f, Idle(g), Idle(f),
           stack' = [stack EXCEPT ![t] = <<g, f>> \o Tail(@)]
    PROVE  Advances(t)
<1>1. ProgressOK(g)' /\ ProgressOK(f)'
  BY DEF Idle, ProgressOK
<1> QED BY <1>1, CallAdvances

\* Moves outside DefineClass concern no progress.
LEMMA RestsAdvances ==
    ASSUME Consistent, NEW t \in Threads, stack[t] /= <<>>, Top(t).fn /= "Define", Rests(t)
    PROVE  Advances(t)
<1> PICK f \in Frames : f = Top(t)
  BY TopFacts
<1>1. \A pc, todo, obj : /\ Idle([f EXCEPT !.pc = pc]) /\ Idle([f EXCEPT !.pc = pc, !.todo = todo])
                         /\ Idle([f EXCEPT !.pc = pc, !.obj = obj])
  BY DEF Idle, Frames
<1>2. ASSUME NEW pc, Goto(t, pc) PROVE Advances(t)
  <2> PICK g : g = [f EXCEPT !.pc = pc]
    OBVIOUS
  <2>1. Idle(g) /\ stack' = [stack EXCEPT ![t] = <<g>> \o Tail(@)]
    BY <1>1, <1>2 DEF Goto, Put
  <2> QED BY <2>1, IdlePut
<1>3. ASSUME NEW pc, NEW todo, GotoWith(t, pc, todo) PROVE Advances(t)
  <2> PICK g : g = [f EXCEPT !.pc = pc, !.todo = todo]
    OBVIOUS
  <2>1. Idle(g) /\ stack' = [stack EXCEPT ![t] = <<g>> \o Tail(@)]
    BY <1>1, <1>3 DEF GotoWith, Put
  <2> QED BY <2>1, IdlePut
<1>4. ASSUME NEW pc, NEW obj, Put(t, [f EXCEPT !.pc = pc, !.obj = obj]) PROVE Advances(t)
  <2> PICK g : g = [f EXCEPT !.pc = pc, !.obj = obj]
    OBVIOUS
  <2>1. Idle(g) /\ stack' = [stack EXCEPT ![t] = <<g>> \o Tail(@)]
    BY <1>1, <1>4 DEF Put
  <2> QED BY <2>1, IdlePut
<1>5. CASE stack' = [stack EXCEPT ![t] = <<[f EXCEPT !.pc = "done"]>> \o Tail(@)]
  <2> PICK g : g = [f EXCEPT !.pc = "done"]
    OBVIOUS
  <2>1. Idle(g) /\ stack' = [stack EXCEPT ![t] = <<g>> \o Tail(@)]
    BY <1>1, <1>5
  <2> QED BY <2>1, IdlePut
<1>6. ASSUME NEW pc, NEW g, Call(t, pc, g), Idle(g) PROVE Advances(t)
  <2> PICK h : h = [f EXCEPT !.pc = pc]
    OBVIOUS
  <2>1. Idle(h) /\ stack' = [stack EXCEPT ![t] = <<g, h>> \o Tail(@)]
    BY <1>1, <1>6 DEF Call
  <2> QED BY <1>6, <2>1, IdleCall
<1>7. ASSUME NEW c, Return(t, c) PROVE Advances(t)
  BY <1>7, ReturnAdvances DEF Return
<1> QED BY <1>2, <1>3, <1>4, <1>5, <1>6, <1>7 DEF Rests

\* Nor do the steps of FindClass, CreateArrayClass and EnsureResolved.
LEMMA FindAdvances ==
    ASSUME Consistent, NEW t \in Threads,
           \/ EnsureTemp(t) \/ EnsurePoll(t) \/ FindLookup(t) \/ FindDelegates(t) \/ FindSearch(t)
           \/ FindSearched(t) \/ FindJava(t) \/ FindLoaded(t) \/ FindRaised(t) \/ FindInsert(t)
           \/ FindDone(t) \/ ArrayComponent(t) \/ ArrayCreate(t)
    PROVE  Advances(t)
<1>1. /\ stack[t] /= <<>> /\ Top(t).fn \in {"Find", "Array", "Ensure"}
  BY DEF EnsureTemp, EnsurePoll, FindLookup, FindDelegates, FindSearch, FindSearched, FindJava, FindLoaded,
         FindRaised, FindInsert, FindDone, ArrayComponent, ArrayCreate, At
<1>2. EnsureTemp(t) => Rests(t)
  BY DEF EnsureTemp, Rests
<1>3. EnsurePoll(t) \/ FindDone(t) \/ ArrayCreate(t) => Rests(t)
  BY DEF EnsurePoll, FindDone, ArrayCreate, Rests
<1>4. FindLookup(t) => Rests(t)
  BY NewIdle DEF FindLookup, Rests
<1>5. FindDelegates(t) \/ FindSearched(t) \/ FindLoaded(t) => Rests(t)
  BY DEF FindDelegates, FindSearched, FindLoaded, Rests
<1>6. FindSearch(t) => Rests(t)
  BY NewIdle DEF FindSearch, Rests
<1>7. FindJava(t) => Rests(t)
  BY NewIdle DEF FindJava, Rests
<1>8. FindRaised(t) \/ FindInsert(t) => Rests(t)
  BY NewIdle DEF FindRaised, FindInsert, Rests
<1>9. ArrayComponent(t) => Rests(t)
  BY NewIdle DEF ArrayComponent, Rests
<1> QED BY <1>1, <1>2, <1>3, <1>4, <1>5, <1>6, <1>7, <1>8, <1>9, RestsAdvances

\* What a step of DefineClass does to its frame.
LEMMA DefineAdvances ==
    ASSUME Consistent, Ordered, NEW t \in Threads, FoundGrows,
           \/ DefineStart(t) \/ DefineRegister(t) \/ DefineInsert(t) \/ DefineLoad(t) \/ DefineParents(t)
           \/ DefineParent(t) \/ DefineLink(t) \/ DefineRetire(t) \/ DefineResolve(t)
    PROVE  Advances(t)
<1>1. \E pc : At(t, "Define", pc)
  BY DEF DefineStart, DefineRegister, DefineInsert, DefineLoad, DefineParents, DefineParent, DefineLink,
         DefineRetire, DefineResolve
<1>2. stack[t] /= <<>> /\ Top(t).fn = "Define" /\ DefineOK(t, Top(t))
  BY <1>1, DefineFacts
<1> PICK f \in Frames : f = Top(t)
  BY <1>1, DefineFacts
<1>3. f.d \in Descriptors /\ f.l \in Loaders /\ ProgressOK(f) /\ ProgressOK(f)'
  <2> PICK s \in Seq(Frames) : s = stack[t]
    BY Start DEF Shape
  <2>1. s /= <<>> /\ Head(s) = s[1] /\ 1 \in 1..Len(s) /\ f = s[1]
    BY <1>2 DEF Top
  <2>2. ProgressOK(f)
    BY <2>1 DEF Ordered
  <2> QED BY <2>2, ProgressKept DEF Frames
<1>4. ASSUME NEW c, Return(t, c) PROVE Advances(t)
  BY <1>2, <1>4, ReturnAdvances DEF Return
<1>5. ASSUME NEW g, Put(t, g), Idle(g) PROVE Advances(t)
  BY <1>2, <1>5, IdlePut DEF Put
<1>6. ASSUME NEW g, Put(t, g), ProgressOK(g)' PROVE Advances(t)
  BY <1>2, <1>6, PutAdvances DEF Put
<1>7. \A what : DefineFails(t, what) => Advances(t)
  BY <1>4 DEF DefineFails
<1>8. CASE DefineStart(t)
  <2>1. Idle([f EXCEPT !.pc = "register"])
        /\ \A cache : Idle([f EXCEPT !.pc = "insert", !.cache = cache])
    BY DEF Idle, Frames
  <2> QED BY <1>4, <1>5, <1>8, <2>1 DEF DefineStart, Goto
<1>9. CASE DefineRegister(t)
  <2>1. \A cache : Idle([f EXCEPT !.pc = "insert", !.cache = cache])
    BY DEF Idle, Frames
  <2> QED BY <1>4, <1>5, <1>9, <2>1 DEF DefineRegister
<1>10. CASE DefineInsert(t)
  <2>1. \A c : Idle([f EXCEPT !.pc = "load", !.obj = c]) /\ Idle(EnsureFrame(c))
    BY NewIdle DEF Idle, Frames
  <2> QED BY <1>5, <1>10, <2>1 DEF DefineInsert, TailCall
<1>11. CASE DefineLoad(t)
  <2> PICK g : g = [f EXCEPT !.pc = "parents", !.todo = Parents[f.d]]
    OBVIOUS
  <2>1. g.fn = "Define" /\ g.d = f.d /\ g.l = f.l /\ g.pc = "parents" /\ g.todo = Parents[f.d]
    BY <1>2 DEF Frames
  <2>2. ProgressOK(g)'
    BY <2>1 DEF ProgressOK
  <2> QED BY <1>6, <1>7, <1>11, <2>2 DEF DefineLoad, GotoWith
<1>12. CASE DefineParents(t)
  <2>1. f.pc = "parents"
    BY <1>12 DEF DefineParents, At
  <2>2. CASE Call(t, "parent", FindFrame(Head(f.todo), f.l))
    <3> PICK g : g = [f EXCEPT !.pc = "parent"]
      OBVIOUS
    <3> PICK h : h = FindFrame(Head(f.todo), f.l)
      OBVIOUS
    <3>1. g.fn = "Define" /\ g.d = f.d /\ g.l = f.l /\ g.pc = "parent" /\ g.todo = f.todo
      BY <1>2 DEF Frames
    <3>2. ProgressOK(g)' /\ Idle(h)
      BY <1>2, <1>3, <2>1, <3>1, NewIdle DEF ProgressOK
    <3>3. stack' = [stack EXCEPT ![t] = <<h, g>> \o Tail(@)] /\ ProgressOK(h)'
      BY <2>2, <3>2 DEF Call, Idle, ProgressOK
    <3> QED BY <1>2, <3>2, <3>3, CallAdvances
  <2>3. CASE f.todo = <<>> /\ Goto(t, "link")
    <3> PICK g : g = [f EXCEPT !.pc = "link"]
      OBVIOUS
    <3>1. g.fn = "Define" /\ g.d = f.d /\ g.l = f.l /\ g.pc = "link"
      BY <1>2 DEF Frames
    <3>2. Range(f.todo) = {}
      BY <2>3 DEF Range
    <3>3. ProgressOK(g)'
      BY <1>2, <1>3, <2>1, <3>1, <3>2 DEF ProgressOK, ParentsFound
    <3> QED BY <1>6, <2>3, <3>3 DEF Goto
  <2> QED BY <1>7, <1>12, <2>2, <2>3 DEF DefineParents
<1>13. CASE DefineParent(t)
  <2>1. f.pc = "parent" /\ f.todo \in Seq(Descriptors \ Arrays) /\ f.todo /= <<>>
    BY <1>2, <1>13 DEF DefineParent, At, DefineOK
  <2>2. CASE ret[t] /= 0 /\ GotoWith(t, "parents", Tail(f.todo))
    <3> PICK todo : todo = f.todo
      OBVIOUS
    <3> PICK g : g = [f EXCEPT !.pc = "parents", !.todo = Tail(todo)]
      OBVIOUS
    <3>1. g.fn = "Define" /\ g.d = f.d /\ g.l = f.l /\ g.pc = "parents" /\ g.todo = Tail(todo)
      BY <1>2 DEF Frames
    <3>2. found[<<Head(todo), f.l>>] /= {} /\ <<Head(todo), f.l>> \in Keys
      <4>1. AnswerOK(t, f, ret[t])
        BY <1>2, TopFacts
      <4>2. Head(todo) \in Descriptors
        BY <2>1
      <4> QED BY <1>2, <1>3, <2>1, <2>2, <4>1, <4>2 DEF AnswerOK, Keys
    <3>3. \A p \in Range(todo) : p = Head(todo) \/ p \in Range(Tail(todo))
      <4> TAKE p \in Range(todo)
      <4>1. PICK i \in 1..Len(todo) : p = todo[i]
        BY <2>1 DEF Range
      <4>2. CASE i = 1
        BY <2>1, <4>1, <4>2
      <4>3. CASE i /= 1
        <5>1. i - 1 \in DOMAIN Tail(todo) /\ Tail(todo)[i - 1] = todo[i]
          BY <2>1, <4>1, <4>3
        <5> QED BY <4>1, <5>1 DEF Range
      <4> QED BY <4>2, <4>3
    <3>4. ProgressOK(g)'
      <4>1. \A p \in Range(Parents[f.d]) : p \in Range(todo) \/ found'[<<p, f.l>>] /= {}
        BY <1>2, <1>3, <2>1 DEF ProgressOK
      <4>2. found'[<<Head(todo), f.l>>] /= {}
        BY <3>2 DEF FoundGrows
      <4> QED BY <3>1, <3>3, <4>1, <4>2 DEF ProgressOK
    <3> QED BY <1>6, <2>2, <3>4 DEF GotoWith
  <2> QED BY <1>7, <1>13, <2>2 DEF DefineParent
<1>14. CASE DefineLink(t)
  <2>1. f.pc = "link"
    BY <1>14 DEF DefineLink, At
  <2> PICK g : g = [f EXCEPT !.pc = "retire", !.todo = <<Len(heap) + 1>>]
    OBVIOUS
  <2>2. g.fn = "Define" /\ g.d = f.d /\ g.l = f.l /\ g.pc = "retire"
    BY <1>2 DEF Frames
  <2>3. ProgressOK(g)'
    BY <1>2, <1>3, <2>1, <2>2 DEF ProgressOK
  <2> QED BY <1>4, <1>6, <1>7, <1>14, <2>3 DEF DefineLink, GotoWith
<1>15. CASE DefineRetire(t)
  <2>1. f.pc = "retire"
    BY <1>15 DEF DefineRetire, At
  <2> PICK g : g = [f EXCEPT !.pc = "resolve"]
    OBVIOUS
  <2>2. g.fn = "Define" /\ g.d = f.d /\ g.l = f.l /\ g.pc = "resolve"
    BY <1>2 DEF Frames
  <2>3. ProgressOK(g)'
    BY <1>2, <1>3, <2>1, <2>2 DEF ProgressOK
  <2> QED BY <1>6, <1>15, <2>3 DEF DefineRetire, Goto
<1>16. CASE DefineResolve(t)
  BY <1>4, <1>16 DEF DefineResolve
<1> QED BY <1>8, <1>9, <1>10, <1>11, <1>12, <1>13, <1>14, <1>15, <1>16

\* Which classes a step resolves.
LEMMA SameHeapResolves ==
    ASSUME UNCHANGED heap
    PROVE  ResolvesInOrder
  BY DEF ResolvesInOrder, IsResolved

\* One object changes: if it is resolved, its parents were found.
LEMMA ChangeResolves ==
    ASSUME Shape, NEW c \in DOMAIN heap, NEW st, Changes(c, st),
           st = "kResolved" => ParentsFound(heap[c].d, heap[c].l)
    PROVE  ResolvesInOrder
<1>1. DOMAIN heap' = DOMAIN heap /\ heap[c] \in Classes
  BY DEF Changes, Shape
<1>2. heap[c].d \in Descriptors /\ heap[c].l \in Loaders
  BY <1>1 DEF Classes
<1> QED BY <1>1, <1>2 DEF ResolvesInOrder, Changes, IsResolved

\* A new object: if it is resolved, it is an array.
LEMMA AppendResolves ==
    ASSUME Shape, NEW n \in Classes, InsertClass(n), n.st = "kResolved" => n.d \in Arrays
    PROVE  ResolvesInOrder
<1> PICK h \in Seq(Classes) : h = heap
  BY DEF Shape
<1>1. heap' = Append(h, n)
  BY DEF InsertClass
<1>2. \A b \in DOMAIN heap' : b \in DOMAIN h \/ heap'[b] = n
  BY <1>1
<1>3. \A b \in DOMAIN h : heap'[b] = h[b]
  BY <1>1
<1> QED BY <1>2, <1>3 DEF ResolvesInOrder, IsResolved

\* An object that fails is not resolved.
LEMMA FailsResolves ==
    ASSUME Shape, NEW t \in Threads, NEW what \in Exceptions \union {"none"}, DefineFails(t, what),
           Top(t).obj \in DOMAIN heap
    PROVE  ResolvesInOrder
<1>1. CASE heap' = heap
  BY <1>1, SameHeapResolves
<1>2. CASE heap' = Failed(Top(t).obj, what)
  <2> PICK c \in DOMAIN heap : c = Top(t).obj
    OBVIOUS
  <2>1. Changes(c, "kErrorUnresolved")
    BY <1>2, FailedSet DEF Shape
  <2> QED BY <2>1, ChangeResolves
<1> QED BY <1>1, <1>2 DEF DefineFails

\* The step of a failing DefineClass, at a place where it works on its object.
LEMMA WorkingFails ==
    ASSUME Consistent, NEW t \in Threads, NEW pc, At(t, "Define", pc),
           pc \in {"load", "parents", "parent", "link"}, NEW what \in Exceptions \union {"none"},
           DefineFails(t, what)
    PROVE  ResolvesInOrder
<1> PICK f : f = Top(t)
  OBVIOUS
<1>1. Owns(f) /\ DefineOK(t, f)
  BY DefineFacts DEF Owns
<1>2. f.obj \in DOMAIN heap /\ Shape
  BY <1>1, Start DEF DefineOK, MadeFor, Owns
<1> QED BY <1>2, FailsResolves

\* The frame of a thread in DefineClass has made progress.
LEMMA TopProgress ==
    ASSUME Consistent, Ordered, NEW t \in Threads, stack[t] /= <<>>
    PROVE  ProgressOK(Top(t))
<1> PICK s \in Seq(Frames) : s = stack[t]
  BY Start DEF Shape
<1>1. s /= <<>> /\ Head(s) = s[1] /\ 1 \in 1..Len(s)
  OBVIOUS
<1> QED BY <1>1 DEF Ordered, Top

\* A class is resolved where it is, or the copy of a temporary one is: the
\* list of parents has been worked off.
LEMMA ResolvesOwn ==
    ASSUME Consistent, Ordered, NEW t \in Threads, NEW pc \in {"link", "resolve"},
           At(t, "Define", pc), NEW c, MadeFor(c, t, Top(t)), heap' = Marked(c, "kResolved")
    PROVE  ResolvesInOrder
<1> PICK f \in Frames : f = Top(t)
  BY DefineFacts
<1>1. stack[t] /= <<>> /\ f.fn = "Define" /\ f.pc = pc
  BY DefineFacts
<1>2. ParentsFound(f.d, f.l)
  BY <1>1, TopProgress DEF ProgressOK
<1>3. c \in DOMAIN heap /\ heap[c].d = f.d /\ heap[c].l = f.l /\ Shape
  BY Start DEF MadeFor
<1>4. Changes(c, "kResolved")
  BY <1>3, MarkedSet DEF Shape, Statuses
<1> QED BY <1>2, <1>3, <1>4, ChangeResolves

\* A class is marked on its way to be resolved, or retired.
LEMMA MarksOwn ==
    ASSUME Consistent, NEW t \in Threads, NEW c, MadeFor(c, t, Top(t)),
           NEW st \in {"kLoaded", "kRetired"}, heap' = Marked(c, st)
    PROVE  ResolvesInOrder
<1>1. c \in DOMAIN heap /\ Shape
  BY Start DEF MadeFor
<1>2. Changes(c, st)
  BY <1>1, MarkedSet DEF Shape, Statuses
<1> QED BY <1>1, <1>2, ChangeResolves

\* Steps of DefineClass resolve a class only after its parents.
LEMMA DefineInOrder ==
    ASSUME Consistent, Ordered, NEW t \in Threads,
           \/ DefineInsert(t) \/ DefineLoad(t) \/ DefineParents(t) \/ DefineParent(t)
           \/ DefineLink(t) \/ DefineRetire(t) \/ DefineResolve(t)
    PROVE  ResolvesInOrder
<1>1. CASE UNCHANGED heap
  BY <1>1, SameHeapResolves
<1> PICK f : f = Top(t)
  OBVIOUS
<1>2. ASSUME NEW pc, At(t, "Define", pc)
      PROVE  /\ f \in Frames /\ f.d \in Descriptors /\ f.l \in Loaders /\ f.fn = "Define" /\ f.pc = pc
             /\ DefineOK(t, f) /\ Shape
  BY <1>2, DefineFacts, Start
<1>3. \A st \in {"kIdx", "kResolving"} : \A pc : At(t, "Define", pc) =>
          /\ NewClass(f.d, f.l, st, t, f.cache) \in Classes
          /\ NewClass(f.d, f.l, st, t, f.cache).st = st
  BY <1>2 DEF NewClass, Classes, Frames, Statuses
<1>4. ASSUME NEW pc, At(t, "Define", pc), NEW st \in {"kIdx", "kResolving"},
             InsertClass(NewClass(f.d, f.l, st, t, f.cache))
      PROVE  ResolvesInOrder
  <2> PICK n : n = NewClass(f.d, f.l, st, t, f.cache)
    OBVIOUS
  <2>1. n \in Classes /\ n.st = st
    BY <1>3, <1>4
  <2>2. InsertClass(n) /\ n.st /= "kResolved" /\ Shape
    BY <1>2, <1>4, <2>1
  <2> QED BY <2>1, <2>2, AppendResolves
<1>5. CASE DefineInsert(t)
  BY <1>1, <1>4, <1>5 DEF DefineInsert
<1>6. CASE DefineLoad(t)
  BY <1>1, <1>6, WorkingFails, WorkingPlaces DEF DefineLoad
<1>7. CASE DefineParents(t)
  <2>1. At(t, "Define", "parents")
    BY <1>7 DEF DefineParents
  <2>2. CASE heap' = [heap EXCEPT ![f.obj].st = "kLoaded"]
    <3>1. heap' = Marked(f.obj, "kLoaded") /\ MadeFor(f.obj, t, f)
      BY <1>2, <2>1, <2>2 DEF Marked, DefineOK, Owns
    <3> QED BY <3>1, MarksOwn
  <2> QED BY <1>1, <1>7, <2>1, <2>2, WorkingFails, WorkingPlaces DEF DefineParents
<1>8. CASE DefineParent(t)
  BY <1>1, <1>8, WorkingFails, Start DEF DefineParent
<1>9. CASE DefineLink(t)
  <2>1. At(t, "Define", "link")
    BY <1>9 DEF DefineLink
  <2>2. CASE heap' = [heap EXCEPT ![f.obj].st = "kResolved"]
    <3>1. heap' = Marked(f.obj, "kResolved") /\ MadeFor(f.obj, t, f)
      BY <1>2, <2>1, <2>2 DEF Marked, DefineOK, Owns
    <3> QED BY <2>1, <3>1, ResolvesOwn
  <2>3. CASE InsertClass(NewClass(f.d, f.l, "kResolving", t, f.cache))
    BY <1>4, <2>1, <2>3
  <2> QED BY <1>9, <2>1, <2>2, <2>3, WorkingFails, WorkingPlaces DEF DefineLink
<1>10. CASE DefineRetire(t)
  <2>1. At(t, "Define", "retire") /\ heap' = [heap EXCEPT ![f.obj].st = "kRetired"]
    BY <1>10 DEF DefineRetire
  <2>2. heap' = Marked(f.obj, "kRetired") /\ MadeFor(f.obj, t, f)
    BY <1>2, <2>1 DEF Marked, DefineOK, Owns
  <2> QED BY <2>2, MarksOwn
<1>11. CASE DefineResolve(t)
  <2>1. At(t, "Define", "resolve") /\ heap' = [heap EXCEPT ![Head(f.todo)].st = "kResolved"]
    BY <1>11 DEF DefineResolve
  <2> PICK new : new = Head(f.todo)
    OBVIOUS
  <2>2. f.todo = <<table[<<f.d, f.l>>]>> /\ MadeFor(table[<<f.d, f.l>>], t, f)
    BY <1>2, <2>1 DEF DefineOK
  <2>3. heap' = Marked(new, "kResolved") /\ MadeFor(new, t, f)
    BY <2>1, <2>2 DEF Marked
  <2> QED BY <2>1, <2>3, ResolvesOwn
<1> QED BY <1>5, <1>6, <1>7, <1>8, <1>9, <1>10, <1>11

\* So do the other steps: only CreateArrayClass makes a resolved class.
LEMMA StepInOrder ==
    ASSUME Consistent, Ordered, NEW t \in Threads, Step(t)
    PROVE  ResolvesInOrder
<1>1. CASE UNCHANGED heap
  BY <1>1, SameHeapResolves
<1>2. CASE EnsurePoll(t)
  <2> PICK c : c = Top(t).obj
    OBVIOUS
  <2>1. c \in DOMAIN heap /\ Shape
    BY <1>2, TopFacts, Start DEF EnsurePoll, At, FrameOK, EnsureOK
  <2>2. CASE heap' = Failed(c, "ClassCircularityError")
    <3>1. Changes(c, "kErrorUnresolved")
      BY <2>1, <2>2, FailedSet, WorkingPlaces DEF Shape
    <3> QED BY <2>1, <3>1, ChangeResolves
  <2> QED BY <1>1, <1>2, <2>2 DEF EnsurePoll
<1>3. CASE ArrayCreate(t)
  <2> PICK f : f = Top(t)
    OBVIOUS
  <2> PICK comp : comp = IF ret[t] /= 0 THEN ret[t] ELSE LookupClass(Component[f.d], f.l)
    OBVIOUS
  <2>1. /\ f \in Frames /\ f.d \in Arrays /\ f.d \in Descriptors /\ f.l \in Loaders
        /\ Component[f.d] \in Descriptors
    BY <1>3, ArrayFacts DEF ArrayCreate, Frames
  <2>2. comp /= 0 => heap[comp].l \in Loaders
    <3> HAVE comp /= 0
    <3>1. <<Component[f.d], f.l>> \in Keys
      BY <2>1 DEF Keys
    <3>2. comp \in 1..Len(heap)
      BY <3>1, Start DEF LookupClass, Shape
    <3>3. heap[comp] \in Classes
      BY <3>2, Start DEF Shape
    <3> QED BY <3>3 DEF Classes
  <2> PICK n : n = NewClass(f.d, heap[comp].l, "kResolved", NoThread, 0)
    OBVIOUS
  <2>3. n.d \in Arrays /\ (comp /= 0 => n \in Classes)
    BY <2>1, <2>2 DEF NewClass, Classes, Statuses
  <2>4. UNCHANGED heap \/ (comp /= 0 /\ InsertClass(n))
    BY <1>3 DEF ArrayCreate
  <2> QED BY <1>1, <2>3, <2>4, Start, AppendResolves
<1> QED
  BY <1>1, <1>2, <1>3, DefineInOrder
     DEF Step, EnsureTemp, FindLookup, FindDelegates, FindSearch, FindSearched, FindJava,
         FindLoaded, FindRaised, FindInsert, FindDone, DefineStart, DefineRegister, ArrayComponent

\* Nothing that was found is forgotten.
LEMMA StepFoundGrows ==
    ASSUME Consistent, NEW t \in Threads, Step(t)
    PROVE  FoundGrows
<1>1. CASE UNCHANGED found
  BY <1>1 DEF FoundGrows
<1>2. CASE FindDone(t)
  BY <1>2 DEF FindDone, FoundGrows, Consistent, Shape
<1> QED
  BY <1>1, <1>2
     DEF Step, EnsureTemp, EnsurePoll, FindLookup, FindDelegates, FindSearch, FindSearched, FindJava,
         FindLoaded, FindRaised, FindInsert, DefineStart, DefineRegister, DefineInsert, DefineLoad,
         DefineParents, DefineParent, DefineLink, DefineRetire, DefineResolve, ArrayComponent,
         ArrayCreate

\* A new call of FindClass has made no progress yet.
LEMMA FindClassAdvances ==
    ASSUME Consistent, NEW t \in Threads, NEW d, NEW l, FindClass(t, d, l)
    PROVE  Advances(t)
<1> PICK g : g = FindFrame(d, l)
  OBVIOUS
<1>1. ProgressOK(g)'
  BY NewIdle DEF Idle, ProgressOK
<1>2. stack'[t] = <<g>> /\ \A u \in Threads : u /= t => stack'[u] = stack[u]
  BY DEF FindClass, Consistent, Shape
<1>3. ASSUME NEW i \in 1..Len(stack'[t]) PROVE stack'[t][i] = g
  BY <1>2
<1>4. ASSUME NEW i \in 1..Len(stack'[t]) PROVE ProgressOK(stack[t][i])'
  BY <1>1, <1>3
<1> QED BY <1>2, <1>4 DEF Advances

\* Resolved classes, and classes on the way there, have had their parents found.
THEOREM OrderedAlways == Spec => []Ordered
<1>1. Init => Ordered
  BY DEF Init, Ordered
<1>2. Consistent /\ Ordered /\ [Next]_vars => Ordered'
  <2> SUFFICES ASSUME Consistent, Ordered, [Next]_vars PROVE Ordered'
    OBVIOUS
  <2>1. CASE UNCHANGED vars
    BY <2>1 DEF vars, Ordered, ResolvedOK, ProgressOK, ParentsFound, IsResolved
  <2>2. ASSUME NEW t \in Threads, Step(t) PROVE Ordered'
    <3>1. ResolvesInOrder /\ FoundGrows
      BY <2>2, StepInOrder, StepFoundGrows
    <3>2. Advances(t)
      BY <2>2, <3>1, FindAdvances, DefineAdvances DEF Step
    <3> QED BY <3>1, <3>2, OrderedKept
  <2>3. ASSUME NEW t \in Threads, NEW r \in Roots[t], FindClass(t, r[1], r[2]) PROVE Ordered'
    <3>1. ResolvesInOrder /\ FoundGrows
      BY <2>3, SameHeapResolves DEF FindClass, FoundGrows
    <3>2. Advances(t)
      BY <2>3, FindClassAdvances
    <3> QED BY <3>1, <3>2, OrderedKept
  <2> QED BY <2>1, <2>2, <2>3 DEF Next, Ended
<1> QED BY <1>1, <1>2, ConsistentAlways, PTL DEF Spec

\* The parents of a resolved class were found, resolved, before it, and no
\* circle of superclasses and interfaces is ever resolved (LoadSuperAndInterfaces
\* and EnsureResolved, class_linker.c).
THEOREM ParentsResolvedFirstAlways == Spec => []ParentsResolvedFirst
<1>1. Ordered => ParentsResolvedFirst
  BY DEF Ordered, ResolvedOK, ParentsFound, ParentsResolvedFirst
<1> QED BY <1>1, OrderedAlways, PTL

----------------------------------------------------------------------------
\* Loaders and their ages.

\* The loaders have ages: a loader is younger than those it may delegate to.
LEMMA AgeWorks == IsAge(Age) /\ \A l \in Loaders : Age[l] \in Nat
<1>1. \E age \in [Loaders -> 0..Cardinality(Loaders)] : IsAge(age)
  BY LoadersAssumption DEF IsAge
<1>2. Age \in [Loaders -> 0..Cardinality(Loaders)] /\ IsAge(Age)
  BY <1>1 DEF Age
<1>3. Cardinality(Loaders) \in Nat
  BY DefineAssumption, FS_CardinalityType
<1> QED BY <1>2, <1>3

\* Being under a loader is a partial order.
LEMMA UnderOrder ==
    ASSUME NEW k \in Loaders, NEW l \in Loaders, NEW m \in Loaders
    PROVE  /\ Under(k, l) /\ Under(l, m) => Under(k, m)
           /\ Under(k, l) /\ Under(l, k) => k = l
           /\ l /= "boot" => Under("boot", l) /\ Under(Parent[l], l) /\ Parent[l] /= l
           /\ l /= "boot" => \A i \in DOMAIN Libs[l] : Under(Libs[l][i], l)
<1>1. Age[k] \in Nat /\ Age[l] \in Nat /\ Age[m] \in Nat
  BY AgeWorks
<1>2. ASSUME l /= "boot" PROVE /\ Age["boot"] < Age[l] /\ Age[Parent[l]] < Age[l]
                               /\ \A i \in DOMAIN Libs[l] : Age[Libs[l][i]] < Age[l]
  BY <1>2, AgeWorks DEF IsAge, Range
<1>3. l /= "boot" => Parent[l] /= l
  BY <1>1, <1>2
<1> QED BY <1>1, <1>2, <1>3 DEF Under

----------------------------------------------------------------------------
\* Errors.

\* What a step of thread t may do to the objects: nothing, make one that is not
\* erroneous, or go on with one of its own that is neither erroneous nor resolved.
Works(t) ==
    \/ UNCHANGED heap
    \/ \E n \in Classes : heap' = Append(heap, n) /\ n.st /= "kErrorUnresolved" /\ n.err = "none"
    \/ \E c \in DOMAIN heap, st \in Statuses :
           /\ heap[c].tid = t /\ ~IsErroneousUnresolved(c) /\ ~IsResolved(c)
           /\ Changes(c, st) /\ (heap'[c].err /= "none" <=> st = "kErrorUnresolved")
\* Errors and resolved classes stay, and the entries of erroneous ones.
Settles(t) ==
    /\ Len(heap) <= Len(heap') /\ Len(heap') \in Nat
    /\ \A c \in DOMAIN heap : /\ IsErroneousUnresolved(c) => IsErroneousUnresolved(c)'
                              /\ IsResolved(c) => IsResolved(c)'
                              /\ heap[c].tid /= t => heap'[c] = heap[c]
    /\ \A c \in DOMAIN heap' : c \notin DOMAIN heap => ~IsErroneousUnresolved(c)'
    /\ \A k \in Keys : table[k] /= 0 /\ IsErroneousUnresolved(table[k]) => table'[k] = table[k]

\* Errors come with an exception, and stay.
LEMMA WorksSettles ==
    ASSUME Consistent, ErrorsOK, NEW t \in Threads, Works(t), EntriesStay
    PROVE  ErrorsOK' /\ Settles(t)
<1> PICK h \in Seq(Classes) : h = heap
  BY DEF Consistent, Shape
<1>1. \A k \in Keys : table[k] /= 0 /\ IsErroneousUnresolved(table[k]) => table'[k] = table[k]
  BY DEF EntriesStay, IsTemp, IsErroneousUnresolved
<1>2. CASE UNCHANGED heap
  BY <1>1, <1>2 DEF Settles, ErrorsOK, IsErroneousUnresolved, IsResolved
<1>3. ASSUME NEW n \in Classes, heap' = Append(heap, n), n.st /= "kErrorUnresolved", n.err = "none"
      PROVE  ErrorsOK' /\ Settles(t)
  <2>1. Len(heap') = Len(h) + 1 /\ Len(h) \in Nat /\ \A c \in DOMAIN h : heap'[c] = h[c]
    BY <1>3
  <2>2. \A c \in DOMAIN heap' : c \in DOMAIN h \/ heap'[c] = n
    BY <1>3
  <2>3. ErrorsOK'
    BY <1>3, <2>1, <2>2 DEF ErrorsOK, IsErroneousUnresolved
  <2>4. Len(heap) <= Len(heap') /\ Len(heap') \in Nat
    BY <2>1
  <2>5. \A c \in DOMAIN heap' : c \notin DOMAIN heap => ~IsErroneousUnresolved(c)'
    BY <1>3, <2>2 DEF IsErroneousUnresolved
  <2>6. \A c \in DOMAIN heap : heap'[c] = heap[c]
    BY <2>1
  <2>7. \A c \in DOMAIN heap :
            /\ IsErroneousUnresolved(c) => IsErroneousUnresolved(c)'
            /\ IsResolved(c) => IsResolved(c)'
            /\ heap[c].tid /= t => heap'[c] = heap[c]
    BY <2>6 DEF IsErroneousUnresolved, IsResolved
  <2> QED BY <1>1, <2>3, <2>4, <2>5, <2>7 DEF Settles
<1>4. ASSUME NEW c \in DOMAIN heap, NEW st \in Statuses, heap[c].tid = t, ~IsErroneousUnresolved(c),
             ~IsResolved(c), Changes(c, st), heap'[c].err /= "none" <=> st = "kErrorUnresolved"
      PROVE  ErrorsOK' /\ Settles(t)
  <2>1. /\ heap' \in Seq(Classes) /\ DOMAIN heap' = DOMAIN heap /\ Len(heap') = Len(heap)
        /\ \A b \in DOMAIN heap : b /= c => heap'[b] = heap[b]
        /\ heap'[c].st = st
    BY <1>4 DEF Changes
  <2>2. ErrorsOK'
    BY <1>4, <2>1 DEF ErrorsOK, IsErroneousUnresolved
  <2> QED BY <1>1, <1>4, <2>1, <2>2 DEF Settles, IsErroneousUnresolved, IsResolved
<1> QED BY <1>2, <1>3, <1>4 DEF Works

\* Where a class is broken it stays broken.
LEMMA BrokenStays ==
    ASSUME Shape, NEW t, Settles(t), NEW d \in Descriptors, NEW l \in Loaders, Broken(d, l)
    PROVE  Broken(d, l)'
<1>1. <<d, l>> \in Keys /\ table[<<d, l>>] \in DOMAIN heap
  BY DEF Keys, Shape, Broken
<1> QED BY <1>1 DEF Broken, Settles, IsErroneousUnresolved

\* The innermost frame of a thread, unless it is failing, works on a class that is
\* not erroneous; and so do all others.
LEMMA NoDoom ==
    ASSUME Sound, NEW t \in Threads, stack[t] /= <<>>, ~Failing(t, Top(t))
    PROVE  \A i \in 1..Len(stack[t]) : ~Doomed(stack[t][i])
  BY DEF Sound, ThreadOK, DoomOK

\* At the places of DefineClass between the parents nothing is wrong.
LEMMA DefineClear ==
    ASSUME Consistent, Sound, NEW t \in Threads,
           NEW pc \in {"register", "insert", "load", "parents", "link", "retire", "resolve"},
           At(t, "Define", pc)
    PROVE  exc[t] = "none" /\ (Owns(Top(t)) => ~IsErroneousUnresolved(Top(t).obj))
           /\ \A i \in 1..Len(stack[t]) : ~Doomed(stack[t][i])
<1> PICK f \in Frames : f = Top(t)
  BY DefineFacts
<1>0. stack[t] /= <<>> /\ f.fn = "Define" /\ f.pc = pc
  BY DefineFacts
<1>1. stack[t] /= <<>> /\ f.fn = "Define" /\ f.pc = pc /\ f = stack[t][1] /\ 1 \in 1..Len(stack[t])
  BY <1>0, TopFacts
<1>2. ~Failing(t, f)
  BY <1>1 DEF Failing
<1>3. \A i \in 1..Len(stack[t]) : ~Doomed(stack[t][i])
  BY <1>1, <1>2, NoDoom
<1>4. exc[t] = "none"
  BY <1>1 DEF Sound, ThreadOK, EndOK, ExcOK, Clear
<1> QED BY <1>1, <1>3, <1>4 DEF Doomed

\* An object of the thread gets its next status.
LEMMA MarkedWorks ==
    ASSUME Consistent, ErrorsOK, NEW t \in Threads, NEW c \in DOMAIN heap, heap[c].tid = t,
           ~IsErroneousUnresolved(c), ~IsResolved(c),
           NEW st \in Statuses \ {"kErrorUnresolved"}, heap' = Marked(c, st)
    PROVE  Works(t)
<1>0. heap \in Seq(Classes) /\ heap[c] \in Classes
  BY DEF Consistent, Shape
<1>1. heap \in Seq(Classes) /\ heap[c] \in Classes /\ heap[c].err = "none"
  BY <1>0 DEF ErrorsOK
<1>2. Changes(c, st)
  BY <1>1, MarkedSet
<1> PICK n : n = [heap[c] EXCEPT !.st = st]
  OBVIOUS
<1>3. n.err = "none" /\ heap' = [heap EXCEPT ![c] = n]
  BY <1>1 DEF Marked, Classes
<1>4. heap'[c].err = "none"
  BY <1>3
<1> QED BY <1>2, <1>4 DEF Works

\* An object of the thread fails.
LEMMA FailedWorks ==
    ASSUME Consistent, NEW t \in Threads, NEW c \in DOMAIN heap, heap[c].tid = t,
           ~IsErroneousUnresolved(c), ~IsResolved(c), NEW e \in Exceptions, heap' = Failed(c, e)
    PROVE  Works(t)
<1>1. heap \in Seq(Classes) /\ heap[c] \in Classes /\ e /= "none"
  BY DEF Consistent, Shape, Exceptions
<1>2. Changes(c, "kErrorUnresolved")
  BY <1>1, FailedSet
<1> PICK n : n = [heap[c] EXCEPT !.st = "kErrorUnresolved", !.err = e]
  OBVIOUS
<1>3. n.err = e /\ heap' = [heap EXCEPT ![c] = n]
  BY <1>1 DEF Failed, Classes
<1>4. heap'[c].err /= "none"
  BY <1>1, <1>3
<1> QED BY <1>2, <1>4 DEF Works, Statuses

\* DefineClass fails, at a place where it works on its object.
LEMMA FailsWorks ==
    ASSUME Consistent, NEW t \in Threads, NEW pc \in {"load", "parents", "parent", "link"},
           At(t, "Define", pc), NEW e \in Exceptions, DefineFails(t, e)
    PROVE  Works(t)
<1> PICK f \in Frames : f = Top(t)
  BY DefineFacts
<1>1. DefineOK(t, f) /\ Owns(f) /\ Working(f)
  BY DefineFacts DEF Owns, Working
<1>2. f.obj \in DOMAIN heap /\ heap[f.obj].tid = t /\ ~IsResolved(f.obj)
  BY <1>1 DEF DefineOK, MadeFor, IsResolved, Working, Owns
<1>3. CASE UNCHANGED heap
  BY <1>3 DEF Works
<1>4. CASE ~IsErroneousUnresolved(f.obj) /\ heap' = Failed(f.obj, e)
  BY <1>2, <1>4, FailedWorks
<1> QED BY <1>3, <1>4 DEF DefineFails

\* The steps of DefineClass.
LEMMA DefineWorks ==
    ASSUME Consistent, Sound, NEW t \in Threads,
           \/ DefineInsert(t) \/ DefineLoad(t) \/ DefineParents(t) \/ DefineParent(t)
           \/ DefineLink(t) \/ DefineRetire(t) \/ DefineResolve(t)
    PROVE  Works(t)
<1>0. ErrorsOK
  BY DEF Sound
<1>1. CASE UNCHANGED heap
  BY <1>1 DEF Works
<1> PICK f : f = Top(t)
  OBVIOUS
<1>2. ASSUME NEW pc, At(t, "Define", pc)
      PROVE  /\ f \in Frames /\ f.d \in Descriptors /\ f.l \in Loaders /\ f.fn = "Define" /\ f.pc = pc
             /\ DefineOK(t, f) /\ Shape
  BY <1>2, DefineFacts, Start
<1>4. ASSUME NEW pc, At(t, "Define", pc), NEW st \in {"kIdx", "kResolving"},
             InsertClass(NewClass(f.d, f.l, st, t, f.cache))
      PROVE  Works(t)
  <2> PICK n : n = NewClass(f.d, f.l, st, t, f.cache)
    OBVIOUS
  <2>1. n \in Classes /\ n.st = st /\ n.err = "none"
    BY <1>2, <1>4 DEF NewClass, Classes, Frames, Statuses
  <2>2. heap' = Append(heap, n) /\ n.st /= "kErrorUnresolved"
    BY <1>4, <2>1 DEF InsertClass
  <2> QED BY <2>1, <2>2 DEF Works
<1>5. CASE DefineInsert(t)
  BY <1>1, <1>4, <1>5 DEF DefineInsert
<1>6. CASE DefineLoad(t)
  BY <1>1, <1>6, FailsWorks, WorkingPlaces DEF DefineLoad
<1>7. CASE DefineParents(t)
  <2>1. At(t, "Define", "parents")
    BY <1>7 DEF DefineParents
  <2>2. CASE heap' = [heap EXCEPT ![f.obj].st = "kLoaded"]
    <3>1. heap' = Marked(f.obj, "kLoaded") /\ MadeFor(f.obj, t, f) /\ Owns(f) /\ ~IsResolved(f.obj)
      BY <1>2, <2>1, <2>2 DEF Marked, DefineOK, Owns, Working, IsResolved
    <3>2. ~IsErroneousUnresolved(f.obj)
      BY <2>1, <3>1, DefineClear
    <3> QED BY <1>0, <3>1, <3>2, MarkedWorks DEF MadeFor, Statuses
  <2> QED BY <1>1, <1>7, <2>1, <2>2, FailsWorks, WorkingPlaces DEF DefineParents
<1>8. CASE DefineParent(t)
  <2>1. At(t, "Define", "parent")
    BY <1>8 DEF DefineParent
  <2>2. CASE ret[t] = 0 /\ DefineFails(t, exc[t])
    <3>1. stack[t] /= <<>> /\ Waits(f)
      BY <1>2, <2>1 DEF At, Waits
    <3>2. ExcOK(t, f)
      BY <3>1 DEF Sound, ThreadOK, EndOK
    <3>3. exc[t] \in Exceptions
      BY <2>2, <3>1, <3>2, Start DEF ExcOK
    <3> QED BY <2>1, <2>2, <3>3, FailsWorks
  <2> QED BY <1>1, <1>8, <2>2 DEF DefineParent
<1>9. CASE DefineLink(t)
  <2>1. At(t, "Define", "link")
    BY <1>9 DEF DefineLink
  <2>2. CASE heap' = [heap EXCEPT ![f.obj].st = "kResolved"]
    <3>1. heap' = Marked(f.obj, "kResolved") /\ MadeFor(f.obj, t, f) /\ Owns(f) /\ ~IsResolved(f.obj)
      BY <1>2, <2>1, <2>2 DEF Marked, DefineOK, Owns, Working, IsResolved
    <3>2. ~IsErroneousUnresolved(f.obj)
      BY <2>1, <3>1, DefineClear
    <3> QED BY <1>0, <3>1, <3>2, MarkedWorks DEF MadeFor, Statuses
  <2>3. CASE InsertClass(NewClass(f.d, f.l, "kResolving", t, f.cache))
    BY <1>4, <2>1, <2>3
  <2> QED BY <1>9, <2>1, <2>2, <2>3, FailsWorks, WorkingPlaces DEF DefineLink
<1>10. CASE DefineRetire(t)
  <2>1. At(t, "Define", "retire") /\ heap' = [heap EXCEPT ![f.obj].st = "kRetired"]
    BY <1>10 DEF DefineRetire
  <2>2. heap' = Marked(f.obj, "kRetired") /\ MadeFor(f.obj, t, f) /\ IsTemp(f.obj)
    BY <1>2, <2>1 DEF Marked, DefineOK, Owns
  <2>3. ~IsErroneousUnresolved(f.obj) /\ ~IsResolved(f.obj)
    BY <2>2 DEF IsTemp, IsErroneousUnresolved, IsResolved
  <2> QED BY <1>0, <2>2, <2>3, MarkedWorks DEF MadeFor, Statuses
<1>11. CASE DefineResolve(t)
  <2>1. At(t, "Define", "resolve") /\ heap' = [heap EXCEPT ![Head(f.todo)].st = "kResolved"]
    BY <1>11 DEF DefineResolve
  <2> PICK new : new = Head(f.todo)
    OBVIOUS
  <2>2. /\ f.todo = <<table[<<f.d, f.l>>]>> /\ MadeFor(table[<<f.d, f.l>>], t, f)
        /\ heap[table[<<f.d, f.l>>]].st = "kResolving"
    BY <1>2, <2>1 DEF DefineOK
  <2>3. heap' = Marked(new, "kResolved") /\ MadeFor(new, t, f) /\ heap[new].st = "kResolving"
    BY <2>1, <2>2 DEF Marked
  <2>4. ~IsErroneousUnresolved(new) /\ ~IsResolved(new)
    BY <2>3 DEF IsErroneousUnresolved, IsResolved
  <2> QED BY <1>0, <2>3, <2>4, MarkedWorks DEF MadeFor, Statuses
<1> QED BY <1>5, <1>6, <1>7, <1>8, <1>9, <1>10, <1>11

\* Every step only works on the objects of its thread.
LEMMA StepWorks ==
    ASSUME Consistent, Sound, NEW t \in Threads, Step(t)
    PROVE  Works(t)
<1>1. CASE UNCHANGED heap
  BY <1>1 DEF Works
<1>2. CASE EnsurePoll(t)
  <2> PICK c : c = Top(t).obj
    OBVIOUS
  <2>1. c \in DOMAIN heap
    BY <1>2, TopFacts DEF EnsurePoll, At, FrameOK, EnsureOK
  <2>2. CASE /\ ~IsResolved(c) /\ ~IsErroneousUnresolved(c) /\ heap[c].tid = t
             /\ heap' = Failed(c, "ClassCircularityError")
    BY <2>1, <2>2, FailedWorks, WorkingPlaces
  <2> QED BY <1>1, <1>2, <2>2 DEF EnsurePoll
<1>3. CASE ArrayCreate(t)
  <2> PICK f : f = Top(t)
    OBVIOUS
  <2> PICK comp : comp = IF ret[t] /= 0 THEN ret[t] ELSE LookupClass(Component[f.d], f.l)
    OBVIOUS
  <2>1. /\ f \in Frames /\ f.d \in Arrays /\ f.d \in Descriptors /\ f.l \in Loaders
        /\ Component[f.d] \in Descriptors
    BY <1>3, ArrayFacts DEF ArrayCreate, Frames
  <2>2. comp /= 0 => heap[comp].l \in Loaders
    <3> HAVE comp /= 0
    <3>1. <<Component[f.d], f.l>> \in Keys
      BY <2>1 DEF Keys
    <3>2. comp \in 1..Len(heap)
      BY <3>1, Start DEF LookupClass, Shape
    <3>3. heap[comp] \in Classes
      BY <3>2, Start DEF Shape
    <3> QED BY <3>3 DEF Classes
  <2> PICK n : n = NewClass(f.d, heap[comp].l, "kResolved", NoThread, 0)
    OBVIOUS
  <2>3. n.st /= "kErrorUnresolved" /\ n.err = "none" /\ (comp /= 0 => n \in Classes)
    BY <2>1, <2>2 DEF NewClass, Classes, Statuses
  <2>4. UNCHANGED heap \/ (comp /= 0 /\ heap' = Append(heap, n))
    BY <1>3 DEF ArrayCreate, InsertClass
  <2> QED BY <1>1, <2>3, <2>4 DEF Works
<1> QED
  BY <1>1, <1>2, <1>3, DefineWorks
     DEF Step, EnsureTemp, FindLookup, FindDelegates, FindSearch, FindSearched, FindJava,
         FindLoaded, FindRaised, FindInsert, FindDone, DefineStart, DefineRegister, ArrayComponent

\* Errors and their entries stay, in every step.
LEMMA StepSettles ==
    ASSUME Consistent, Sound, NEW t \in Threads, Step(t)
    PROVE  ErrorsOK' /\ Settles(t)
  BY StepWorks, StepStays, WorksSettles DEF Sound

\* The cache of the boot class path stays registered.
LEMMA BootKept ==
    ASSUME Consistent, BootOK, NEW t \in Threads, Step(t)
    PROVE  BootOK'
<1>1. CASE UNCHANGED dexCaches
  BY <1>1 DEF BootOK
<1>2. CASE DefineRegister(t)
  <2>1. UNCHANGED dexCaches \/ \E file, new : dexCaches[file].cache = 0 /\ dexCaches' = [dexCaches EXCEPT ![file] = new]
    BY <1>2 DEF DefineRegister, RegisterDexFileLocked
  <2>2. DexFile["boot"] \in Range(DexFile)
    BY DefineAssumption DEF Range
  <2>3. dexCaches'[DexFile["boot"]] = dexCaches[DexFile["boot"]]
    BY <2>1, <2>2 DEF BootOK, Consistent, Shape
  <2> QED BY <2>3 DEF BootOK
<1> QED
  BY <1>1, <1>2
     DEF Step, EnsureTemp, EnsurePoll, FindLookup, FindDelegates, FindSearch, FindSearched, FindJava,
         FindLoaded, FindRaised, FindInsert, FindDone, DefineStart, DefineInsert, DefineLoad,
         DefineParents, DefineParent, DefineLink, DefineRetire, DefineResolve, ArrayComponent,
         ArrayCreate

----------------------------------------------------------------------------
\* What one thread does leaves the exceptions of the others in order.

\* A step changes one thread's stack, exception and result.
LEMMA StepAlone ==
    ASSUME Consistent, NEW t \in Threads, Step(t), NEW u \in Threads, u /= t
    PROVE  exc'[u] = exc[u] /\ ret'[u] = ret[u] /\ calls'[u] = calls[u]
<1> DEFINE OneExc == UNCHANGED exc \/ \E e : exc' = [exc EXCEPT ![t] = e]
           OneRet == UNCHANGED ret \/ \E c : ret' = [ret EXCEPT ![t] = c]
<1>1. \A what : DefineFails(t, what) => OneExc /\ OneRet
  BY DEF DefineFails, Throw, Return
<1>2. EnsureTemp(t) \/ EnsurePoll(t) => OneExc /\ OneRet
  BY DEF EnsureTemp, EnsurePoll, Throw, Return, Goto, Put
<1>3. FindLookup(t) \/ FindDelegates(t) \/ FindSearch(t) => OneExc /\ OneRet
  BY DEF FindLookup, FindDelegates, FindSearch, Throw, Call, Goto, GotoWith, Put
<1>4. FindSearched(t) \/ FindJava(t) \/ FindLoaded(t) => OneExc /\ OneRet
  BY DEF FindSearched, FindJava, FindLoaded, Throw, Call, Goto, GotoWith, Put
<1>5. FindRaised(t) \/ FindInsert(t) \/ FindDone(t) => OneExc /\ OneRet
  BY DEF FindRaised, FindInsert, FindDone, Throw, Call, Goto, Return, Put
<1>6. DefineStart(t) \/ DefineRegister(t) \/ DefineInsert(t) => OneExc /\ OneRet
  BY DEF DefineStart, DefineRegister, DefineInsert, Throw, TailCall, Goto, Return, Put
<1>7. DefineLoad(t) \/ DefineParents(t) \/ DefineParent(t) => OneExc /\ OneRet
  BY <1>1 DEF DefineLoad, DefineParents, DefineParent, Call, Goto, GotoWith, Put
<1>8. DefineLink(t) \/ DefineRetire(t) \/ DefineResolve(t) => OneExc /\ OneRet
  BY <1>1 DEF DefineLink, DefineRetire, DefineResolve, Goto, GotoWith, Return, Put
<1>9. ArrayComponent(t) \/ ArrayCreate(t) => OneExc /\ OneRet
  BY DEF ArrayComponent, ArrayCreate, Throw, Call, Return
<1>10. OneExc /\ OneRet
  <2> HIDE DEF OneExc, OneRet
  <2> QED BY <1>2, <1>3, <1>4, <1>5, <1>6, <1>7, <1>8, <1>9 DEF Step
<1>11. UNCHANGED calls
  BY DEF Step, EnsureTemp, EnsurePoll, FindLookup, FindDelegates, FindSearch, FindSearched, FindJava,
         FindLoaded, FindRaised, FindInsert, FindDone, DefineStart, DefineRegister, DefineInsert,
         DefineLoad, DefineParents, DefineParent, DefineLink, DefineRetire, DefineResolve,
         ArrayComponent, ArrayCreate
<1> QED BY <1>10, <1>11 DEF Consistent, Shape

\* What serves a frame still serves it after a step.
LEMMA ServesKept ==
    ASSUME Shape, NEW t, Settles(t), NEW f \in Frames, NEW g \in Frames, Serves(f, g),
           f.fn = "Ensure" => f.obj \in DOMAIN heap
    PROVE  Serves(f, g)'
  BY DEF Serves, Settles

\* The other threads' exceptions stay in order.
LEMMA OthersSound ==
    ASSUME Consistent, NEW t \in Threads, Settles(t), NEW u \in Threads, u /= t, ThreadOK(u),
           stack'[u] = stack[u], exc'[u] = exc[u], ret'[u] = ret[u], calls'[u] = calls[u]
    PROVE  ThreadOK(u)'
<1> PICK s \in Seq(Frames) : s = stack[u]
  BY Start DEF Shape
<1>1. /\ \A i \in 1..Len(s) : s[i] \in Frames /\ FrameOK(u, s[i])
      /\ Shape /\ Nested(s) /\ DoomOK(u) /\ EndOK(u)
  BY DEF Consistent, StackOK, LineOK, ThreadOK
<1>2. \A i \in 1..Len(s) : s[i].fn = "Ensure" => s[i].obj \in DOMAIN heap
  BY <1>1 DEF FrameOK, EnsureOK
<1>3. ASSUME NEW d \in Descriptors, NEW l \in Loaders, Broken(d, l) PROVE Broken(d, l)'
  BY <1>1, <1>3, BrokenStays
<1>4. Nested(s)'
  <2>1. ASSUME NEW i \in 1..Len(s), NEW j \in 1..Len(s), i < j PROVE Serves(s[i], s[j])'
    <3> PICK f \in Frames, g \in Frames : f = s[i] /\ g = s[j]
      BY <1>1
    <3>1. Serves(f, g)'
      BY <1>1, <1>2, <2>1, ServesKept DEF Nested
    <3> QED BY <3>1
  <2>2. \A i \in 1..Len(s) : Delegates(s[i])
    BY <1>1 DEF Nested
  <2>3. (\A i, j \in 1..Len(s) : i < j => Serves(s[i], s[j]))'
    BY <2>1
  <2> QED BY <2>2, <2>3 DEF Nested
<1>5. ASSUME NEW f \in Frames, Failing(u, f) PROVE Failing(u, f)'
  BY <1>3, <1>5 DEF Failing, Frames
<1>6. DoomOK(u)'
  <2> SUFFICES ASSUME NEW i \in 1..Len(s), Doomed(s[i])'
               PROVE  /\ exc'[u] = Circular /\ Failing(u, Top(u))'
                      /\ \A j \in 1..i : s[j].l = s[i].l
    BY DEF DoomOK
  <2>1. Doomed(s[i])
    <3> PICK f \in Frames : f = s[i]
      BY <1>1
    <3>1. Doomed(f)' /\ FrameOK(u, f)
      BY <1>1
    <3>2. heap'[f.obj] = heap[f.obj]
      BY <3>1 DEF Doomed, FrameOK, DefineOK, MadeFor, Settles, Owns
    <3> QED BY <3>1, <3>2 DEF Doomed, IsErroneousUnresolved
  <2>2. exc[u] = Circular /\ Failing(u, Top(u)) /\ \A j \in 1..i : s[j].l = s[i].l
    BY <1>1, <2>1 DEF DoomOK
  <2> PICK f \in Frames : f = Top(u)
    <3>1. s /= <<>> /\ Head(s) = s[1] /\ 1 \in 1..Len(s)
      OBVIOUS
    <3> QED BY <1>1, <3>1 DEF Top
  <2>3. Failing(u, f)' /\ Top(u)' = f
    BY <1>5, <2>2 DEF Top
  <2> QED BY <2>2, <2>3
<1>7. EndOK(u)'
  <2>1. CASE s = <<>>
    BY <1>1, <2>1 DEF EndOK
  <2>2. CASE s /= <<>>
    <3>1. Head(s) = s[1] /\ 1 \in 1..Len(s) /\ Len(s) \in Nat
      BY <2>2
    <3> PICK f \in Frames : f = Top(u)
      BY <1>1, <3>1 DEF Top
    <3>2. f = s[1] /\ FrameOK(u, f) /\ ExcOK(u, f) /\ Top(u)' = f /\ f.d \in Descriptors /\ f.l \in Loaders
      BY <1>1, <2>2, <3>1 DEF EndOK, Top, Frames
    <3>3. PassedBoot(s) => PassedBoot(s)'
      <4>1. CASE Len(s) > 1
        <5> PICK g \in Frames : g = s[2]
          BY <1>1, <4>1
        <5>1. g.d \in Descriptors /\ "boot" \in Loaders
          BY DefineAssumption DEF Frames
        <5> QED BY <1>3, <5>1 DEF PassedBoot
      <4> QED BY <4>1 DEF PassedBoot
    <3>4. Broken(f.d, "boot") => Broken(f.d, "boot")'
      BY <1>3, <3>2, DefineAssumption
    <3>5. f.fn = "Ensure" /\ IsErroneousUnresolved(f.obj) => IsErroneousUnresolved(f.obj)'
      BY <1>2, <3>1, <3>2 DEF Settles
    <3>6. ExcOK(u, f)'
      BY <3>2, <3>3, <3>4, <3>5 DEF ExcOK
    <3> QED BY <2>2, <3>2, <3>6 DEF EndOK
  <2> QED BY <2>1, <2>2
<1> QED BY <1>4, <1>6, <1>7 DEF ThreadOK

----------------------------------------------------------------------------
\* What a step does to the thread's own stack.

\* Frame g takes the place of frame f, or serves frame h as a new one.
Heir(f, g) ==
    /\ g.d = f.d /\ Delegates(g) /\ (g.fn = "Ensure" => g.obj \in DOMAIN heap)
    /\ \/ f.fn /= "Ensure" /\ (g.l = f.l \/ (g.fn = "Ensure" /\ IsResolved(g.obj)))
       \/ f.fn = "Ensure" /\ g.fn = "Ensure" /\ g.l = f.l /\ (IsResolved(f.obj) => g.obj = f.obj)
    /\ Owns(g) => (Owns(f) /\ g.obj = f.obj) \/ g.obj \notin DOMAIN heap
Asks(g, h) ==
    /\ Delegates(g) /\ (g.fn = "Ensure" => g.obj \in DOMAIN heap) /\ ~Owns(g)
    /\ Under(g.l, h.l) \/ (g.fn = "Ensure" /\ IsResolved(g.obj))
    /\ h.fn = "Define" => g.d \notin Arrays
    /\ g.d \in Arrays => h.d \in Arrays
Puts(t, g) == stack' = [stack EXCEPT ![t] = <<g>> \o Tail(@)]
Pushes(t, g, h) == stack' = [stack EXCEPT ![t] = <<g, h>> \o Tail(@)]
Pops(t) == stack' = [stack EXCEPT ![t] = Tail(@)]
Calling(f, g, h) == Heir(f, h) /\ h.fn = f.fn /\ h.fn /= "Ensure" /\ h.l = f.l /\ Asks(g, h)
Nests(t) == \/ Pops(t)
            \/ \E g : Puts(t, g) /\ Heir(Top(t), g)
            \/ \E g, h : Pushes(t, g, h) /\ Calling(Top(t), g, h)

\* The stack when a frame is replaced, when it calls, when it returns.
LEMMA PutStack ==
    ASSUME Consistent, Consistent', NEW t \in Threads, stack[t] /= <<>>, NEW g, Puts(t, g),
           NEW s2, s2 = stack'[t]
    PROVE  /\ Len(s2) = Len(stack[t]) /\ s2 /= <<>> /\ s2[1] = g /\ Head(s2) = g
           /\ \A i \in 2..Len(s2) : s2[i] = stack[t][i]
           /\ g \in Frames /\ FrameOK(t, g)' /\ Len(s2) \in Nat
<1> PICK S : S = Frames \union {g}
  OBVIOUS
<1> PICK s \in Seq(S) : s = stack[t]
  BY Start DEF Shape
<1>1. s2 = <<g>> \o Tail(s)
  BY Start DEF Shape, Puts
<1>2. /\ Len(s2) = Len(s) /\ s2 /= <<>> /\ s2[1] = g /\ Head(s2) = g
      /\ \A i \in 2..Len(s) : s2[i] = s[i]
  BY <1>1, PutSeq
<1>3. s2 \in Seq(Frames) /\ LineOK(t, s2)'
  BY DEF Consistent, Shape, StackOK
<1>4. 1 \in 1..Len(s2) /\ Len(s2) \in Nat
  BY <1>2, <1>3
<1>5. s2[1] \in Frames /\ FrameOK(t, s2[1])'
  BY <1>3, <1>4 DEF LineOK
<1> QED BY <1>2, <1>4, <1>5

\* A call.
LEMMA CallStack ==
    ASSUME Consistent, Consistent', NEW t \in Threads, stack[t] /= <<>>, NEW g, NEW h,
           Pushes(t, g, h), NEW s2, s2 = stack'[t]
    PROVE  /\ Len(s2) = Len(stack[t]) + 1 /\ s2 /= <<>> /\ s2[1] = g /\ s2[2] = h /\ Head(s2) = g
           /\ \A i \in 3..Len(s2) : s2[i] = stack[t][i - 1]
           /\ g \in Frames /\ h \in Frames /\ FrameOK(t, g)' /\ FrameOK(t, h)'
           /\ Len(s2) \in Nat /\ Len(s2) > 1
<1> PICK S : S = Frames \union {g, h}
  OBVIOUS
<1> PICK s \in Seq(S) : s = stack[t]
  BY Start DEF Shape
<1>1. s2 = <<g, h>> \o Tail(s)
  BY Start DEF Shape, Pushes
<1>2. /\ Len(s2) = Len(s) + 1 /\ s2 /= <<>> /\ s2[1] = g /\ s2[2] = h /\ Head(s2) = g /\ Len(s) >= 1
      /\ \A i \in 3..Len(s) + 1 : s2[i] = s[i - 1]
  BY <1>1, CallSeq
<1>3. s2 \in Seq(Frames) /\ LineOK(t, s2)'
  BY DEF Consistent, Shape, StackOK
<1>4. 1 \in 1..Len(s2) /\ 2 \in 1..Len(s2) /\ Len(s2) \in Nat /\ Len(s2) > 1
  BY <1>2, <1>3
<1>5. s2[1] \in Frames /\ FrameOK(t, s2[1])' /\ s2[2] \in Frames /\ FrameOK(t, s2[2])'
  BY <1>3, <1>4 DEF LineOK
<1> QED BY <1>2, <1>4, <1>5

\* A return.
LEMMA ReturnStack ==
    ASSUME Consistent, NEW t \in Threads, stack[t] /= <<>>, Pops(t), NEW s2, s2 = stack'[t]
    PROVE  /\ Len(s2) = Len(stack[t]) - 1 /\ Len(s2) \in Nat
           /\ \A i \in 1..Len(s2) : i + 1 \in 1..Len(stack[t]) /\ s2[i] = stack[t][i + 1]
           /\ s2 = <<>> <=> Len(stack[t]) = 1
           /\ s2 /= <<>> => Head(s2) = stack[t][2] /\ Len(stack[t]) > 1
<1> PICK s \in Seq(Frames) : s = stack[t]
  BY Start DEF Shape
<1>1. s2 = Tail(s) /\ s /= <<>>
  BY Start DEF Shape, Pops
<1>2. /\ Len(s2) = Len(s) - 1 /\ Len(s) >= 1 /\ \A i \in 1..Len(s) - 1 : s2[i] = s[i + 1]
      /\ s2 = <<>> <=> Len(s) = 1
      /\ s2 /= <<>> => Head(s2) = s[2]
  BY <1>1, ReturnSeq
<1>3. Len(s) \in Nat
  OBVIOUS
<1> QED BY <1>2, <1>3

\* The calls of the thread stay nested.
LEMMA NestsKept ==
    ASSUME Consistent, Consistent', NEW t \in Threads, stack[t] /= <<>>, Nested(stack[t]),
           Settles(t), Nests(t)
    PROVE  Nested(stack[t])'
<1> PICK s \in Seq(Frames) : s = stack[t]
  BY Start DEF Shape
<1> PICK s2 \in Seq(Frames) : s2 = stack'[t]
  BY DEF Consistent, Shape
<1> PICK f \in Frames : f = Top(t)
  BY TopFacts
<1>1. f = s[1] /\ Len(s) \in Nat /\ Len(s) >= 1 /\ Shape /\ Len(s2) \in Nat
  BY TopFacts, Start
<1>2. /\ \A i, j \in 1..Len(s) : i < j => Serves(s[i], s[j])
      /\ \A i \in 1..Len(s) : Delegates(s[i])
  BY DEF Nested
<1>3. ASSUME NEW i \in 1..Len(s), NEW j \in 1..Len(s), i < j PROVE Serves(s[i], s[j])'
  <2> PICK g \in Frames, h \in Frames : g = s[i] /\ h = s[j]
    OBVIOUS
  <2>1. FrameOK(t, g) /\ Serves(g, h)
    BY <1>2, <1>3 DEF Consistent, StackOK, LineOK
  <2>2. Serves(g, h)'
    BY <1>1, <2>1, ServesKept DEF FrameOK, EnsureOK
  <2> QED BY <2>2
<1>4. CASE Pops(t)
  <2>1. Len(s2) = Len(s) - 1 /\ \A i \in 1..Len(s2) : i + 1 \in 1..Len(s) /\ s2[i] = s[i + 1]
    BY <1>4, ReturnStack
  <2>2. ASSUME NEW i \in 1..Len(s2), NEW j \in 1..Len(s2), i < j PROVE Serves(s2[i], s2[j])'
    <3>1. i + 1 < j + 1 /\ i + 1 \in 1..Len(s) /\ j + 1 \in 1..Len(s)
      BY <2>1, <2>2
    <3>2. Serves(s[i + 1], s[j + 1])'
      BY <1>3, <3>1
    <3> QED BY <2>1, <3>2
  <2>3. \A i \in 1..Len(s2) : Delegates(s2[i])
    BY <1>2, <2>1
  <2>4. (\A i, j \in 1..Len(s2) : i < j => Serves(s2[i], s2[j]))'
    BY <2>2
  <2>5. Nested(s2)'
    BY <2>3, <2>4 DEF Nested
  <2> QED BY <2>5
<1>5. ASSUME NEW g, Puts(t, g), Heir(f, g) PROVE Nested(stack[t])'
  <2>0. /\ Len(s2) = Len(stack[t]) /\ s2[1] = g /\ g \in Frames
        /\ \A i \in 2..Len(s2) : s2[i] = stack[t][i]
    BY <1>5, PutStack
  <2>1. /\ Len(s2) = Len(s) /\ s2[1] = g /\ g \in Frames /\ Heir(f, g)
        /\ \A i \in 2..Len(s2) : s2[i] = s[i]
    BY <1>5, <2>0
  <2>2. ASSUME NEW i \in 1..Len(s2), NEW j \in 1..Len(s2), i < j PROVE Serves(s2[i], s2[j])'
    <3>1. CASE i = 1
      <4> PICK h \in Frames : h = s[j]
        BY <2>1
      <4>1. Serves(f, h) /\ s2[j] = h /\ s2[i] = g
        BY <1>1, <1>2, <2>1, <2>2, <3>1
      <4>2. Serves(g, h)
        BY <2>1, <4>1 DEF Heir, Serves
      <4>3. Serves(g, h)'
        BY <1>1, <2>1, <4>2, ServesKept DEF Heir
      <4> QED BY <4>1, <4>3
    <3>2. CASE i /= 1
      <4>1. s2[i] = s[i] /\ s2[j] = s[j] /\ i \in 1..Len(s) /\ j \in 1..Len(s)
        BY <2>1, <2>2, <3>2
      <4> QED BY <1>3, <2>2, <4>1
    <3> QED BY <3>1, <3>2
  <2>3. ASSUME NEW i \in 1..Len(s2) PROVE Delegates(s2[i])
    <3>1. i = 1 \/ (i \in 2..Len(s2) /\ i \in 1..Len(s))
      BY <2>1
    <3> QED BY <1>2, <2>1, <3>1 DEF Heir
  <2>4. (\A i, j \in 1..Len(s2) : i < j => Serves(s2[i], s2[j]))'
    BY <2>2
  <2>5. Nested(s2)'
    BY <2>3, <2>4 DEF Nested
  <2> QED BY <2>5
<1>6. ASSUME NEW g, NEW h, Pushes(t, g, h), Calling(f, g, h) PROVE Nested(stack[t])'
  <2>0. /\ Len(s2) = Len(stack[t]) + 1 /\ s2[1] = g /\ s2[2] = h /\ g \in Frames /\ h \in Frames
        /\ \A i \in 3..Len(s2) : s2[i] = stack[t][i - 1]
    BY <1>6, CallStack
  <2>1. /\ Len(s2) = Len(s) + 1 /\ s2[1] = g /\ s2[2] = h /\ g \in Frames /\ h \in Frames
        /\ Heir(f, h) /\ h.fn = f.fn /\ h.fn /= "Ensure" /\ h.l = f.l /\ Asks(g, h)
        /\ \A i \in 3..Len(s2) : s2[i] = s[i - 1]
    BY <1>6, <2>0 DEF Calling
  <2>2. ASSUME NEW i \in 1..Len(s2), NEW j \in 1..Len(s2), i < j PROVE Serves(s2[i], s2[j])'
    <3>1. CASE i = 1 /\ j = 2
      <4>1. Serves(g, h)
        BY <2>1 DEF Asks, Serves
      <4>2. Serves(g, h)'
        BY <1>1, <2>1, <4>1, ServesKept DEF Asks
      <4> QED BY <2>1, <3>1, <4>2
    <3>2. CASE i = 1 /\ j > 2
      <4> PICK k \in Frames : k = s[j - 1]
        BY <1>1, <2>1, <3>2
      <4>1. Serves(f, k) /\ s2[j] = k /\ s2[i] = g
        BY <1>1, <1>2, <2>1, <2>2, <3>2
      <4>2. g.l \in Loaders /\ f.l \in Loaders /\ k.l \in Loaders
        BY <2>1 DEF Frames
      <4>3. Under(g.l, k.l) \/ (g.fn = "Ensure" /\ IsResolved(g.obj))
        BY <2>1, <4>1, <4>2, UnderOrder DEF Serves, Asks
      <4>4. Serves(g, k)
        BY <2>1, <4>1, <4>3 DEF Serves, Asks, Heir
      <4>5. Serves(g, k)'
        BY <1>1, <2>1, <4>4, ServesKept DEF Asks
      <4> QED BY <4>1, <4>5
    <3>3. CASE i = 2
      <4> PICK k \in Frames : k = s[j - 1]
        BY <1>1, <2>1, <2>2, <3>3
      <4>1. Serves(f, k) /\ s2[j] = k /\ s2[i] = h
        BY <1>1, <1>2, <2>1, <2>2, <3>3
      <4>2. Serves(h, k)
        BY <2>1, <4>1 DEF Serves, Heir
      <4>3. Serves(h, k)'
        BY <1>1, <2>1, <4>2, ServesKept
      <4> QED BY <4>1, <4>3
    <3>4. CASE i > 2
      <4>1. /\ s2[i] = s[i - 1] /\ s2[j] = s[j - 1] /\ i - 1 \in 1..Len(s) /\ j - 1 \in 1..Len(s)
            /\ i - 1 < j - 1
        BY <2>1, <2>2, <3>4
      <4>2. Serves(s[i - 1], s[j - 1])'
        BY <1>3, <4>1
      <4> QED BY <4>1, <4>2
    <3> QED BY <2>2, <3>1, <3>2, <3>3, <3>4
  <2>3. ASSUME NEW i \in 1..Len(s2) PROVE Delegates(s2[i])
    <3>1. i = 1 \/ i = 2 \/ (i \in 3..Len(s2) /\ i - 1 \in 1..Len(s))
      BY <2>1
    <3>2. Delegates(g) /\ Delegates(h)
      BY <2>1 DEF Heir, Asks
    <3> QED BY <1>2, <2>1, <3>1, <3>2
  <2>4. (\A i, j \in 1..Len(s2) : i < j => Serves(s2[i], s2[j]))'
    BY <2>2
  <2>5. Nested(s2)'
    BY <2>3, <2>4 DEF Nested
  <2> QED BY <2>5
<1> QED BY <1>4, <1>5, <1>6 DEF Nests

----------------------------------------------------------------------------
\* Every step of a thread nests its calls.

\* The fields of a frame that has moved.
LEMMA Fields ==
    ASSUME NEW f \in Frames
    PROVE  \A pc, todo, obj, cache :
               /\ \A g \in {[f EXCEPT !.pc = pc], [f EXCEPT !.pc = pc, !.todo = todo],
                            [f EXCEPT !.pc = pc, !.obj = obj], [f EXCEPT !.pc = pc, !.cache = cache]} :
                      g.fn = f.fn /\ g.d = f.d /\ g.l = f.l /\ g.pc = pc
               /\ [f EXCEPT !.pc = pc].todo = f.todo /\ [f EXCEPT !.pc = pc].obj = f.obj
               /\ [f EXCEPT !.pc = pc, !.todo = todo].todo = todo
               /\ [f EXCEPT !.pc = pc, !.todo = todo].obj = f.obj
               /\ [f EXCEPT !.pc = pc, !.obj = obj].obj = obj
               /\ [f EXCEPT !.pc = pc, !.cache = cache].obj = f.obj
  BY DEF Frames

\* The fields of new frames.
LEMMA NewFields ==
    \A d, l, c :
        /\ FindFrame(d, l).fn = "Find" /\ FindFrame(d, l).pc = "lookup"
        /\ DefineFrame(d, l).fn = "Define" /\ DefineFrame(d, l).pc = "start"
        /\ ArrayFrame(d, l).fn = "Array" /\ ArrayFrame(d, l).pc = "component"
        /\ EnsureFrame(c).fn = "Ensure" /\ EnsureFrame(c).pc = "temp" /\ EnsureFrame(c).obj = c
        /\ EnsureFrame(c).d = heap[c].d /\ EnsureFrame(c).l = heap[c].l
        /\ \A g \in {FindFrame(d, l), DefineFrame(d, l), ArrayFrame(d, l)} : g.d = d /\ g.l = l
  BY DEF FindFrame, DefineFrame, ArrayFrame, EnsureFrame, Frame

\* The innermost frame, when a step begins.
LEMMA TopDelegates ==
    ASSUME Consistent, Sound, NEW t \in Threads, stack[t] /= <<>>
    PROVE  /\ Delegates(Top(t)) /\ Nested(stack[t]) /\ DoomOK(t) /\ ExcOK(t, Top(t))
           /\ Top(t) \in Frames /\ Top(t).d \in Descriptors /\ Top(t).l \in Loaders
<1>1. ThreadOK(t)
  BY DEF Sound
<1>2. Top(t) = stack[t][1] /\ 1 \in 1..Len(stack[t]) /\ Top(t) \in Frames
  BY TopFacts
<1> QED BY <1>1, <1>2 DEF ThreadOK, EndOK, Nested, Frames

\* FindClass goes on.
LEMMA FindNests ==
    ASSUME NEW t, NEW f \in Frames, f = Top(t), f.fn = "Find", NEW g, Puts(t, g),
           g.fn = "Find", g.d = f.d, g.l = f.l, Delegates(g)
    PROVE  Nests(t)
  BY DEF Nests, Heir, Owns

\* DefineClass goes on with its object, or before it has one.
LEMMA DefineNests ==
    ASSUME NEW t, NEW f \in Frames, f = Top(t), f.fn = "Define", NEW g, Puts(t, g),
           g.fn = "Define", g.d = f.d, g.l = f.l,
           Owns(g) => (Owns(f) /\ g.obj = f.obj) \/ g.obj \notin DOMAIN heap
    PROVE  Nests(t)
<1>1. Heir(f, g)
  BY DEF Heir, Delegates
<1> QED BY <1>1 DEF Nests

\* A frame calls another.
LEMMA CallNests ==
    ASSUME NEW t, NEW f \in Frames, f = Top(t), f.fn /= "Ensure", Delegates(f), NEW pc, NEW g,
           Call(t, pc, g), Asks(g, f), pc /= "search", pc = "searched" => f.pc = "search",
           f.fn = "Define" => Owns(f)
    PROVE  Nests(t)
<1> PICK h : h = [f EXCEPT !.pc = pc]
  OBVIOUS
<1>1. h.fn = f.fn /\ h.d = f.d /\ h.l = f.l /\ h.pc = pc /\ h.todo = f.todo /\ h.obj = f.obj
  BY Fields
<1>2. Pushes(t, g, h)
  BY DEF Call, Pushes
<1>3. Asks(g, h)
  BY <1>1 DEF Asks
<1>4. Delegates(h)
  BY <1>1 DEF Delegates
<1>5. Owns(h) => Owns(f)
  BY <1>1 DEF Owns
<1>6. Heir(f, h)
  BY <1>1, <1>4, <1>5 DEF Heir
<1>7. Calling(f, g, h)
  BY <1>1, <1>3, <1>6 DEF Calling
<1> QED BY <1>2, <1>7 DEF Nests

\* What may be asked of new frames.
LEMMA NewAsks ==
    ASSUME NEW f \in Frames, NEW d \in Descriptors, NEW l \in Loaders, Under(l, f.l),
           f.fn = "Define" => d \notin Arrays, d \in Arrays => f.d \in Arrays
    PROVE  Asks(FindFrame(d, l), f) /\ Asks(DefineFrame(d, l), f) /\ Asks(ArrayFrame(d, l), f)
<1> PICK g1 : g1 = FindFrame(d, l)
  OBVIOUS
<1> PICK g2 : g2 = DefineFrame(d, l)
  OBVIOUS
<1> PICK g3 : g3 = ArrayFrame(d, l)
  OBVIOUS
<1>1. /\ g1.fn = "Find" /\ g1.pc = "lookup" /\ g2.fn = "Define" /\ g2.pc = "start" /\ g3.fn = "Array"
      /\ \A g \in {g1, g2, g3} : g.d = d /\ g.l = l
  BY NewFields
<1>2. Asks(g1, f)
  BY <1>1 DEF Asks, Delegates, Owns
<1>3. Asks(g2, f)
  BY <1>1 DEF Asks, Delegates, Owns
<1>4. Asks(g3, f)
  BY <1>1 DEF Asks, Delegates, Owns
<1> QED BY <1>2, <1>3, <1>4
\* A class in a table of a loader may be asked for.
LEMMA EnsureAsks ==
    ASSUME Consistent, NEW f \in Frames, f.fn = "Find", NEW l \in Loaders, Under(l, f.l),
           table[<<f.d, l>>] /= 0
    PROVE  Asks(EnsureFrame(table[<<f.d, l>>]), f)
<1> PICK k \in Keys : k = <<f.d, l>>
  BY DEF Keys, Frames
<1> PICK c : c = table[k]
  OBVIOUS
<1> PICK g : g = EnsureFrame(c)
  OBVIOUS
<1>1. c \in DOMAIN heap /\ c /= 0 /\ k[1] = f.d /\ k[2] = l
  BY DEF Consistent, Shape
<1>2. heap[c].d = f.d /\ (heap[c].l = l \/ IsResolved(c))
  BY <1>1 DEF Consistent, EntriesOK, EntryOK
<1>3. g.fn = "Ensure" /\ g.obj = c /\ g.d = heap[c].d /\ g.l = heap[c].l
  BY NewFields
<1> QED BY <1>1, <1>2, <1>3 DEF Asks, Delegates, Owns

\* The loaders to visit are those a loader delegates to.
LEMMA VisitOrderUnder ==
    ASSUME NEW l \in Loaders, l /= "boot"
    PROVE  \A i \in DOMAIN VisitOrder(l) : VisitOrder(l)[i].at \in Loaders /\ Under(VisitOrder(l)[i].at, l)
<1> PICK V : V = {e \in Entries : Under(e.at, l)}
  OBVIOUS
<1>1. ASSUME NEW k \in Loaders, Under(k, l) PROVE Whole(k) \in V /\ Own(k) \in V
  BY <1>1 DEF Whole, Own, Entries
<1>2. /\ "boot" \in Loaders /\ Parent[l] \in Loaders /\ Under("boot", l) /\ Under(Parent[l], l) /\ Under(l, l)
      /\ \A i \in DOMAIN Libs[l] : Under(Libs[l][i], l)
  BY DefineAssumption, UnderOrder DEF Under
<1> PICK libs : libs = [i \in DOMAIN Libs[l] |-> Whole(Libs[l][i])]
  OBVIOUS
<1>3. libs \in Seq(V)
  <2>1. Libs[l] \in Seq(Loaders)
    BY DefineAssumption
  <2>2. /\ DOMAIN Libs[l] = 1..Len(Libs[l]) /\ Len(Libs[l]) \in Nat
        /\ \A i \in DOMAIN Libs[l] : Libs[l][i] \in Loaders
    BY <2>1
  <2>3. libs \in [1..Len(Libs[l]) -> V]
    BY <1>1, <1>2, <2>2
  <2> QED BY <2>2, <2>3, IsASeq
<1> PICK a : a = Whole(Parent[l])
  OBVIOUS
<1> PICK b : b = Own(l)
  OBVIOUS
<1> PICK c : c = Own("boot")
  OBVIOUS
<1>4. a \in V /\ b \in V /\ c \in V
  BY <1>1, <1>2
<1>5. <<a>> \o libs \o <<b>> \in Seq(V) /\ <<c>> \o libs \o <<b, a>> \in Seq(V)
  <2>1. <<a>> \in Seq(V) /\ <<b>> \in Seq(V) /\ <<c>> \in Seq(V) /\ <<b, a>> \in Seq(V)
    BY <1>4
  <2>2. <<a>> \o libs \in Seq(V) /\ <<c>> \o libs \in Seq(V)
    BY <1>3, <2>1
  <2> QED BY <2>1, <2>2
<1>6. VisitOrder(l) = IF Kind[l] = "path" THEN <<a>> \o libs \o <<b>> ELSE <<c>> \o libs \o <<b, a>>
  BY DEF VisitOrder
<1> PICK v : v = VisitOrder(l)
  OBVIOUS
<1>7. v \in Seq(V)
  BY <1>5, <1>6
<1>8. \A i \in DOMAIN v : v[i] \in V
  BY <1>7
<1> QED BY <1>8 DEF Entries

\* A loader delegates to all that a list has it visit.
AllUnder(todo, l) == \A n \in DOMAIN todo : Under(todo[n].at, l)

\* Such lists are joined.
LEMMA JoinedUnder ==
    ASSUME NEW S, NEW v \in Seq(S), NEW r \in Seq(S), NEW l, AllUnder(v, l), AllUnder(r, l)
    PROVE  AllUnder(v \o r, l)
<1> PICK w : w = v \o r
  OBVIOUS
<1>1. Len(v) \in Nat /\ Len(r) \in Nat /\ DOMAIN v = 1..Len(v) /\ DOMAIN r = 1..Len(r)
      /\ w \in Seq(S) /\ Len(w) = Len(v) + Len(r) /\ DOMAIN w = 1..Len(w)
  OBVIOUS
<1>2. \A n \in 1..Len(v) + Len(r) : w[n] = IF n <= Len(v) THEN v[n] ELSE r[n - Len(v)]
  BY <1>1
<1>3. ASSUME NEW n \in DOMAIN w PROVE Under(w[n].at, l)
  <2>1. n \in 1..Len(v) \/ (n \notin 1..Len(v) /\ n - Len(v) \in 1..Len(r))
    BY <1>1
  <2>2. CASE n \in 1..Len(v)
    <3>1. w[n] = v[n]
      BY <1>1, <1>2, <2>2
    <3> QED BY <1>1, <2>2, <3>1 DEF AllUnder
  <2>3. CASE n \notin 1..Len(v) /\ n - Len(v) \in 1..Len(r)
    <3>1. w[n] = r[n - Len(v)]
      BY <1>1, <1>2, <2>3
    <3> QED BY <1>1, <2>3, <3>1 DEF AllUnder
  <2> QED BY <2>1, <2>2, <2>3
<1>4. AllUnder(w, l)
  BY <1>3 DEF AllUnder
<1> QED BY <1>4

\* EnsureResolved.
LEMMA EnsureStepNests ==
    ASSUME Consistent, NEW t \in Threads, EnsureTemp(t) \/ EnsurePoll(t)
    PROVE  Nests(t)
<1>1. CASE EnsurePoll(t)
  BY <1>1 DEF EnsurePoll, Return, Nests, Pops
<1>2. CASE EnsureTemp(t)
  <2>1. At(t, "Ensure", "temp") /\ stack[t] /= <<>>
    BY <1>2 DEF EnsureTemp, At
  <2> PICK f \in Frames : f = Top(t)
    BY <2>1, TopFacts
  <2> PICK c : c = f.obj
    OBVIOUS
  <2>2. f.fn = "Ensure" /\ c \in DOMAIN heap
    BY <2>1, TopFacts DEF At, FrameOK, EnsureOK
  <2>3. ASSUME NEW g, Puts(t, g), g.fn = "Ensure", g.d = f.d, g.l = f.l, g.obj \in DOMAIN heap,
               IsResolved(c) => g.obj = c
        PROVE  Nests(t)
    <3>1. Heir(f, g)
      BY <2>2, <2>3 DEF Heir, Delegates, Owns
    <3> QED BY <2>3, <3>1 DEF Nests
  <2>4. CASE IsRetired(c) /\ Put(t, [f EXCEPT !.pc = "poll", !.obj = LookupClass(heap[c].d, heap[c].l)])
    <3> PICK new : new = LookupClass(heap[c].d, heap[c].l)
      OBVIOUS
    <3> PICK g : g = [f EXCEPT !.pc = "poll", !.obj = new]
      OBVIOUS
    <3>1. heap[c] \in Classes /\ ObjectOK(c)
      BY <2>2 DEF Consistent, Shape, ObjectsOK
    <3>2. Home(c) \in Keys /\ new = table[Home(c)]
      BY <3>1 DEF Home, Keys, Classes, LookupClass
    <3>3. new \in DOMAIN heap
      BY <3>1, <3>2, Start DEF ObjectOK, Shape
    <3>4. g.fn = f.fn /\ g.d = f.d /\ g.l = f.l /\ g.obj = new
      BY Fields
    <3>5. Puts(t, g) /\ ~IsResolved(c)
      BY <2>4 DEF Put, Puts, IsRetired, IsResolved
    <3> QED BY <2>2, <2>3, <3>3, <3>4, <3>5
  <2>5. CASE Goto(t, "poll")
    <3> PICK g : g = [f EXCEPT !.pc = "poll"]
      OBVIOUS
    <3>1. g.fn = f.fn /\ g.d = f.d /\ g.l = f.l /\ g.obj = c
      BY Fields
    <3>2. Puts(t, g)
      BY <2>5 DEF Goto, Put, Puts
    <3> QED BY <2>2, <2>3, <3>1, <3>2
  <2> QED BY <1>2, <2>4, <2>5 DEF EnsureTemp
<1> QED BY <1>1, <1>2

\* FindClass moves on without a new list of loaders, or with one it delegates to.
LEMMA FindMovesNest ==
    ASSUME NEW t, NEW f \in Frames, f = Top(t), f.fn = "Find", Delegates(f)
    PROVE  /\ \A pc : Goto(t, pc) /\ (pc \in {"search", "searched"} => pc = f.pc) => Nests(t)
           /\ stack' = [stack EXCEPT ![t] = <<[f EXCEPT !.pc = "done"]>> \o Tail(@)] => Nests(t)
           /\ \A todo : /\ GotoWith(t, "search", todo)
                        /\ \A n \in DOMAIN todo : Under(todo[n].at, f.l)
                        => Nests(t)
<1>1. ASSUME NEW pc, NEW g, g = [f EXCEPT !.pc = pc], Puts(t, g), pc \in {"search", "searched"} => pc = f.pc
      PROVE  Nests(t)
  <2>1. g.fn = f.fn /\ g.d = f.d /\ g.l = f.l /\ g.pc = pc /\ g.todo = f.todo
    BY <1>1, Fields
  <2>2. Delegates(g)
    BY <1>1, <2>1 DEF Delegates
  <2> QED BY <1>1, <2>1, <2>2, FindNests
<1>2. ASSUME NEW pc, Goto(t, pc), pc \in {"search", "searched"} => pc = f.pc PROVE Nests(t)
  <2> PICK g : g = [f EXCEPT !.pc = pc]
    OBVIOUS
  <2>1. Puts(t, g)
    BY <1>2 DEF Goto, Put, Puts
  <2> QED BY <1>1, <1>2, <2>1
<1>3. ASSUME stack' = [stack EXCEPT ![t] = <<[f EXCEPT !.pc = "done"]>> \o Tail(@)] PROVE Nests(t)
  <2> PICK g : g = [f EXCEPT !.pc = "done"]
    OBVIOUS
  <2>1. Puts(t, g)
    BY <1>3 DEF Puts
  <2> QED BY <1>1, <2>1
<1>4. ASSUME NEW todo, GotoWith(t, "search", todo), \A n \in DOMAIN todo : Under(todo[n].at, f.l)
      PROVE  Nests(t)
  <2> PICK g : g = [f EXCEPT !.pc = "search", !.todo = todo]
    OBVIOUS
  <2>1. g.fn = f.fn /\ g.d = f.d /\ g.l = f.l /\ g.todo = todo
    BY Fields
  <2>2. Puts(t, g)
    BY <1>4 DEF GotoWith, Put, Puts
  <2>3. Delegates(g)
    BY <1>4, <2>1 DEF Delegates
  <2> QED BY <2>1, <2>2, <2>3, FindNests
<1> QED BY <1>2, <1>3, <1>4

\* FindClass calls.
LEMMA FindCallsNest ==
    ASSUME Consistent, NEW t, NEW f \in Frames, f = Top(t), f.fn = "Find", Delegates(f),
           NEW l \in Loaders, Under(l, f.l), NEW pc, pc /= "search", pc = "searched" => f.pc = "search"
    PROVE  /\ \A g \in {FindFrame(f.d, l), DefineFrame(f.d, l), ArrayFrame(f.d, l)} :
                  Call(t, pc, g) => Nests(t)
           /\ table[<<f.d, l>>] /= 0 /\ Call(t, pc, EnsureFrame(table[<<f.d, l>>])) => Nests(t)
<1>1. ASSUME NEW g, Call(t, pc, g), Asks(g, f) PROVE Nests(t)
  BY <1>1, CallNests
<1>2. f.d \in Descriptors
  BY DEF Frames
<1>3. Asks(FindFrame(f.d, l), f) /\ Asks(DefineFrame(f.d, l), f) /\ Asks(ArrayFrame(f.d, l), f)
  BY <1>2, NewAsks
<1>4. table[<<f.d, l>>] /= 0 => Asks(EnsureFrame(table[<<f.d, l>>]), f)
  BY EnsureAsks
<1> QED BY <1>1, <1>3, <1>4

\* The loaders at the head of the list and after it.
LEMMA ListUnder ==
    ASSUME NEW f \in Frames, FindOK(f), f.fn = "Find", f.pc \in {"search", "searched"}, Delegates(f),
           f.todo /= <<>>
    PROVE  /\ VisitOK(Head(f.todo)) /\ Head(f.todo).at \in Loaders /\ Under(Head(f.todo).at, f.l)
           /\ \A n \in DOMAIN Tail(f.todo) : Tail(f.todo)[n].at \in Loaders /\ Under(Tail(f.todo)[n].at, f.l)
<1> PICK V : V = {e \in Entries : VisitOK(e) /\ Under(e.at, f.l)}
  OBVIOUS
<1> PICK s : s = f.todo
  OBVIOUS
<1>1. s \in Seq(Entries \union Descriptors \union Nat) /\ \A n \in DOMAIN s : VisitOK(s[n]) /\ Under(s[n].at, f.l)
  BY DEF Frames, FindOK, Delegates
<1>2. \A n \in 1..Len(s) : s[n] \in V
  BY <1>1 DEF VisitOK
<1>3. s \in Seq(V)
  BY <1>1, <1>2
<1>4. Head(s) \in V /\ Tail(s) \in Seq(V)
  BY <1>3
<1>5. \A n \in DOMAIN Tail(s) : Tail(s)[n] \in V
  BY <1>4
<1> QED BY <1>4, <1>5 DEF Entries

\* The steps of FindClass.
LEMMA FindStepNests ==
    ASSUME Consistent, Sound, NEW t \in Threads,
           \/ FindLookup(t) \/ FindDelegates(t) \/ FindSearch(t) \/ FindSearched(t) \/ FindJava(t)
           \/ FindLoaded(t) \/ FindRaised(t) \/ FindInsert(t) \/ FindDone(t)
    PROVE  Nests(t)
<1>1. \E pc : At(t, "Find", pc)
  BY DEF FindLookup, FindDelegates, FindSearch, FindSearched, FindJava, FindLoaded, FindRaised,
         FindInsert, FindDone
<1>2. stack[t] /= <<>> /\ Top(t).fn = "Find" /\ FindOK(Top(t))
  BY <1>1, FindFacts
<1> PICK f \in Frames : f = Top(t)
  BY <1>1, FindFacts
<1>3. /\ f.fn = "Find" /\ FindOK(f) /\ f.d \in Descriptors /\ f.l \in Loaders /\ Delegates(f)
      /\ Under(f.l, f.l) /\ <<f.d, f.l>> \in Keys
  BY <1>2, TopDelegates DEF Under, Keys
<1>4. CASE FindLookup(t)
  <2>1. ASSUME GotoWith(t, "search", <<Whole(f.l)>>) PROVE Nests(t)
    <3> PICK todo : todo = <<Whole(f.l)>>
      OBVIOUS
    <3>1. \A n \in DOMAIN todo : Under(todo[n].at, f.l)
      BY <1>3 DEF Whole
    <3> QED BY <1>3, <2>1, <3>1, FindMovesNest
  <2>2. ASSUME NEW pc \in {"done", "array"} PROVE
            /\ \A g \in {FindFrame(f.d, f.l), DefineFrame(f.d, f.l), ArrayFrame(f.d, f.l)} :
                  Call(t, pc, g) => Nests(t)
            /\ table[<<f.d, f.l>>] /= 0 /\ Call(t, pc, EnsureFrame(table[<<f.d, f.l>>])) => Nests(t)
    BY <1>3, FindCallsNest
  <2>3. stack' = [stack EXCEPT ![t] = <<[f EXCEPT !.pc = "done"]>> \o Tail(@)] => Nests(t)
    BY <1>3, FindMovesNest
  <2> QED BY <1>4, <2>1, <2>2, <2>3 DEF FindLookup, LookupClass
<1>5. CASE FindDelegates(t)
  <2>1. f.pc = "search" /\ f.todo /= <<>> /\ Head(f.todo).whole
    BY <1>5 DEF FindDelegates, At
  <2> PICK l \in Loaders : l = Head(f.todo).at
    BY <1>3, <2>1, ListUnder
  <2>2. l /= "boot" /\ Under(l, f.l) /\ \A n \in DOMAIN Tail(f.todo) : Tail(f.todo)[n].at \in Loaders /\ Under(Tail(f.todo)[n].at, f.l)
    BY <1>3, <2>1, ListUnder DEF VisitOK
  <2>3. ASSUME GotoWith(t, "search", VisitOrder(l) \o Tail(f.todo)) PROVE Nests(t)
    <3> PICK todo : todo = VisitOrder(l) \o Tail(f.todo)
      OBVIOUS
    <3> PICK v : v = VisitOrder(l)
      OBVIOUS
    <3> PICK r : r = Tail(f.todo)
      OBVIOUS
    <3>1. v \in Seq(Entries) /\ r \in Seq(Entries \union Descriptors \union Nat)
      BY <2>1, <2>2, VisitOrderOK DEF Frames
    <3>2. \A n \in DOMAIN v : Under(v[n].at, f.l)
      <4> TAKE n \in DOMAIN v
      <4>1. v[n].at \in Loaders /\ Under(v[n].at, l)
        BY <2>2, VisitOrderUnder
      <4> QED BY <1>3, <2>2, <4>1, UnderOrder
    <3>3. \A n \in DOMAIN todo : Under(todo[n].at, f.l)
      <4> PICK S : S = Entries \union Descriptors \union Nat
        OBVIOUS
      <4>1. v \in Seq(S) /\ r \in Seq(S)
        BY <3>1
      <4>2. AllUnder(v, f.l) /\ AllUnder(r, f.l)
        BY <2>2, <3>2 DEF AllUnder
      <4>3. AllUnder(v \o r, f.l)
        BY <4>1, <4>2, JoinedUnder
      <4> QED BY <4>3 DEF AllUnder
    <3> QED BY <1>3, <2>3, <3>3, FindMovesNest
  <2>4. \A pc \in {"java", "raised"} : Goto(t, pc) => Nests(t)
    BY <1>3, FindMovesNest
  <2> QED BY <1>5, <2>3, <2>4 DEF FindDelegates
<1>6. CASE FindSearch(t)
  <2>1. f.pc = "search"
    BY <1>6 DEF FindSearch, At
  <2>2. CASE f.todo = <<>>
    <3>1. Goto(t, "raised")
      BY <1>6, <2>2 DEF FindSearch
    <3> QED BY <1>3, <3>1, FindMovesNest
  <2>3. CASE f.todo /= <<>>
    <3> PICK l \in Loaders : l = Head(f.todo).at
      BY <1>3, <2>1, <2>3, ListUnder
    <3>1. Under(l, f.l) /\ \A n \in DOMAIN Tail(f.todo) : Under(Tail(f.todo)[n].at, f.l)
      BY <1>3, <2>1, <2>3, ListUnder
    <3> PICK pc : pc = "searched"
      OBVIOUS
    <3>2. /\ \A g \in {FindFrame(f.d, l), DefineFrame(f.d, l), ArrayFrame(f.d, l)} :
                  Call(t, pc, g) => Nests(t)
          /\ table[<<f.d, l>>] /= 0 /\ Call(t, pc, EnsureFrame(table[<<f.d, l>>])) => Nests(t)
      BY <1>3, <2>1, <3>1, FindCallsNest
    <3>3. GotoWith(t, "search", Tail(f.todo)) => Nests(t)
      BY <1>3, <3>1, FindMovesNest
    <3>4. Goto(t, "raised") => Nests(t)
      BY <1>3, FindMovesNest
    <3> QED BY <1>6, <2>3, <3>2, <3>3, <3>4 DEF FindSearch, LookupClass
  <2> QED BY <2>2, <2>3
<1>7. CASE FindSearched(t)
  <2>1. f.pc = "searched" /\ f.todo /= <<>>
    BY <1>3, <1>7 DEF FindSearched, At, FindOK
  <2>2. \A n \in DOMAIN Tail(f.todo) : Under(Tail(f.todo)[n].at, f.l)
    BY <1>3, <2>1, ListUnder
  <2>3. GotoWith(t, "search", Tail(f.todo)) => Nests(t)
    BY <1>3, <2>2, FindMovesNest
  <2>4. \A pc \in {"insert", "raised"} : Goto(t, pc) => Nests(t)
    BY <1>3, FindMovesNest
  <2> QED BY <1>7, <2>3, <2>4 DEF FindSearched
<1>8. CASE FindJava(t)
  <2>1. f.pc = "java" /\ f.l /= "boot"
    BY <1>3, <1>8 DEF FindJava, At, FindOK
  <2> PICK l \in Loaders : l = Parent[f.l]
    BY <1>3, DefineAssumption
  <2>2. Under(l, f.l)
    BY <1>3, <2>1, UnderOrder
  <2> PICK pc : pc = "loaded"
    OBVIOUS
  <2>3. Call(t, pc, FindFrame(f.d, l)) \/ Call(t, pc, DefineFrame(f.d, f.l)) => Nests(t)
    BY <1>3, <2>2, FindCallsNest
  <2>4. Goto(t, "raised") => Nests(t)
    BY <1>3, FindMovesNest
  <2>5. stack' = [stack EXCEPT ![t] = <<[f EXCEPT !.pc = "done"]>> \o Tail(@)] => Nests(t)
    BY <1>3, FindMovesNest
  <2> QED BY <1>8, <2>3, <2>4, <2>5 DEF FindJava
<1>9. CASE FindLoaded(t)
  BY <1>3, <1>9, FindMovesNest DEF FindLoaded
<1>10. CASE FindRaised(t) \/ FindInsert(t)
  <2> PICK pc : pc = "done"
    OBVIOUS
  <2>1. table[<<f.d, f.l>>] /= 0 /\ Call(t, pc, EnsureFrame(table[<<f.d, f.l>>])) => Nests(t)
    BY <1>3, FindCallsNest
  <2>2. stack' = [stack EXCEPT ![t] = <<[f EXCEPT !.pc = "done"]>> \o Tail(@)] => Nests(t)
    BY <1>3, FindMovesNest
  <2>3. Goto(t, pc) => Nests(t)
    BY <1>3, FindMovesNest
  <2> QED BY <1>10, <2>1, <2>2, <2>3 DEF FindRaised, FindInsert, LookupClass
<1>11. CASE FindDone(t)
  BY <1>11 DEF FindDone, Return, Nests, Pops
<1> QED BY <1>4, <1>5, <1>6, <1>7, <1>8, <1>9, <1>10, <1>11

\* The steps of DefineClass.
LEMMA DefineStepNests ==
    ASSUME Consistent, Sound, NEW t \in Threads,
           \/ DefineStart(t) \/ DefineRegister(t) \/ DefineInsert(t) \/ DefineLoad(t) \/ DefineParents(t)
           \/ DefineParent(t) \/ DefineLink(t) \/ DefineRetire(t) \/ DefineResolve(t)
    PROVE  Nests(t)
<1>1. \E pc : At(t, "Define", pc)
  BY DEF DefineStart, DefineRegister, DefineInsert, DefineLoad, DefineParents, DefineParent, DefineLink,
         DefineRetire, DefineResolve
<1>2. stack[t] /= <<>> /\ Top(t).fn = "Define" /\ DefineOK(t, Top(t))
  BY <1>1, DefineFacts
<1> PICK f \in Frames : f = Top(t)
  BY <1>1, DefineFacts
<1>3. /\ f.fn = "Define" /\ DefineOK(t, f) /\ f.d \in Descriptors /\ f.l \in Loaders /\ Delegates(f)
      /\ <<f.d, f.l>> \in Keys
  BY <1>2, TopDelegates DEF Keys
<1>4. \A c : Return(t, c) => Nests(t)
  BY DEF Return, Nests, Pops
<1>5. \A what : DefineFails(t, what) => Nests(t)
  BY <1>4 DEF DefineFails
<1>6. ASSUME NEW g, Put(t, g), g.fn = f.fn, g.d = f.d, g.l = f.l, Owns(g) => Owns(f) /\ g.obj = f.obj
      PROVE  Nests(t)
  BY <1>3, <1>6, DefineNests DEF Put, Puts
<1>7. ASSUME NEW pc, Owns(f) \/ pc \in {"register", "insert"}
      PROVE  /\ \A todo : GotoWith(t, pc, todo) => Nests(t)
             /\ Goto(t, pc) => Nests(t)
             /\ \A cache : Put(t, [f EXCEPT !.pc = pc, !.cache = cache]) => Nests(t)
  <2>1. ASSUME NEW todo, GotoWith(t, pc, todo) PROVE Nests(t)
    <3> PICK g : g = [f EXCEPT !.pc = pc, !.todo = todo]
      OBVIOUS
    <3>1. g.fn = f.fn /\ g.d = f.d /\ g.l = f.l /\ g.obj = f.obj /\ g.pc = pc
      BY Fields
    <3>2. Owns(g) => Owns(f)
      BY <1>3, <1>7, <3>1 DEF Owns
    <3>3. Put(t, g)
      BY <2>1 DEF GotoWith
    <3> QED BY <1>6, <3>1, <3>2, <3>3
  <2>2. ASSUME Goto(t, pc) PROVE Nests(t)
    <3> PICK g : g = [f EXCEPT !.pc = pc]
      OBVIOUS
    <3>1. g.fn = f.fn /\ g.d = f.d /\ g.l = f.l /\ g.obj = f.obj /\ g.pc = pc
      BY Fields
    <3>2. Owns(g) => Owns(f)
      BY <1>3, <1>7, <3>1 DEF Owns
    <3>3. Put(t, g)
      BY <2>2 DEF Goto
    <3> QED BY <1>6, <3>1, <3>2, <3>3
  <2>3. ASSUME NEW cache, Put(t, [f EXCEPT !.pc = pc, !.cache = cache]) PROVE Nests(t)
    <3> PICK g : g = [f EXCEPT !.pc = pc, !.cache = cache]
      OBVIOUS
    <3>1. g.fn = f.fn /\ g.d = f.d /\ g.l = f.l /\ g.obj = f.obj /\ g.pc = pc
      BY Fields
    <3>2. Owns(g) => Owns(f)
      BY <1>3, <1>7, <3>1 DEF Owns
    <3>3. Put(t, g)
      BY <2>3
    <3> QED BY <1>6, <3>1, <3>2, <3>3
  <2> QED BY <2>1, <2>2, <2>3
<1>8. CASE DefineStart(t)
  BY <1>4, <1>7, <1>8 DEF DefineStart
<1>9. CASE DefineRegister(t)
  BY <1>4, <1>7, <1>9 DEF DefineRegister
<1>10. CASE DefineInsert(t)
  <2> PICK c : c = table[<<f.d, f.l>>]
    OBVIOUS
  <2>1. CASE c /= 0 /\ TailCall(t, EnsureFrame(c))
    <3> PICK g : g = EnsureFrame(c)
      OBVIOUS
    <3> PICK k \in Keys : k = <<f.d, f.l>>
      BY <1>3
    <3>1. k[1] = f.d /\ k[2] = f.l /\ c = table[k] /\ c \in DOMAIN heap
      BY <2>1, Start DEF Shape
    <3>2. heap[c].d = f.d /\ (heap[c].l = f.l \/ IsResolved(c))
      BY <2>1, <3>1 DEF Consistent, EntriesOK, EntryOK
    <3>3. g.fn = "Ensure" /\ g.obj = c /\ g.d = heap[c].d /\ g.l = heap[c].l
      BY NewFields
    <3>4. Heir(f, g)
      BY <1>3, <3>1, <3>2, <3>3 DEF Heir, Delegates, Owns
    <3>5. Puts(t, g)
      BY <2>1 DEF TailCall, Put, Puts
    <3> QED BY <3>4, <3>5 DEF Nests
  <2>2. CASE Put(t, [f EXCEPT !.pc = "load", !.obj = Len(heap) + 1])
    <3> PICK new : new = Len(heap) + 1
      OBVIOUS
    <3> PICK g : g = [f EXCEPT !.pc = "load", !.obj = new]
      OBVIOUS
    <3>1. g.fn = f.fn /\ g.d = f.d /\ g.l = f.l /\ g.obj = new
      BY Fields
    <3>2. new \notin DOMAIN heap
      BY Start
    <3>3. Puts(t, g)
      BY <2>2 DEF Put, Puts
    <3> QED BY <1>3, <3>1, <3>2, <3>3, DefineNests
  <2> QED BY <1>10, <2>1, <2>2 DEF DefineInsert, LookupClass
<1>11. ASSUME NEW pc \in {"load", "parents", "parent", "link", "retire", "resolve"}, At(t, "Define", pc)
       PROVE  Owns(f) /\ f.pc = pc
  BY <1>11 DEF At, Owns
<1>12. CASE DefineLoad(t)
  BY <1>5, <1>7, <1>11, <1>12 DEF DefineLoad
<1>13. CASE DefineParents(t)
  <2>1. Owns(f) /\ f.pc = "parents"
    BY <1>11, <1>13 DEF DefineParents
  <2>2. f.todo /= <<>> => Head(f.todo) \in Descriptors \ Arrays
    <3>1. f.todo \in Seq(Descriptors \ Arrays)
      BY <1>3, <2>1 DEF DefineOK
    <3> QED BY <3>1
  <2>3. ASSUME f.todo /= <<>>, Call(t, "parent", FindFrame(Head(f.todo), f.l)) PROVE Nests(t)
    <3> PICK g : g = FindFrame(Head(f.todo), f.l)
      OBVIOUS
    <3> PICK pc : pc = "parent"
      OBVIOUS
    <3>1. Asks(g, f)
      BY <1>3, <2>2, <2>3, NewAsks DEF Under
    <3> QED BY <1>3, <2>1, <2>3, <3>1, CallNests
  <2> QED BY <1>5, <1>7, <1>13, <2>1, <2>3 DEF DefineParents
<1>14. CASE DefineParent(t)
  BY <1>5, <1>7, <1>11, <1>14 DEF DefineParent
<1>15. CASE DefineLink(t)
  BY <1>4, <1>5, <1>7, <1>11, <1>15 DEF DefineLink
<1>16. CASE DefineRetire(t)
  BY <1>7, <1>11, <1>16 DEF DefineRetire
<1>17. CASE DefineResolve(t)
  BY <1>4, <1>17 DEF DefineResolve
<1> QED BY <1>8, <1>9, <1>10, <1>12, <1>13, <1>14, <1>15, <1>16, <1>17

\* The steps of CreateArrayClass.
LEMMA ArrayStepNests ==
    ASSUME Consistent, Sound, NEW t \in Threads, ArrayComponent(t) \/ ArrayCreate(t)
    PROVE  Nests(t)
<1>1. CASE ArrayCreate(t)
  BY <1>1 DEF ArrayCreate, Return, Nests, Pops
<1>2. CASE ArrayComponent(t)
  <2>1. At(t, "Array", "component")
    BY <1>2 DEF ArrayComponent
  <2>2. stack[t] /= <<>> /\ Top(t).fn = "Array" /\ Top(t).d \in Arrays /\ Component[Top(t).d] \in Descriptors
    BY <2>1, ArrayFacts
  <2> PICK f \in Frames : f = Top(t)
    BY <2>1, ArrayFacts
  <2>3. Delegates(f) /\ f.l \in Loaders
    BY <2>2, TopDelegates
  <2> PICK g : g = FindFrame(Component[f.d], f.l)
    OBVIOUS
  <2>4. Asks(g, f)
    BY <2>2, <2>3, NewAsks DEF Under
  <2> PICK pc : pc = "create"
    OBVIOUS
  <2>5. Call(t, pc, g)
    BY <1>2 DEF ArrayComponent
  <2> QED BY <2>2, <2>3, <2>4, <2>5, CallNests
<1> QED BY <1>1, <1>2

\* Every step keeps the calls of its thread nested.
LEMMA StepNests ==
    ASSUME Consistent, Consistent', Sound, NEW t \in Threads, Step(t)
    PROVE  stack[t] /= <<>> /\ Nests(t) /\ Nested(stack[t])'
<1>1. Nests(t)
  BY EnsureStepNests, FindStepNests, DefineStepNests, ArrayStepNests DEF Step
<1>2. stack[t] /= <<>>
  BY DEF Step, EnsureTemp, EnsurePoll, FindLookup, FindDelegates, FindSearch, FindSearched, FindJava,
         FindLoaded, FindRaised, FindInsert, FindDone, DefineStart, DefineRegister, DefineInsert,
         DefineLoad, DefineParents, DefineParent, DefineLink, DefineRetire, DefineResolve,
         ArrayComponent, ArrayCreate, At
<1>3. Nested(stack[t])
  BY <1>2, TopDelegates
<1> QED BY <1>1, <1>2, <1>3, StepSettles, NestsKept

----------------------------------------------------------------------------
\* Which exception is pending after a step.

\* After the innermost frame was replaced.
LEMMA PutEnds ==
    ASSUME Consistent, Consistent', NEW t \in Threads, stack[t] /= <<>>, NEW g, Puts(t, g),
           NEW e, e = exc'[t], NEW r, r = ret'[t],
           \/ g.fn = "Find" /\ g.pc = "search" /\ (e = "none" \/ Broken(g.d, "boot")')
           \/ g.fn = "Find" /\ g.pc = "raised" /\ e /= "none"
           \/ g.fn = "Find" /\ g.pc = "insert" /\ r /= 0 /\ e = "none"
           \/ g.fn = "Find" /\ g.pc = "done" /\ (r /= 0 <=> e = "none")
           \/ g.fn = "Find" /\ g.pc = "java" /\ e = "none"
           \/ g.fn = "Define" /\ g.pc \notin {"start", "parent"} /\ e = "none"
           \/ g.fn = "Ensure" /\ e = "none"
           \/ /\ g.fn = "Ensure" /\ g.obj = Top(t).obj /\ Top(t).fn = "Ensure"
              /\ UNCHANGED <<heap, table, exc>> /\ ExcOK(t, Top(t))
    PROVE  EndOK(t)'
<1> PICK s2 : s2 = stack'[t]
  OBVIOUS
<1>1. /\ s2 /= <<>> /\ Head(s2) = g /\ g \in Frames /\ Len(s2) = Len(stack[t])
      /\ \A i \in 2..Len(s2) : s2[i] = stack[t][i]
  BY PutStack
<1>2. CASE e = "none" \/ g.fn = "Find"
  <2>1. ExcOK(t, g)'
    BY <1>2 DEF ExcOK, Clear, Waits
  <2> QED BY <1>1, <2>1 DEF EndOK, Top
<1>3. CASE e /= "none" /\ g.fn = "Ensure"
  <2>1. IsErroneousUnresolved(g.obj) /\ PassedBoot(stack[t])
    BY <1>3 DEF ExcOK
  <2>2. Len(s2) > 1 /\ s2[2] = stack[t][2]
    <3>1. Len(s2) > 1 /\ Len(s2) \in Nat
      BY <1>1, <2>1, TopFacts DEF PassedBoot
    <3> QED BY <1>1, <3>1
  <2> PICK k : k = s2[2]
    OBVIOUS
  <2>3. k.fn = "Find" /\ k.pc = "searched" /\ Broken(k.d, "boot")
    BY <2>1, <2>2 DEF PassedBoot
  <2>4. UNCHANGED <<heap, table>>
    BY <1>3
  <2>5. Broken(k.d, "boot")' /\ IsErroneousUnresolved(g.obj)'
    BY <2>1, <2>3, <2>4 DEF Broken, IsErroneousUnresolved
  <2>6. PassedBoot(stack[t])'
    BY <2>2, <2>3, <2>5 DEF PassedBoot
  <2>7. ExcOK(t, g)'
    BY <1>3, <2>5, <2>6 DEF ExcOK, Clear, Waits
  <2> QED BY <1>1, <2>7 DEF EndOK, Top
<1> QED BY <1>2, <1>3

\* After a call.
LEMMA CallEnds ==
    ASSUME Consistent, Consistent', NEW t \in Threads, stack[t] /= <<>>, NEW g, NEW h, Pushes(t, g, h),
           NEW e, e = exc'[t],
           \/ g.fn = "Find" /\ g.pc = "lookup" /\ e = "none"
           \/ g.fn = "Define" /\ g.pc = "start" /\ e = "none"
           \/ g.fn = "Array" /\ g.pc = "component" /\ e = "none"
           \/ g.fn = "Ensure" /\ e = "none"
           \/ /\ h.fn = "Find" /\ h.pc = "searched" /\ Broken(h.d, "boot")'
              /\ \/ g.fn = "Define" /\ g.pc = "start"
                 \/ g.fn = "Ensure" /\ IsErroneousUnresolved(g.obj)'
    PROVE  EndOK(t)'
<1> PICK s2 : s2 = stack'[t]
  OBVIOUS
<1>1. s2 /= <<>> /\ Head(s2) = g /\ g \in Frames /\ h = s2[2] /\ Len(s2) > 1
  BY CallStack
<1>2. CASE e = "none"
  <2>1. ExcOK(t, g)'
    BY <1>2 DEF ExcOK, Clear, Waits
  <2> QED BY <1>1, <2>1 DEF EndOK, Top
<1>3. CASE e /= "none"
  <2>1. PassedBoot(stack[t])'
    BY <1>1, <1>3 DEF PassedBoot
  <2>2. ExcOK(t, g)'
    BY <1>3, <2>1 DEF ExcOK, Clear, Waits
  <2> QED BY <1>1, <2>2 DEF EndOK, Top
<1> QED BY <1>2, <1>3

\* After a return.
LEMMA ReturnEnds ==
    ASSUME Consistent, Consistent', NEW t \in Threads, stack[t] /= <<>>, NEW c, Return(t, c),
           NEW e, e = exc'[t], c /= 0 <=> e = "none",
           ASSUME NEW h \in Frames, Len(stack[t]) > 1, h = stack[t][2], h.fn = "Find", h.pc = "searched"
           PROVE  e = "none" \/ Head(h.todo).stop \/ Broken(h.d, "boot")'
    PROVE  EndOK(t)'
<1>1. Pops(t) /\ ret'[t] = c
  BY DEF Return, Pops, Consistent, Shape
<1> PICK s2 : s2 = stack'[t]
  OBVIOUS
<1>2. s2 = <<>> \/ (Head(s2) = stack[t][2] /\ Len(stack[t]) > 1)
  BY <1>1, ReturnStack
<1>3. CASE s2 = <<>>
  BY <1>1, <1>3 DEF EndOK
<1>4. CASE s2 /= <<>>
  <2> PICK h \in Frames : h = stack[t][2] /\ Waits(h)
    BY <1>2, <1>4, TopFacts
  <2>1. h.fn = "Find" /\ h.pc = "searched" => e = "none" \/ Head(h.todo).stop \/ Broken(h.d, "boot")'
    BY <1>2, <1>4
  <2>2. ExcOK(t, h)'
    BY <1>1, <2>1 DEF ExcOK, Clear, Waits
  <2> QED BY <1>2, <1>4, <2>2 DEF EndOK, Top
<1> QED BY <1>3, <1>4

\* A search that would go on in spite of an exception has asked the boot class path.
LEMMA SearchedAtBoot ==
    ASSUME Consistent, NEW t \in Threads, stack[t] /= <<>>, NEW f, f = Top(t), f.fn \in {"Define", "Ensure"},
           NEW h \in Frames, Len(stack[t]) > 1, h = stack[t][2], h.fn = "Find", h.pc = "searched",
           ~Head(h.todo).stop
    PROVE  h.d = f.d /\ (f.l = "boot" \/ (f.fn = "Ensure" /\ IsResolved(f.obj)))
<1>1. FrameOK(t, h) /\ CallOK(f, h)
  BY TopFacts
<1>2. h.todo /= <<>> /\ ~Head(h.todo).whole /\ \A i \in DOMAIN h.todo : VisitOK(h.todo[i])
  BY <1>1 DEF FrameOK, FindOK
<1>3. VisitOK(Head(h.todo))
  <2> PICK s : s = h.todo
    OBVIOUS
  <2>1. s \in Seq(Entries \union Descriptors \union Nat) /\ s /= <<>>
    BY <1>2 DEF Frames
  <2>2. Head(s) = s[1] /\ 1 \in DOMAIN s
    BY <2>1
  <2> QED BY <1>2, <2>2
<1>4. Head(h.todo).at = "boot"
  BY <1>2, <1>3 DEF VisitOK
<1>5. Answers(f, h.d, "boot")
  BY <1>1, <1>4 DEF CallOK
<1> QED BY <1>5 DEF Answers, Current

\* DefineClass returns nullptr, with an exception.
LEMMA DefineReturnsNull ==
    ASSUME Consistent, Consistent', NEW t \in Threads, stack[t] /= <<>>, NEW f, f = Top(t), f.fn = "Define",
           Return(t, 0), exc'[t] /= "none", f.l = "boot" => Broken(f.d, "boot")'
    PROVE  EndOK(t)'
<1> PICK e : e = exc'[t]
  OBVIOUS
<1> PICK c : c = 0
  OBVIOUS
<1>1. Return(t, c) /\ (c /= 0 <=> e = "none")
  OBVIOUS
<1>2. ASSUME NEW h \in Frames, Len(stack[t]) > 1, h = stack[t][2], h.fn = "Find", h.pc = "searched",
             ~Head(h.todo).stop
      PROVE  Broken(h.d, "boot")'
  BY <1>2, SearchedAtBoot
<1> QED BY <1>1, <1>2, ReturnEnds

\* DefineClass fails.
LEMMA FailsEnds ==
    ASSUME Consistent, Consistent', NEW t \in Threads,
           NEW pc \in {"load", "parents", "parent", "link"}, At(t, "Define", pc),
           NEW what \in Exceptions, DefineFails(t, what), NEW f, f = Top(t)
    PROVE  /\ EndOK(t)' /\ exc'[t] = what /\ Return(t, 0)
           /\ table'[<<f.d, f.l>>] = f.obj /\ IsErroneousUnresolved(f.obj)'
           /\ f.obj \in DOMAIN heap /\ UNCHANGED table
           /\ \A b \in DOMAIN heap : b /= f.obj => heap'[b] = heap[b]
<1>1. stack[t] /= <<>> /\ f.fn = "Define" /\ DefineOK(t, f) /\ Owns(f) /\ Working(f)
  BY DefineFacts DEF Owns, Working
<1>2. f.obj \in DOMAIN heap /\ table[<<f.d, f.l>>] = f.obj /\ f.obj /= 0
  BY <1>1, Start DEF DefineOK, MadeFor
<1>3. exc'[t] = what /\ Return(t, 0) /\ UNCHANGED table /\ what /= "none"
  BY DEF DefineFails, Throw, Consistent, Shape, Exceptions
<1>4. IsErroneousUnresolved(f.obj)' /\ \A b \in DOMAIN heap : b /= f.obj => heap'[b] = heap[b]
  <2>1. CASE heap' = heap /\ IsErroneousUnresolved(f.obj)
    BY <2>1 DEF IsErroneousUnresolved
  <2>2. CASE heap' = Failed(f.obj, what)
    <3>1. heap \in Seq(Classes) /\ heap[f.obj] \in Classes
      BY <1>2 DEF Consistent, Shape
    <3>2. Changes(f.obj, "kErrorUnresolved")
      BY <1>2, <2>2, <3>1, FailedSet
    <3> QED BY <3>2 DEF Changes, IsErroneousUnresolved
  <2> QED BY <2>1, <2>2 DEF DefineFails
<1>5. f.l = "boot" => Broken(f.d, "boot")'
  BY <1>2, <1>3, <1>4 DEF Broken
<1>6. EndOK(t)'
  BY <1>1, <1>3, <1>5, DefineReturnsNull
<1> QED BY <1>2, <1>3, <1>4, <1>6

\* EnsureResolved ends with a class or an exception.
LEMMA EnsureStepEnds ==
    ASSUME Consistent, Consistent', Sound, NEW t \in Threads, EnsureTemp(t) \/ EnsurePoll(t)
    PROVE  EndOK(t)'
<1>1. stack[t] /= <<>> /\ Top(t).fn = "Ensure" /\ UNCHANGED table
  BY DEF EnsureTemp, EnsurePoll, At
<1> PICK f \in Frames : f = Top(t)
  BY <1>1, TopFacts
<1> PICK c : c = f.obj
  OBVIOUS
<1>5. f.fn = "Ensure" /\ EnsureOK(t, f)
  BY <1>1, TopFacts DEF FrameOK
<1>6. ExcOK(t, f)
  BY <1>1, TopDelegates
<1>7. c \in DOMAIN heap /\ heap[c].d = f.d
  BY <1>5 DEF EnsureOK
<1>2. f.fn = "Ensure" /\ c \in DOMAIN heap /\ EnsureOK(t, f) /\ ExcOK(t, f) /\ heap[c].d = f.d /\ c /= 0
  BY <1>5, <1>6, <1>7, Start
<1>3. CASE EnsureTemp(t)
  <2>1. CASE IsRetired(c) /\ Put(t, [f EXCEPT !.pc = "poll", !.obj = LookupClass(heap[c].d, heap[c].l)])
    <3> PICK g : g = [f EXCEPT !.pc = "poll", !.obj = LookupClass(heap[c].d, heap[c].l)]
      OBVIOUS
    <3>1. g.fn = "Ensure" /\ Puts(t, g)
      BY <1>2, <2>1, Fields DEF Put, Puts
    <3>2. exc[t] = "none" /\ UNCHANGED exc
      BY <1>2, <1>3, <2>1 DEF ExcOK, IsRetired, IsErroneousUnresolved, EnsureTemp
    <3> QED BY <1>1, <3>1, <3>2, PutEnds
  <2>2. CASE Goto(t, "poll")
    <3> PICK g : g = [f EXCEPT !.pc = "poll"]
      OBVIOUS
    <3>1. g.fn = "Ensure" /\ Puts(t, g) /\ g.obj = f.obj
      BY <1>2, <2>2, Fields DEF Goto, Put, Puts
    <3>2. UNCHANGED <<heap, table, exc>>
      BY <1>3 DEF EnsureTemp
    <3> QED BY <1>1, <1>2, <3>1, <3>2, PutEnds
  <2> QED BY <1>3, <2>1, <2>2 DEF EnsureTemp
<1>4. CASE EnsurePoll(t)
  <2>1. f.pc = "poll" /\ ~At(t, "Define", "retire")
    BY <1>4, <1>1 DEF EnsurePoll, At
  <2>2. ASSUME ~IsResolved(c), ~IsRetired(c), NEW h \in Frames, h.d = f.d, f.l = "boot", ~IsTemp(c) \/ heap[c].tid = t
        PROVE  table[<<h.d, "boot">>] = c
    <3>1. ObjectOK(c) /\ Home(c) = <<h.d, "boot">>
      BY <1>2, <2>2 DEF Consistent, ObjectsOK, EnsureOK, Current, Home
    <3>2. ~BeingReplaced(c)
      <4> SUFFICES ASSUME BeingReplaced(c) PROVE FALSE
        OBVIOUS
      <4> PICK u \in Threads : u = heap[c].tid
        BY DEF BeingReplaced
      <4>1. At(u, "Define", "retire") /\ Top(u).obj = c
        BY DEF BeingReplaced
      <4>2. DefineOK(u, Top(u)) /\ Top(u).fn = "Define" /\ Top(u).pc = "retire"
        BY <4>1, DefineFacts
      <4>3. IsTemp(c)
        BY <4>1, <4>2 DEF DefineOK
      <4> QED BY <2>1, <2>2, <4>1, <4>3
    <3> QED BY <2>2, <3>1, <3>2 DEF ObjectOK
  <2>3. CASE IsResolved(c) /\ Return(t, c) /\ UNCHANGED exc
    <3>1. exc'[t] = "none"
      BY <1>2, <2>3 DEF ExcOK, IsResolved, IsErroneousUnresolved
    <3> QED BY <1>1, <1>2, <2>3, <3>1, ReturnEnds
  <2>4. CASE IsErroneousUnresolved(c) /\ Throw(t, heap[c].err) /\ Return(t, 0) /\ UNCHANGED heap
    <3>1. exc'[t] /= "none"
      BY <1>2, <2>4, Start DEF Sound, ErrorsOK, Throw, Shape
    <3>2. ~IsResolved(c) /\ ~IsRetired(c) /\ ~IsTemp(c)
      BY <2>4 DEF IsResolved, IsRetired, IsTemp, IsErroneousUnresolved
    <3>3. ASSUME NEW h \in Frames, Len(stack[t]) > 1, h = stack[t][2], h.fn = "Find", h.pc = "searched",
                 ~Head(h.todo).stop
          PROVE  Broken(h.d, "boot")'
      <4>1. h.d = f.d /\ f.l = "boot"
        BY <1>1, <1>2, <3>2, <3>3, SearchedAtBoot
      <4>2. table[<<h.d, "boot">>] = c
        BY <2>2, <3>2, <4>1
      <4> QED BY <1>1, <1>2, <2>4, <4>2 DEF Broken, IsErroneousUnresolved
    <3> PICK e : e = exc'[t]
      OBVIOUS
    <3> PICK r : r = 0
      OBVIOUS
    <3>4. Return(t, r) /\ (r /= 0 <=> e = "none")
      BY <2>4, <3>1
    <3> QED BY <1>1, <3>3, <3>4, ReturnEnds
  <2>5. CASE /\ ~IsResolved(c) /\ ~IsErroneousUnresolved(c) /\ heap[c].tid = t
             /\ Throw(t, "ClassCircularityError") /\ heap' = Failed(c, "ClassCircularityError")
             /\ Return(t, 0)
    <3>1. exc'[t] /= "none"
      BY <2>5, Start DEF Throw, Shape
    <3>2. ~IsRetired(c)
      BY <1>2, <2>1, <2>5 DEF EnsureOK
    <3>3. IsErroneousUnresolved(c)'
      <4> PICK e \in Exceptions : e = "ClassCircularityError"
        BY DEF Exceptions
      <4>1. heap \in Seq(Classes) /\ heap[c] \in Classes /\ heap' = Failed(c, e)
        BY <1>2, <2>5 DEF Consistent, Shape
      <4>2. Changes(c, "kErrorUnresolved")
        BY <1>2, <4>1, FailedSet
      <4> QED BY <4>2 DEF Changes, IsErroneousUnresolved
    <3>4. ASSUME NEW h \in Frames, Len(stack[t]) > 1, h = stack[t][2], h.fn = "Find", h.pc = "searched",
                 ~Head(h.todo).stop
          PROVE  Broken(h.d, "boot")'
      <4>1. h.d = f.d /\ f.l = "boot"
        BY <1>1, <1>2, <2>5, <3>4, SearchedAtBoot
      <4>2. table[<<h.d, "boot">>] = c
        BY <2>2, <2>5, <3>2, <4>1
      <4> QED BY <1>1, <1>2, <3>3, <4>2 DEF Broken
    <3> PICK e : e = exc'[t]
      OBVIOUS
    <3> PICK r : r = 0
      OBVIOUS
    <3>5. Return(t, r) /\ (r /= 0 <=> e = "none")
      BY <2>5, <3>1
    <3> QED BY <1>1, <3>4, <3>5, ReturnEnds
  <2> QED BY <1>4, <2>3, <2>4, <2>5 DEF EnsurePoll
<1> QED BY <1>3, <1>4

\* FindClass goes on or gives up.
LEMMA FindGoesEnds ==
    ASSUME Consistent, Consistent', NEW t \in Threads, stack[t] /= <<>>, NEW f \in Frames, f = Top(t),
           f.fn = "Find"
    PROVE  /\ \A todo : /\ GotoWith(t, "search", todo) \/ Goto(t, "search")
                        /\ exc'[t] = "none" \/ Broken(f.d, "boot")'
                        => EndOK(t)'
           /\ Goto(t, "raised") /\ exc'[t] /= "none" => EndOK(t)'
           /\ Goto(t, "insert") /\ ret'[t] /= 0 /\ exc'[t] = "none" => EndOK(t)'
           /\ Goto(t, "java") /\ exc'[t] = "none" => EndOK(t)'
           /\ Goto(t, "done") /\ ret'[t] /= 0 /\ exc'[t] = "none" => EndOK(t)'
           /\ /\ stack' = [stack EXCEPT ![t] = <<[f EXCEPT !.pc = "done"]>> \o Tail(@)]
              /\ ret' = [ret EXCEPT ![t] = 0] /\ exc'[t] /= "none"
              => EndOK(t)'
<1> PICK e : e = exc'[t]
  OBVIOUS
<1> PICK r : r = ret'[t]
  OBVIOUS
<1>1. ASSUME NEW g, Puts(t, g), g.fn = "Find",
             \/ g.pc = "search" /\ (e = "none" \/ Broken(g.d, "boot")')
             \/ g.pc = "raised" /\ e /= "none"
             \/ g.pc = "insert" /\ r /= 0 /\ e = "none"
             \/ g.pc = "done" /\ (r /= 0 <=> e = "none")
             \/ g.pc = "java" /\ e = "none"
      PROVE  EndOK(t)'
  BY <1>1, PutEnds
<1>2. ASSUME NEW todo, GotoWith(t, "search", todo), e = "none" \/ Broken(f.d, "boot")' PROVE EndOK(t)'
  <2> PICK g : g = [f EXCEPT !.pc = "search", !.todo = todo]
    OBVIOUS
  <2>1. Puts(t, g) /\ g.fn = "Find" /\ g.pc = "search" /\ g.d = f.d
    BY <1>2, Fields DEF GotoWith, Put, Puts
  <2> QED BY <1>1, <1>2, <2>1
<1>3. ASSUME NEW pc, Goto(t, pc),
             \/ pc = "search" /\ (e = "none" \/ Broken(f.d, "boot")')
             \/ pc = "raised" /\ e /= "none"
             \/ pc = "insert" /\ r /= 0 /\ e = "none"
             \/ pc = "done" /\ r /= 0 /\ e = "none"
             \/ pc = "java" /\ e = "none"
      PROVE  EndOK(t)'
  <2> PICK g : g = [f EXCEPT !.pc = pc]
    OBVIOUS
  <2>1. Puts(t, g) /\ g.fn = "Find" /\ g.pc = pc /\ g.d = f.d
    BY <1>3, Fields DEF Goto, Put, Puts
  <2> QED BY <1>1, <1>3, <2>1
<1>4. ASSUME stack' = [stack EXCEPT ![t] = <<[f EXCEPT !.pc = "done"]>> \o Tail(@)],
             ret' = [ret EXCEPT ![t] = 0], e /= "none"
      PROVE EndOK(t)'
  <2> PICK g : g = [f EXCEPT !.pc = "done"]
    OBVIOUS
  <2>1. Puts(t, g) /\ g.fn = "Find" /\ g.pc = "done"
    BY <1>4, Fields DEF Puts
  <2>2. r = 0
    BY <1>4, Start DEF Shape
  <2> QED BY <1>1, <1>4, <2>1, <2>2
<1> QED BY <1>2, <1>3, <1>4

\* FindClass, or another frame, calls with no exception pending.
LEMMA CallsClear ==
    ASSUME Consistent, Consistent', NEW t \in Threads, stack[t] /= <<>>, NEW pc, exc'[t] = "none"
    PROVE  \A d, l, c : /\ Call(t, pc, FindFrame(d, l)) => EndOK(t)'
                        /\ Call(t, pc, DefineFrame(d, l)) => EndOK(t)'
                        /\ Call(t, pc, ArrayFrame(d, l)) => EndOK(t)'
                        /\ Call(t, pc, EnsureFrame(c)) => EndOK(t)'
<1> PICK h : h = [Top(t) EXCEPT !.pc = pc]
  OBVIOUS
<1>1. ASSUME NEW g, Call(t, pc, g),
             \/ g.fn = "Find" /\ g.pc = "lookup"
             \/ g.fn = "Define" /\ g.pc = "start"
             \/ g.fn = "Array" /\ g.pc = "component"
             \/ g.fn = "Ensure"
      PROVE  EndOK(t)'
  <2>1. Pushes(t, g, h)
    BY <1>1 DEF Call, Pushes
  <2> QED BY <1>1, <2>1, CallEnds
<1> QED BY <1>1, NewFields

\* The steps of FindClass.
LEMMA FindStepEnds ==
    ASSUME Consistent, Consistent', Sound, NEW t \in Threads,
           \/ FindLookup(t) \/ FindDelegates(t) \/ FindSearched(t) \/ FindJava(t)
           \/ FindLoaded(t) \/ FindRaised(t) \/ FindInsert(t) \/ FindDone(t)
    PROVE  EndOK(t)'
<1>1. \E pc : At(t, "Find", pc)
  BY DEF FindLookup, FindDelegates, FindSearched, FindJava, FindLoaded, FindRaised, FindInsert, FindDone
<1>2. stack[t] /= <<>> /\ Top(t).fn = "Find"
  BY <1>1, FindFacts
<1> PICK f \in Frames : f = Top(t)
  BY <1>1, FindFacts
<1>3. f.fn = "Find" /\ ExcOK(t, f) /\ f.d \in Descriptors
  BY <1>2, TopDelegates
<1>4. /\ \A what : Throw(t, what) => exc'[t] = what
      /\ UNCHANGED exc => exc'[t] = exc[t]
      /\ \A pc, todo : Goto(t, pc) \/ GotoWith(t, pc, todo) => ret'[t] = ret[t]
  BY Start DEF Throw, Shape, Goto, GotoWith, Put
<1>5. UNCHANGED <<heap, table>> /\ Broken(f.d, "boot") => Broken(f.d, "boot")'
  BY DEF Broken, IsErroneousUnresolved
<1>6. CASE FindLookup(t)
  <2>1. exc[t] = "none"
    BY <1>3, <1>6 DEF ExcOK, Clear, FindLookup, At
  <2> QED BY <1>2, <1>3, <1>4, <1>6, <2>1, FindGoesEnds, CallsClear DEF FindLookup
<1>7. CASE FindDelegates(t)
  <2>1. exc[t] = "none" \/ Broken(f.d, "boot")
    BY <1>3, <1>7 DEF ExcOK, FindDelegates, At
  <2> QED BY <1>2, <1>3, <1>4, <1>5, <1>7, <2>1, FindGoesEnds DEF FindDelegates
<1>8. CASE FindSearched(t)
  <2>1. /\ ret[t] /= 0 <=> exc[t] = "none"
        /\ exc[t] = "none" \/ Head(f.todo).stop \/ exc[t] \in Caught \/ Broken(f.d, "boot")
    BY <1>3, <1>8 DEF ExcOK, FindSearched, At
  <2>2. CASE ret[t] /= 0
    <3>1. Goto(t, "insert") /\ UNCHANGED exc
      BY <1>8, <2>2 DEF FindSearched
    <3> QED BY <1>2, <1>3, <1>4, <2>1, <2>2, <3>1, FindGoesEnds
  <2>3. CASE ret[t] = 0
    <3> PICK filtered : filtered = IF exc[t] \in Caught THEN "none" ELSE exc[t]
      OBVIOUS
    <3>1. /\ exc'[t] = filtered /\ UNCHANGED <<heap, table>>
          /\ IF Head(f.todo).stop /\ filtered /= "none" THEN Goto(t, "raised")
             ELSE GotoWith(t, "search", Tail(f.todo))
      BY <1>4, <1>8, <2>3 DEF FindSearched
    <3> QED BY <1>2, <1>3, <1>5, <2>1, <2>3, <3>1, FindGoesEnds
  <2> QED BY <2>2, <2>3
<1>9. CASE FindJava(t)
  <2>1. exc[t] = "none"
    BY <1>3, <1>9 DEF ExcOK, Clear, FindJava, At
  <2> QED BY <1>2, <1>3, <1>4, <1>9, <2>1, FindGoesEnds, CallsClear DEF FindJava
<1>10. CASE FindLoaded(t)
  <2>1. ret[t] /= 0 <=> exc[t] = "none"
    BY <1>3, <1>10 DEF ExcOK, Waits, FindLoaded, At
  <2> QED BY <1>2, <1>3, <1>4, <1>10, <2>1, FindGoesEnds DEF FindLoaded
<1>11. CASE FindRaised(t)
  <2>1. exc[t] /= "none"
    BY <1>3, <1>11 DEF ExcOK, FindRaised, At
  <2> QED BY <1>2, <1>3, <1>4, <1>11, <2>1, FindGoesEnds, CallsClear DEF FindRaised
<1>12. CASE FindInsert(t)
  <2>1. ret[t] /= 0 /\ exc[t] = "none"
    BY <1>3, <1>12 DEF ExcOK, FindInsert, At
  <2> QED BY <1>2, <1>3, <1>4, <1>12, <2>1, FindGoesEnds, CallsClear DEF FindInsert
<1>13. CASE FindDone(t)
  <2>1. ret[t] /= 0 <=> exc[t] = "none"
    BY <1>3, <1>13 DEF ExcOK, Waits, FindDone, At
  <2> PICK c : c = ret[t]
    OBVIOUS
  <2> PICK e : e = exc'[t]
    OBVIOUS
  <2>2. Return(t, c) /\ (c /= 0 <=> e = "none")
    BY <1>4, <1>13, <2>1 DEF FindDone
  <2>3. ASSUME NEW h \in Frames, Len(stack[t]) > 1, h = stack[t][2], h.fn = "Find", h.pc = "searched"
        PROVE  e = "none" \/ Head(h.todo).stop \/ Broken(h.d, "boot")'
    <3>1. CallOK(f, h)
      BY <1>2, <2>3, TopFacts
    <3> QED BY <1>3, <2>3, <3>1 DEF CallOK
  <2> QED BY <1>2, <2>2, <2>3, ReturnEnds
<1> QED BY <1>6, <1>7, <1>8, <1>9, <1>10, <1>11, <1>12, <1>13

\* A class path is searched, or the search ends.
LEMMA FindSearchEnds ==
    ASSUME Consistent, Consistent', Sound, NEW t \in Threads, FindSearch(t)
    PROVE  EndOK(t)'
<1>1. At(t, "Find", "search") /\ UNCHANGED <<heap, table>>
  BY DEF FindSearch
<1>2. stack[t] /= <<>> /\ Top(t).fn = "Find" /\ FindOK(Top(t))
  BY <1>1, FindFacts
<1> PICK f \in Frames : f = Top(t)
  BY <1>1, FindFacts
<1>3. f.fn = "Find" /\ f.pc = "search" /\ ExcOK(t, f) /\ f.d \in Descriptors /\ FindOK(f) /\ Delegates(f)
  BY <1>1, <1>2, TopDelegates DEF At
<1>4. exc[t] = "none" \/ Broken(f.d, "boot")
  BY <1>3 DEF ExcOK
<1>5. Broken(f.d, "boot") => Broken(f.d, "boot")'
  BY <1>1 DEF Broken, IsErroneousUnresolved
<1>6. UNCHANGED exc => exc'[t] = exc[t]
  OBVIOUS
<1>7. CASE f.todo = <<>>
  <2>1. Goto(t, "raised") /\ exc' = [exc EXCEPT ![t] = IF @ = "none" THEN "ClassNotFoundException" ELSE @]
    BY <1>7 DEF FindSearch
  <2>2. exc'[t] /= "none"
    BY <2>1, Start DEF Shape
  <2> QED BY <1>2, <1>3, <2>1, <2>2, FindGoesEnds
<1>8. CASE f.todo /= <<>>
  <2> PICK l \in Loaders : l = Head(f.todo).at
    BY <1>3, <1>8, ListUnder
  <2> PICK h : h = [f EXCEPT !.pc = "searched"]
    OBVIOUS
  <2>1. h.fn = "Find" /\ h.pc = "searched" /\ h.d = f.d
    BY <1>3, Fields
  <2>2. ASSUME NEW g, Pushes(t, g, h), exc'[t] = exc[t],
               \/ g.fn = "Define" /\ g.pc = "start"
               \/ g.fn = "Ensure" /\ (Broken(f.d, "boot") => IsErroneousUnresolved(g.obj)')
        PROVE  EndOK(t)'
    <3> PICK e : e = exc'[t]
      OBVIOUS
    <3> QED BY <1>2, <1>4, <1>5, <2>1, <2>2, CallEnds
  <2>3. CASE /\ Kind[l] = "boot" /\ table[<<f.d, l>>] /= 0
             /\ Call(t, "searched", EnsureFrame(table[<<f.d, l>>])) /\ UNCHANGED exc
    <3> PICK c : c = table[<<f.d, l>>]
      OBVIOUS
    <3> PICK g : g = EnsureFrame(c)
      OBVIOUS
    <3>1. g.fn = "Ensure" /\ g.obj = c
      BY NewFields
    <3>2. Pushes(t, g, h)
      BY <2>3 DEF Call, Pushes
    <3>3. l = "boot"
      BY <2>3, DefineAssumption
    <3>4. Broken(f.d, "boot") => IsErroneousUnresolved(c)'
      BY <1>1, <3>3 DEF Broken, IsErroneousUnresolved
    <3> QED BY <1>6, <2>2, <2>3, <3>1, <3>2, <3>4
  <2>4. CASE Call(t, "searched", DefineFrame(f.d, l)) /\ UNCHANGED exc
    <3> PICK g : g = DefineFrame(f.d, l)
      OBVIOUS
    <3>1. g.fn = "Define" /\ g.pc = "start"
      BY NewFields
    <3>2. Pushes(t, g, h)
      BY <2>4 DEF Call, Pushes
    <3> QED BY <1>6, <2>2, <2>4, <3>1, <3>2
  <2>5. CASE exc[t] /= "none" /\ Goto(t, "raised") /\ UNCHANGED exc
    BY <1>2, <1>3, <1>6, <2>5, FindGoesEnds
  <2>6. CASE GotoWith(t, "search", Tail(f.todo)) /\ UNCHANGED exc
    BY <1>2, <1>3, <1>4, <1>5, <1>6, <2>6, FindGoesEnds
  <2> QED BY <1>8, <2>3, <2>4, <2>5, <2>6 DEF FindSearch, LookupClass
<1> QED BY <1>7, <1>8

\* The steps of DefineClass before it has an object.
LEMMA DefineBeginEnds ==
    ASSUME Consistent, Consistent', Sound, NEW t \in Threads, DefineStart(t) \/ DefineRegister(t)
    PROVE  EndOK(t)'
<1>1. \E pc : At(t, "Define", pc)
  BY DEF DefineStart, DefineRegister
<1>2. stack[t] /= <<>> /\ Top(t).fn = "Define"
  BY <1>1, DefineFacts
<1> PICK f \in Frames : f = Top(t)
  BY <1>1, DefineFacts
<1>3. f.fn = "Define" /\ ExcOK(t, f) /\ f.l \in Loaders
  BY <1>2, TopDelegates
<1>4. ASSUME f.l = "boot"
      PROVE  dexCaches[DexFile[f.l]].cache /= 0 /\ EnsureSameClassLoader(dexCaches[DexFile[f.l]], f.l)
  BY <1>4 DEF Sound, BootOK, EnsureSameClassLoader
<1>5. ASSUME NEW pc \in {"register", "insert"}, exc'[t] = "none"
      PROVE  (\A cache : Put(t, [f EXCEPT !.pc = pc, !.cache = cache]) => EndOK(t)')
             /\ (Goto(t, pc) => EndOK(t)')
  <2>1. ASSUME NEW g, Puts(t, g), g.fn = "Define", g.pc = pc PROVE EndOK(t)'
    <3> PICK e : e = exc'[t]
      OBVIOUS
    <3> PICK r : r = ret'[t]
      OBVIOUS
    <3>1. g.pc \notin {"start", "parent"} /\ e = "none"
      BY <1>5, <2>1
    <3> QED BY <1>2, <2>1, <3>1, PutEnds
  <2>2. ASSUME NEW cache, Put(t, [f EXCEPT !.pc = pc, !.cache = cache]) PROVE EndOK(t)'
    <3> PICK g : g = [f EXCEPT !.pc = pc, !.cache = cache]
      OBVIOUS
    <3>1. Puts(t, g) /\ g.fn = "Define" /\ g.pc = pc
      BY <1>3, <2>2, Fields DEF Put, Puts
    <3> QED BY <2>1, <3>1
  <2>3. ASSUME Goto(t, pc) PROVE EndOK(t)'
    <3> PICK g : g = [f EXCEPT !.pc = pc]
      OBVIOUS
    <3>1. Puts(t, g) /\ g.fn = "Define" /\ g.pc = pc
      BY <1>3, <2>3, Fields DEF Goto, Put, Puts
    <3> QED BY <2>1, <3>1
  <2> QED BY <2>2, <2>3
<1>6. /\ \A what : Throw(t, what) => exc'[t] = what
      /\ UNCHANGED exc => exc'[t] = exc[t]
  BY Start DEF Throw, Shape
<1>7. Return(t, 0) /\ exc'[t] /= "none" /\ f.l /= "boot" => EndOK(t)'
  BY <1>2, <1>3, DefineReturnsNull
<1>8. CASE DefineStart(t)
  <2>1. f.pc = "start" /\ UNCHANGED <<heap, table>>
    BY <1>8 DEF DefineStart, At
  <2>2. CASE exc[t] /= "none" /\ Return(t, 0) /\ UNCHANGED exc
    <3>1. PassedBoot(stack[t])
      BY <1>3, <2>1, <2>2 DEF ExcOK
    <3>2. ASSUME NEW h \in Frames, Len(stack[t]) > 1, h = stack[t][2], h.fn = "Find", h.pc = "searched"
          PROVE  Broken(h.d, "boot")'
      BY <2>1, <3>1, <3>2 DEF PassedBoot, Broken, IsErroneousUnresolved
    <3> PICK e : e = exc'[t]
      OBVIOUS
    <3> PICK r : r = 0
      OBVIOUS
    <3>3. Return(t, r) /\ (r /= 0 <=> e = "none")
      BY <1>6, <2>2
    <3> QED BY <1>2, <3>2, <3>3, ReturnEnds
  <2> QED BY <1>4, <1>5, <1>6, <1>7, <1>8, <2>2 DEF DefineStart
<1>9. CASE DefineRegister(t)
  <2>1. exc[t] = "none"
    BY <1>9, DefineClear DEF DefineRegister
  <2> QED BY <1>4, <1>5, <1>6, <1>7, <1>9, <2>1 DEF DefineRegister
<1> QED BY <1>8, <1>9

\* The steps of DefineClass on its object.
LEMMA DefineWorkEnds ==
    ASSUME Consistent, Consistent', Sound, NEW t \in Threads,
           \/ DefineInsert(t) \/ DefineLoad(t) \/ DefineParents(t) \/ DefineParent(t)
           \/ DefineLink(t) \/ DefineRetire(t) \/ DefineResolve(t)
    PROVE  EndOK(t)'
<1>1. \E pc : At(t, "Define", pc)
  BY DEF DefineInsert, DefineLoad, DefineParents, DefineParent, DefineLink, DefineRetire, DefineResolve
<1>2. stack[t] /= <<>> /\ Top(t).fn = "Define" /\ DefineOK(t, Top(t))
  BY <1>1, DefineFacts
<1> PICK f \in Frames : f = Top(t)
  BY <1>1, DefineFacts
<1>3. f.fn = "Define" /\ ExcOK(t, f) /\ DefineOK(t, f)
  BY <1>2, TopDelegates
<1>4. UNCHANGED exc => exc'[t] = exc[t]
  OBVIOUS
<1>5. ASSUME NEW pc \in {"load", "parents", "link", "retire", "resolve"}, exc'[t] = "none"
      PROVE  (\A todo : GotoWith(t, pc, todo) => EndOK(t)') /\ (Goto(t, pc) => EndOK(t)')
             /\ (\A obj : Put(t, [f EXCEPT !.pc = pc, !.obj = obj]) => EndOK(t)')
  <2>1. ASSUME NEW g, Puts(t, g), g.fn = "Define", g.pc = pc PROVE EndOK(t)'
    <3> PICK e : e = exc'[t]
      OBVIOUS
    <3> PICK r : r = ret'[t]
      OBVIOUS
    <3>1. g.pc \notin {"start", "parent"} /\ e = "none"
      BY <1>5, <2>1
    <3> QED BY <1>2, <2>1, <3>1, PutEnds
  <2>2. ASSUME NEW todo, GotoWith(t, pc, todo) PROVE EndOK(t)'
    <3> PICK g : g = [f EXCEPT !.pc = pc, !.todo = todo]
      OBVIOUS
    <3>1. Puts(t, g) /\ g.fn = "Define" /\ g.pc = pc
      BY <1>3, <2>2, Fields DEF GotoWith, Put, Puts
    <3> QED BY <2>1, <3>1
  <2>3. ASSUME Goto(t, pc) PROVE EndOK(t)'
    <3> PICK g : g = [f EXCEPT !.pc = pc]
      OBVIOUS
    <3>1. Puts(t, g) /\ g.fn = "Define" /\ g.pc = pc
      BY <1>3, <2>3, Fields DEF Goto, Put, Puts
    <3> QED BY <2>1, <3>1
  <2>4. ASSUME NEW obj, Put(t, [f EXCEPT !.pc = pc, !.obj = obj]) PROVE EndOK(t)'
    <3> PICK g : g = [f EXCEPT !.pc = pc, !.obj = obj]
      OBVIOUS
    <3>1. Puts(t, g) /\ g.fn = "Define" /\ g.pc = pc
      BY <1>3, <2>4, Fields DEF Put, Puts
    <3> QED BY <2>1, <3>1
  <2> QED BY <2>2, <2>3, <2>4
<1>6. ASSUME NEW c, Return(t, c), c /= 0, exc'[t] = "none" PROVE EndOK(t)'
  <2> PICK e : e = exc'[t]
    OBVIOUS
  <2>1. e = "none" /\ (c /= 0 <=> e = "none")
    BY <1>6
  <2> QED BY <1>2, <1>6, <2>1, ReturnEnds
<1>7. ASSUME NEW pc \in {"load", "parents", "parent", "link"}, At(t, "Define", pc)
      PROVE  \A what \in Exceptions : DefineFails(t, what) => EndOK(t)'
  BY <1>7, FailsEnds
<1>8. ASSUME NEW pc \in {"insert", "load", "parents", "link", "retire", "resolve"}, At(t, "Define", pc)
      PROVE  exc[t] = "none"
  BY <1>8, DefineClear
<1>9. CASE DefineInsert(t)
  <2>1. exc'[t] = "none"
    BY <1>4, <1>8, <1>9 DEF DefineInsert
  <2>2. ASSUME NEW c, TailCall(t, EnsureFrame(c)) PROVE EndOK(t)'
    <3> PICK g : g = EnsureFrame(c)
      OBVIOUS
    <3> PICK e : e = exc'[t]
      OBVIOUS
    <3> PICK r : r = ret'[t]
      OBVIOUS
    <3>1. Puts(t, g) /\ g.fn = "Ensure" /\ e = "none"
      BY <2>1, <2>2, NewFields DEF TailCall, Put, Puts
    <3> QED BY <1>2, <3>1, PutEnds
  <2> QED BY <1>5, <1>9, <2>1, <2>2 DEF DefineInsert
<1>10. CASE DefineLoad(t)
  BY <1>4, <1>5, <1>7, <1>8, <1>10, WorkingPlaces DEF DefineLoad
<1>11. CASE DefineParents(t)
  <2>1. exc[t] = "none"
    BY <1>8, <1>11 DEF DefineParents
  <2>2. ASSUME Call(t, "parent", FindFrame(Head(f.todo), f.l)), UNCHANGED exc PROVE EndOK(t)'
    BY <1>2, <1>4, <2>1, <2>2, CallsClear
  <2> QED BY <1>4, <1>5, <1>7, <1>11, <2>1, <2>2, WorkingPlaces DEF DefineParents
<1>12. CASE DefineParent(t)
  <2>1. ret[t] /= 0 <=> exc[t] = "none"
    BY <1>3, <1>12 DEF ExcOK, Waits, DefineParent, At
  <2>2. CASE ret[t] = 0 /\ DefineFails(t, exc[t])
    <3>1. exc[t] \in Exceptions
      BY <2>1, <2>2, Start
    <3> QED BY <1>7, <1>12, <2>2, <3>1 DEF DefineParent
  <2> QED BY <1>4, <1>5, <1>12, <2>1, <2>2 DEF DefineParent
<1>13. CASE DefineLink(t)
  <2>1. exc[t] = "none" /\ f.pc = "link"
    BY <1>8, <1>13 DEF DefineLink, At
  <2>2. f.obj /= 0
    BY <1>3, <2>1, Start DEF DefineOK, Owns, MadeFor
  <2> QED BY <1>4, <1>5, <1>6, <1>7, <1>13, <2>1, <2>2, WorkingPlaces DEF DefineLink
<1>14. CASE DefineRetire(t)
  BY <1>4, <1>5, <1>8, <1>14 DEF DefineRetire
<1>15. CASE DefineResolve(t)
  <2>1. exc[t] = "none" /\ f.pc = "resolve"
    BY <1>8, <1>15 DEF DefineResolve, At
  <2> PICK new : new = Head(f.todo)
    OBVIOUS
  <2>2. f.todo = <<table[<<f.d, f.l>>]>> /\ MadeFor(table[<<f.d, f.l>>], t, f)
    BY <1>3, <2>1 DEF DefineOK
  <2>3. new = table[<<f.d, f.l>>]
    BY <2>2
  <2>4. new /= 0
    BY <2>2, <2>3, Start DEF MadeFor
  <2> QED BY <1>4, <1>6, <1>15, <2>1, <2>4 DEF DefineResolve
<1> QED BY <1>9, <1>10, <1>11, <1>12, <1>13, <1>14, <1>15

\* The steps of CreateArrayClass.
LEMMA ArrayStepEnds ==
    ASSUME Consistent, Consistent', Sound, NEW t \in Threads, ArrayComponent(t) \/ ArrayCreate(t)
    PROVE  EndOK(t)'
<1>1. \E pc : At(t, "Array", pc)
  BY DEF ArrayComponent, ArrayCreate
<1>2. stack[t] /= <<>> /\ Top(t).fn = "Array"
  BY <1>1, ArrayFacts
<1> PICK f \in Frames : f = Top(t)
  BY <1>1, ArrayFacts
<1>3. f.fn = "Array" /\ ExcOK(t, f)
  BY <1>2, TopDelegates
<1>4. CASE ArrayComponent(t)
  <2>1. exc'[t] = "none" /\ Call(t, "create", FindFrame(Component[f.d], f.l))
    BY <1>3, <1>4 DEF ExcOK, Clear, ArrayComponent, At
  <2> QED BY <1>2, <2>1, CallsClear
<1>5. CASE ArrayCreate(t)
  <2>1. ret[t] /= 0 <=> exc[t] = "none"
    BY <1>3, <1>5 DEF ExcOK, Waits, ArrayCreate, At
  <2>2. ASSUME NEW h \in Frames, Len(stack[t]) > 1, h = stack[t][2], h.fn = "Find", h.pc = "searched"
        PROVE  FALSE
    <3>1. CallOK(f, h)
      BY <1>2, <2>2, TopFacts
    <3> QED BY <1>3, <2>2, <3>1 DEF CallOK
  <2>3. ASSUME NEW c, Return(t, c), c /= 0 <=> exc'[t] = "none" PROVE EndOK(t)'
    <3> PICK e : e = exc'[t]
      OBVIOUS
    <3>1. c /= 0 <=> e = "none"
      BY <2>3
    <3>2. ASSUME NEW h \in Frames, Len(stack[t]) > 1, h = stack[t][2], h.fn = "Find", h.pc = "searched"
          PROVE  e = "none" \/ Head(h.todo).stop \/ Broken(h.d, "boot")'
      BY <2>2, <3>2
    <3> QED BY <1>2, <2>3, <3>1, <3>2, ReturnEnds
  <2> PICK comp : comp = IF ret[t] /= 0 THEN ret[t] ELSE LookupClass(Component[f.d], f.l)
    OBVIOUS
  <2>4. CASE comp = 0 /\ Return(t, 0) /\ UNCHANGED exc
    BY <2>1, <2>3, <2>4
  <2>5. ASSUME NEW c, c /= 0, Return(t, c), Throw(t, "none") PROVE EndOK(t)'
    <3>1. exc'[t] = "none"
      BY <2>5, Start DEF Throw, Shape
    <3> QED BY <2>3, <2>5, <3>1
  <2>6. Len(heap) + 1 /= 0
    BY Start
  <2> QED BY <1>5, <2>4, <2>5, <2>6 DEF ArrayCreate
<1> QED BY <1>4, <1>5

\* After every step the exception and the result of the thread fit.
LEMMA StepEnds ==
    ASSUME Consistent, Consistent', Sound, NEW t \in Threads, Step(t)
    PROVE  EndOK(t)'
  BY EnsureStepEnds, FindStepEnds, FindSearchEnds, DefineBeginEnds, DefineWorkEnds, ArrayStepEnds DEF Step

----------------------------------------------------------------------------
\* Frames whose class is erroneous already.

\* No class of thread t's frames becomes erroneous.
Clean == \A c \in DOMAIN heap : ~IsErroneousUnresolved(c) => ~IsErroneousUnresolved(c)'

\* Where a frame that works on an object comes from.
LEMMA OwnersKept ==
    ASSUME Consistent, Consistent', NEW t \in Threads, stack[t] /= <<>>, Nests(t)
    PROVE  \A i \in 1..Len(stack'[t]) :
               Owns(stack'[t][i]) => \/ \E j \in 1..Len(stack[t]) : Owns(stack[t][j]) /\ stack[t][j].obj = stack'[t][i].obj
                                     \/ stack'[t][i].obj \notin DOMAIN heap
<1> PICK s \in Seq(Frames) : s = stack[t]
  BY Start DEF Shape
<1> PICK s2 : s2 = stack'[t]
  OBVIOUS
<1> PICK f \in Frames : f = Top(t)
  BY TopFacts
<1>1. f = s[1] /\ 1 \in 1..Len(s) /\ Len(s) \in Nat
  BY TopFacts
<1> SUFFICES ASSUME NEW i \in 1..Len(s2), Owns(s2[i])
             PROVE  (\E j \in 1..Len(s) : Owns(s[j]) /\ s[j].obj = s2[i].obj) \/ s2[i].obj \notin DOMAIN heap
  OBVIOUS
<1>2. CASE Pops(t)
  <2>1. i + 1 \in 1..Len(s) /\ s2[i] = s[i + 1]
    BY <1>2, ReturnStack
  <2> QED BY <2>1
<1>3. ASSUME NEW g, Puts(t, g), Heir(f, g)
      PROVE  (\E j \in 1..Len(s) : Owns(s[j]) /\ s[j].obj = s2[i].obj) \/ s2[i].obj \notin DOMAIN heap
  <2>1. Len(s2) = Len(stack[t]) /\ s2[1] = g /\ \A k \in 2..Len(s2) : s2[k] = stack[t][k]
    BY <1>3, PutStack
  <2>2. CASE i = 1
    BY <1>1, <1>3, <2>1, <2>2 DEF Heir
  <2>3. CASE i /= 1
    BY <1>1, <2>1, <2>3
  <2> QED BY <2>2, <2>3
<1>4. ASSUME NEW g, NEW h, Pushes(t, g, h), Calling(f, g, h)
      PROVE  (\E j \in 1..Len(s) : Owns(s[j]) /\ s[j].obj = s2[i].obj) \/ s2[i].obj \notin DOMAIN heap
  <2>1. /\ Len(s2) = Len(stack[t]) + 1 /\ s2[1] = g /\ s2[2] = h
        /\ \A k \in 3..Len(s2) : s2[k] = stack[t][k - 1]
    BY <1>4, CallStack
  <2>2. i /= 1
    BY <1>4, <2>1 DEF Calling, Asks
  <2>3. CASE i = 2
    BY <1>1, <1>4, <2>1, <2>3 DEF Calling, Heir
  <2>4. CASE i > 2
    <3>1. i - 1 \in 1..Len(s) /\ s2[i] = s[i - 1]
      BY <1>1, <2>1, <2>4
    <3> QED BY <3>1
  <2> QED BY <2>2, <2>3, <2>4
<1> QED BY <1>2, <1>3, <1>4 DEF Nests

\* A frame is doomed only by a step that makes its class erroneous.
LEMMA NoneDoomed ==
    ASSUME Consistent, Consistent', NEW t \in Threads, stack[t] /= <<>>, Nests(t), Settles(t),
           \A i \in 1..Len(stack[t]) : ~Doomed(stack[t][i]),
           \A i \in 1..Len(stack'[t]) :
               LET c == stack'[t][i].obj IN
               Owns(stack'[t][i]) /\ c \in DOMAIN heap /\ ~IsErroneousUnresolved(c)
                   => heap'[c].st /= "kErrorUnresolved"
    PROVE  DoomOK(t)'
<1> PICK s2 \in Seq(Frames) : s2 = stack'[t]
  BY DEF Consistent, Shape
<1>1. ASSUME NEW i \in 1..Len(s2), Owns(s2[i]), heap'[s2[i].obj].st = "kErrorUnresolved" PROVE FALSE
  <2> PICK c : c = s2[i].obj
    OBVIOUS
  <2>1. c \in DOMAIN heap'
    <3> PICK f \in Frames : f = s2[i]
      OBVIOUS
    <3>1. FrameOK(t, f)'
      BY DEF Consistent, StackOK, LineOK
    <3> QED BY <1>1, <3>1 DEF FrameOK, DefineOK, MadeFor, Owns
  <2>2. c \in DOMAIN heap
    BY <1>1, <2>1 DEF Settles, IsErroneousUnresolved
  <2>3. PICK j \in 1..Len(stack[t]) : Owns(stack[t][j]) /\ stack[t][j].obj = c
    BY <1>1, <2>2, OwnersKept
  <2>4. ~IsErroneousUnresolved(c)
    BY <2>3 DEF Doomed
  <2> QED BY <1>1, <2>2, <2>4
<1>2. \A i \in 1..Len(s2) : ~(Owns(s2[i]) /\ heap'[s2[i].obj].st = "kErrorUnresolved")
  BY <1>1
<1> QED BY <1>2 DEF DoomOK, Doomed, IsErroneousUnresolved

\* The steps that make no class erroneous.
LEMMA StaysClean ==
    ASSUME Consistent, NEW t \in Threads, Step(t)
    PROVE  \/ Clean
           \/ \E pc \in {"load", "parents", "parent", "link"}, what \in Exceptions \union {"none"} :
                  At(t, "Define", pc) /\ DefineFails(t, what)
           \/ /\ EnsurePoll(t) /\ ~IsResolved(Top(t).obj) /\ ~IsErroneousUnresolved(Top(t).obj)
              /\ heap[Top(t).obj].tid = t /\ Throw(t, Circular) /\ heap' = Failed(Top(t).obj, Circular)
              /\ Return(t, 0)
<1> PICK h \in Seq(Classes) : h = heap
  BY DEF Consistent, Shape
<1>1. CASE UNCHANGED heap
  BY <1>1 DEF Clean, IsErroneousUnresolved
<1>2. ASSUME NEW n, heap' = Append(heap, n) PROVE Clean
  <2>1. \A c \in DOMAIN h : heap'[c] = h[c]
    BY <1>2
  <2> QED BY <2>1 DEF Clean, IsErroneousUnresolved
<1>3. ASSUME NEW c, NEW st \in {"kLoaded", "kResolved", "kRetired"}, heap' = [heap EXCEPT ![c].st = st] PROVE Clean
  <2> PICK n : n = [heap[c] EXCEPT !.st = st]
    OBVIOUS
  <2>1. heap' = [heap EXCEPT ![c] = n]
    BY <1>3
  <2>2. c \in DOMAIN heap => n.st = st
    BY Start DEF Shape, Classes
  <2>3. ASSUME NEW b \in DOMAIN heap, ~IsErroneousUnresolved(b) PROVE heap'[b].st /= "kErrorUnresolved"
    <3>1. CASE b = c
      BY <2>1, <2>2, <3>1
    <3>2. CASE b /= c
      BY <2>1, <2>3, <3>2 DEF IsErroneousUnresolved
    <3> QED BY <3>1, <3>2
  <2> QED BY <2>3 DEF Clean, IsErroneousUnresolved
<1>4. \A n : InsertClass(n) => Clean
  BY <1>2 DEF InsertClass
<1>5. CASE EnsurePoll(t)
  BY <1>1, <1>5 DEF EnsurePoll, Circular
<1>6. CASE DefineInsert(t)
  BY <1>1, <1>4, <1>6 DEF DefineInsert
<1>7. CASE DefineLoad(t)
  BY <1>1, <1>7, WorkingPlaces DEF DefineLoad
<1>8. CASE DefineParents(t)
  BY <1>1, <1>3, <1>8, WorkingPlaces DEF DefineParents
<1>9. CASE DefineParent(t)
  BY <1>1, <1>9, Start DEF DefineParent
<1>10. CASE DefineLink(t)
  BY <1>3, <1>4, <1>10, WorkingPlaces DEF DefineLink
<1>11. CASE DefineRetire(t)
  BY <1>3, <1>11 DEF DefineRetire
<1>12. CASE DefineResolve(t)
  BY <1>3, <1>12 DEF DefineResolve
<1>13. CASE ArrayCreate(t)
  BY <1>1, <1>4, <1>13 DEF ArrayCreate
<1> QED
  BY <1>1, <1>5, <1>6, <1>7, <1>8, <1>9, <1>10, <1>11, <1>12, <1>13
     DEF Step, EnsureTemp, FindLookup, FindDelegates, FindSearch, FindSearched, FindJava,
         FindLoaded, FindRaised, FindInsert, FindDone, DefineStart, DefineRegister, ArrayComponent

\* The step taken where something has been returned.
LEMMA StepAt ==
    ASSUME NEW t, Step(t), stack[t] /= <<>>, NEW f, f = Top(t)
    PROVE  /\ f.fn = "Find" /\ f.pc = "searched" => FindSearched(t)
           /\ f.fn = "Find" /\ f.pc = "loaded" => FindLoaded(t)
           /\ f.fn = "Find" /\ f.pc = "raised" => FindRaised(t)
           /\ f.fn = "Find" /\ f.pc = "done" => FindDone(t)
           /\ f.fn = "Define" /\ f.pc = "parent" => DefineParent(t)
<1> DEFINE A(fn, pc) == f.fn = fn /\ f.pc = pc
<1>1. \A fn, pc : At(t, fn, pc) <=> A(fn, pc)
  BY DEF At
<1> HIDE DEF A
<1>2. /\ EnsureTemp(t) => A("Ensure", "temp")
      /\ EnsurePoll(t) => A("Ensure", "poll")
  BY <1>1 DEF EnsureTemp, EnsurePoll
<1>3. /\ FindLookup(t) => A("Find", "lookup")
      /\ FindDelegates(t) => A("Find", "search")
      /\ FindSearch(t) => A("Find", "search")
  BY <1>1 DEF FindLookup, FindDelegates, FindSearch
<1>4. /\ FindSearched(t) => A("Find", "searched")
      /\ FindJava(t) => A("Find", "java")
      /\ FindLoaded(t) => A("Find", "loaded") \/ A("Find", "array")
  BY <1>1 DEF FindSearched, FindJava, FindLoaded
<1>5. /\ FindRaised(t) => A("Find", "raised")
      /\ FindInsert(t) => A("Find", "insert")
      /\ FindDone(t) => A("Find", "done")
  BY <1>1 DEF FindRaised, FindInsert, FindDone
<1>6. /\ DefineStart(t) => A("Define", "start")
      /\ DefineRegister(t) => A("Define", "register")
      /\ DefineInsert(t) => A("Define", "insert")
  BY <1>1 DEF DefineStart, DefineRegister, DefineInsert
<1>7. /\ DefineLoad(t) => A("Define", "load")
      /\ DefineParents(t) => A("Define", "parents")
      /\ DefineParent(t) => A("Define", "parent")
  BY <1>1 DEF DefineLoad, DefineParents, DefineParent
<1>8. /\ DefineLink(t) => A("Define", "link")
      /\ DefineRetire(t) => A("Define", "retire")
      /\ DefineResolve(t) => A("Define", "resolve")
  BY <1>1 DEF DefineLink, DefineRetire, DefineResolve
<1>9. /\ ArrayComponent(t) => A("Array", "component")
      /\ ArrayCreate(t) => A("Array", "create")
  BY <1>1 DEF ArrayComponent, ArrayCreate
<1> QED BY ONLY <1>2, <1>3, <1>4, <1>5, <1>6, <1>7, <1>8, <1>9, Step(t) DEF Step, A

\* The caller of what has failed for its own loader is failing itself.
LEMMA CallerFails ==
    ASSUME Consistent, Consistent', NEW t \in Threads, stack[t] /= <<>>, NEW f, f = Top(t),
           f.fn \in {"Define", "Ensure"}, f.fn = "Ensure" => ~IsResolved(f.obj),
           NEW h \in Frames, Len(stack[t]) > 1, h = stack[t][2], h.l = f.l, Return(t, 0),
           NEW c, c /= 0, table'[<<f.d, f.l>>] = c, heap'[c].st = "kErrorUnresolved"
    PROVE  Failing(t, h)'
<1>1. FrameOK(t, h) /\ CallOK(f, h)
  BY TopFacts
<1>2. ret'[t] = 0
  BY Start DEF Return, Shape
<1>3. ASSUME NEW d, NEW l, Answers(f, d, l) PROVE f.d = d /\ f.l = l
  BY <1>3 DEF Answers, Current
<1>4. ASSUME h.d = f.d PROVE Broken(h.d, h.l)'
  BY <1>4 DEF Broken, IsErroneousUnresolved
<1>5. CASE h.fn = "Find" /\ h.pc = "done"
  BY <1>2, <1>5 DEF Failing
<1>6. CASE h.fn = "Find" /\ h.pc = "searched" /\ Answers(f, h.d, Head(h.todo).at)
  <2>1. /\ h.todo /= <<>> /\ ~Head(h.todo).whole /\ \A i \in DOMAIN h.todo : VisitOK(h.todo[i])
        /\ h.l /= "boot"
    BY <1>1, <1>6 DEF FrameOK, FindOK
  <2>2. VisitOK(Head(h.todo))
    <3> PICK s : s = h.todo
      OBVIOUS
    <3>1. s \in Seq(Entries \union Descriptors \union Nat) /\ s /= <<>>
      BY <2>1 DEF Frames
    <3>2. Head(s) = s[1] /\ 1 \in DOMAIN s
      BY <3>1
    <3> QED BY <2>1, <3>2
  <2>3. h.d = f.d /\ Head(h.todo).at = h.l
    BY <1>3, <1>6
  <2>4. Head(h.todo).stop
    BY <2>1, <2>2, <2>3 DEF VisitOK
  <2> QED BY <1>2, <1>4, <1>6, <2>3, <2>4 DEF Failing
<1>7. CASE h.fn = "Find" /\ h.pc = "loaded" /\ Answers(f, h.d, h.l)
  BY <1>2, <1>3, <1>4, <1>7 DEF Failing
<1> QED BY <1>1, <1>5, <1>6, <1>7 DEF CallOK

\* The innermost frame goes on while a frame is doomed.
LEMMA DoomPut ==
    ASSUME Consistent, Consistent', NEW t \in Threads, stack[t] /= <<>>, DoomOK(t), NEW f, f = Top(t),
           NEW g, Puts(t, g), g.fn = "Find", g.l = f.l, UNCHANGED heap, exc'[t] = exc[t], Failing(t, g)'
    PROVE  DoomOK(t)'
<1> PICK s2 \in Seq(Frames) : s2 = stack'[t]
  BY DEF Consistent, Shape
<1>1. /\ Len(s2) = Len(stack[t]) /\ s2[1] = g /\ Head(s2) = g /\ Len(s2) \in Nat
      /\ \A i \in 2..Len(s2) : s2[i] = stack[t][i]
  BY PutStack
<1>2. f = stack[t][1]
  BY TopFacts
<1>3. ASSUME NEW i \in 1..Len(s2), Owns(s2[i]), heap'[s2[i].obj].st = "kErrorUnresolved"
      PROVE  exc'[t] = Circular /\ \A j \in 1..i : s2[j].l = s2[i].l
  <2>1. i \in 2..Len(s2) /\ s2[i] = stack[t][i]
    BY <1>1, <1>3 DEF Owns
  <2>2. Doomed(stack[t][i])
    BY <1>3, <2>1 DEF Doomed, IsErroneousUnresolved
  <2>3. i \in 1..Len(stack[t]) /\ exc[t] = Circular /\ \A j \in 1..i : stack[t][j].l = stack[t][i].l
    BY <1>1, <2>1, <2>2 DEF DoomOK
  <2>4. \A j \in 1..i : s2[j].l = stack[t][j].l
    <3> TAKE j \in 1..i
    <3>1. j = 1 \/ j \in 2..Len(s2)
      BY <1>1, <2>1
    <3> QED BY <1>1, <1>2, <3>1
  <2> QED BY <2>1, <2>3, <2>4
<1> QED BY <1>1, <1>3 DEF DoomOK, Doomed, IsErroneousUnresolved, Top

\* The innermost frame returns while a frame is doomed.
LEMMA DoomReturns ==
    ASSUME Consistent, Consistent', NEW t \in Threads, stack[t] /= <<>>, Pops(t),
           ASSUME NEW i \in 2..Len(stack[t]), Owns(stack[t][i]),
                  heap'[stack[t][i].obj].st = "kErrorUnresolved",
                  NEW h \in Frames, h = stack[t][2], Len(stack[t]) > 1
           PROVE  /\ exc'[t] = Circular /\ Failing(t, h)'
                  /\ \A j \in 2..i : stack[t][j].l = stack[t][i].l
    PROVE  DoomOK(t)'
<1> PICK s2 \in Seq(Frames) : s2 = stack'[t]
  BY DEF Consistent, Shape
<1>1. /\ Len(s2) = Len(stack[t]) - 1 /\ Len(s2) \in Nat /\ Len(stack[t]) \in Nat
      /\ \A i \in 1..Len(s2) : i + 1 \in 1..Len(stack[t]) /\ s2[i] = stack[t][i + 1]
      /\ s2 /= <<>> => Head(s2) = stack[t][2] /\ Len(stack[t]) > 1
  BY ReturnStack, TopFacts
<1>2. ASSUME NEW i \in 1..Len(s2), Owns(s2[i]), heap'[s2[i].obj].st = "kErrorUnresolved"
      PROVE  /\ exc'[t] = Circular /\ Failing(t, Top(t))'
             /\ \A j \in 1..i : s2[j].l = s2[i].l
  <2>1. i + 1 \in 2..Len(stack[t]) /\ s2[i] = stack[t][i + 1] /\ s2 /= <<>>
    BY <1>1, <1>2
  <2> PICK h \in Frames : h = stack[t][2] /\ Len(stack[t]) > 1
    BY <1>1, <2>1, TopFacts
  <2> PICK n \in 2..Len(stack[t]) : n = i + 1
    BY <2>1
  <2>2. /\ exc'[t] = Circular /\ Failing(t, h)'
        /\ \A j \in 2..n : stack[t][j].l = stack[t][n].l
    BY <1>2, <2>1
  <2>3. ASSUME NEW j \in 1..i PROVE s2[j].l = s2[i].l
    <3>1. j \in 1..Len(s2) /\ j + 1 \in 2..n
      BY <1>1
    <3> QED BY <1>1, <2>1, <2>2, <3>1
  <2>4. Top(t)' = h
    BY <1>1, <2>1 DEF Top
  <2> QED BY <2>2, <2>3, <2>4
<1> QED BY <1>2 DEF DoomOK, Doomed, IsErroneousUnresolved

\* What is returned to a frame for a class that is erroneous already is nullptr,
\* and it returns nullptr in turn.
LEMMA DoomedStep ==
    ASSUME Consistent, Consistent', Sound, NEW t \in Threads, Step(t), stack[t] /= <<>>,
           NEW k \in 1..Len(stack[t]), Doomed(stack[t][k])
    PROVE  DoomOK(t)'
<1> PICK f \in Frames : f = Top(t)
  BY TopFacts
<1> PICK s \in Seq(Frames) : s = stack[t]
  BY Start DEF Shape
<1>1. /\ DoomOK(t) /\ Len(s) \in Nat /\ f = s[1] /\ FrameOK(t, f)
      /\ \A i \in 1..Len(s) : s[i] \in Frames /\ FrameOK(t, s[i])
      /\ \A i, j \in 1..Len(s) : i < j => Serves(s[i], s[j])
      /\ \A i, j \in 1..Len(s) : i /= j /\ Owns(s[i]) /\ Owns(s[j]) => s[i].obj /= s[j].obj
  <2>1. DoomOK(t) /\ Nested(s)
    BY TopDelegates
  <2>2. LineOK(t, s) /\ f = s[1] /\ FrameOK(t, f)
    BY TopFacts
  <2> QED BY <2>1, <2>2 DEF LineOK, Nested
<1>2. exc[t] = Circular /\ Failing(t, f)
  BY <1>1 DEF DoomOK
<1>3. exc[t] \notin Caught /\ Circular /= "none"
  BY <1>2 DEF Caught, Circular
<1>4. UNCHANGED <<heap, table>> => (Broken(f.d, f.l) => Broken(f.d, f.l)')
  BY DEF Broken, IsErroneousUnresolved
<1>5. ASSUME Goto(t, "raised"), UNCHANGED <<heap, table>>, exc'[t] = exc[t], f.fn = "Find", Broken(f.d, f.l)
      PROVE  DoomOK(t)'
  <2> PICK g : g = [f EXCEPT !.pc = "raised"]
    OBVIOUS
  <2>1. Puts(t, g) /\ g.fn = "Find" /\ g.d = f.d /\ g.l = f.l /\ g.pc = "raised"
    BY <1>5, Fields DEF Goto, Put, Puts
  <2>2. Failing(t, g)'
    BY <1>4, <1>5, <2>1 DEF Failing
  <2> QED BY <1>1, <1>5, <2>1, <2>2, DoomPut
<1>6. CASE f.fn = "Find" /\ f.pc = "searched" /\ ret[t] = 0 /\ Head(f.todo).stop /\ Broken(f.d, f.l)
  <2>1. FindSearched(t)
    BY <1>6, StepAt
  <2>2. exc'[t] = exc[t] /\ Goto(t, "raised") /\ UNCHANGED <<heap, table>>
    BY <1>2, <1>3, <1>6, <2>1, Start DEF FindSearched, Throw, Shape
  <2> QED BY <1>5, <1>6, <2>2
<1>7. CASE f.fn = "Find" /\ f.pc = "loaded" /\ ret[t] = 0 /\ Broken(f.d, f.l)
  <2>1. FindLoaded(t)
    BY <1>7, StepAt
  <2>2. exc'[t] = exc[t] /\ Goto(t, "raised") /\ UNCHANGED <<heap, table>>
    BY <1>7, <2>1 DEF FindLoaded
  <2> QED BY <1>5, <1>7, <2>2
<1>8. CASE f.fn = "Find" /\ f.pc = "raised" /\ Broken(f.d, f.l)
  <2>1. FindRaised(t)
    BY <1>8, StepAt
  <2>2. /\ exc' = exc /\ UNCHANGED <<heap, table>> /\ ret' = [ret EXCEPT ![t] = 0]
        /\ stack' = [stack EXCEPT ![t] = <<[f EXCEPT !.pc = "done"]>> \o Tail(@)]
    BY <1>8, <2>1 DEF FindRaised, LookupClass, Broken
  <2> PICK g : g = [f EXCEPT !.pc = "done"]
    OBVIOUS
  <2>3. Puts(t, g) /\ g.fn = "Find" /\ g.d = f.d /\ g.l = f.l /\ g.pc = "done"
    BY <1>8, <2>2, Fields DEF Puts
  <2>4. ret'[t] = 0
    BY <2>2, Start DEF Shape
  <2>5. Failing(t, g)'
    BY <2>3, <2>4 DEF Failing
  <2>6. exc'[t] = exc[t] /\ UNCHANGED heap
    BY <2>2
  <2> QED BY <1>1, <2>3, <2>5, <2>6, DoomPut
<1>9. CASE f.fn = "Find" /\ f.pc = "done" /\ ret[t] = 0
  <2>1. FindDone(t)
    BY <1>9, StepAt
  <2>2. exc' = exc /\ UNCHANGED <<heap, table>> /\ Return(t, ret[t])
    BY <2>1 DEF FindDone
  <2>3. Pops(t) /\ ret'[t] = 0
    BY <1>9, <2>2, Start DEF Return, Pops, Shape
  <2>4. ASSUME NEW i \in 2..Len(s), Owns(s[i]), heap'[s[i].obj].st = "kErrorUnresolved",
               NEW h \in Frames, h = s[2], Len(s) > 1
        PROVE  exc'[t] = Circular /\ Failing(t, h)' /\ \A j \in 2..i : s[j].l = s[i].l
    <3>1. Doomed(s[i]) /\ i \in 1..Len(s) /\ 2 \in 1..i /\ 1 \in 1..i
      BY <1>1, <2>2, <2>4 DEF Doomed, IsErroneousUnresolved
    <3>2. \A j \in 1..i : s[j].l = s[i].l
      BY <1>1, <3>1 DEF DoomOK
    <3>3. f.l = h.l
      BY <1>1, <2>4, <3>1, <3>2
    <3>4. CallOK(f, h) /\ FrameOK(t, h) /\ Waits(h)
      BY <2>4, TopFacts
    <3>5. CASE h.fn = "Define" /\ h.pc = "parent"
      BY <1>2, <2>2, <2>3, <3>2, <3>5 DEF Failing
    <3>6. CASE h.fn = "Find" /\ h.pc = "loaded" /\ Answers(f, h.d, Parent[h.l])
      <4>1. h.l \in Loaders /\ h.l /= "boot" /\ f.l = Parent[h.l]
        BY <1>9, <3>4, <3>6 DEF FrameOK, FindOK, Answers, Frames
      <4>2. Parent[h.l] /= h.l
        BY <4>1, UnderOrder
      <4> QED BY <3>3, <4>1, <4>2
    <3>7. CASE h.fn = "Array"
      <4>1. i > 2 /\ h.d \in Arrays /\ s[i].fn = "Define"
        BY <2>4, <3>4, <3>7 DEF Owns, FrameOK, ArrayOK
      <4>2. Serves(h, s[i])
        BY <1>1, <2>4, <3>1, <4>1
      <4> QED BY <4>1, <4>2 DEF Serves
    <3> QED BY <1>9, <3>4, <3>5, <3>6, <3>7 DEF CallOK, Waits
  <2> QED BY <2>3, <2>4, DoomReturns
<1>10. CASE f.fn = "Define" /\ f.pc = "parent" /\ ret[t] = 0
  <2>1. DefineParent(t)
    BY <1>10, StepAt
  <2>2. DefineFails(t, exc[t]) /\ At(t, "Define", "parent") /\ exc[t] \in Exceptions
    BY <1>2, <1>10, <2>1 DEF DefineParent, Circular, Exceptions
  <2>3. /\ exc'[t] = exc[t] /\ Return(t, 0) /\ table'[<<f.d, f.l>>] = f.obj
        /\ IsErroneousUnresolved(f.obj)' /\ f.obj \in DOMAIN heap
        /\ \A b \in DOMAIN heap : b /= f.obj => heap'[b] = heap[b]
    BY <2>2, FailsEnds
  <2>4. Pops(t)
    BY <2>3 DEF Return, Pops
  <2>5. ASSUME NEW i \in 2..Len(s), Owns(s[i]), heap'[s[i].obj].st = "kErrorUnresolved",
               NEW h \in Frames, h = s[2], Len(s) > 1
        PROVE  exc'[t] = Circular /\ Failing(t, h)' /\ \A j \in 2..i : s[j].l = s[i].l
    <3>1. i \in 1..Len(s) /\ 2 \in 1..i /\ 1 \in 1..i /\ i /= 1 /\ 1 \in 1..Len(s) /\ Owns(f)
      BY <1>1, <1>10, <2>5 DEF Owns
    <3>2. s[i].obj /= f.obj /\ s[i].obj \in DOMAIN heap
      <4>1. s[i].obj /= f.obj
        BY <1>1, <2>5, <3>1
      <4>2. MadeFor(s[i].obj, t, s[i])
        BY <1>1, <2>5, <3>1 DEF FrameOK, DefineOK, Owns
      <4> QED BY <4>1, <4>2 DEF MadeFor
    <3>3. Doomed(s[i])
      BY <2>3, <2>5, <3>2 DEF Doomed, IsErroneousUnresolved
    <3>4. \A j \in 1..i : s[j].l = s[i].l
      BY <1>1, <3>1, <3>3 DEF DoomOK
    <3>5. h.l = f.l
      BY <1>1, <2>5, <3>1, <3>4
    <3> PICK c : c = f.obj
      OBVIOUS
    <3>6. c /= 0 /\ table'[<<f.d, f.l>>] = c /\ heap'[c].st = "kErrorUnresolved"
      BY <2>3, Start DEF IsErroneousUnresolved
    <3>7. Failing(t, h)'
      BY <1>10, <2>3, <2>5, <3>5, <3>6, CallerFails
    <3> QED BY <1>2, <2>3, <3>4, <3>7
  <2> QED BY <2>4, <2>5, DoomReturns
<1> QED BY <1>2, <1>6, <1>7, <1>8, <1>9, <1>10 DEF Failing

\* A thread that comes to a class it is resolving itself makes it erroneous, and
\* all calls it has made since for that class return nullptr.
LEMMA CircleStep ==
    ASSUME Consistent, Consistent', Sound, NEW t \in Threads, NEW f, f = Top(t), NEW c, c = f.obj,
           EnsurePoll(t), ~IsResolved(c), ~IsErroneousUnresolved(c),
           heap[c].tid = t, Throw(t, Circular), heap' = Failed(c, Circular), Return(t, 0)
    PROVE  DoomOK(t)'
<1> PICK s \in Seq(Frames) : s = stack[t]
  BY Start DEF Shape
<1>1. /\ stack[t] /= <<>> /\ f.fn = "Ensure" /\ f.pc = "poll" /\ UNCHANGED table
      /\ f \in Frames /\ f = s[1] /\ Len(s) \in Nat /\ EnsureOK(t, f) /\ LineOK(t, s)
  <2>1. stack[t] /= <<>> /\ f.fn = "Ensure" /\ f.pc = "poll" /\ UNCHANGED table
    BY DEF EnsurePoll, At
  <2> QED BY <2>1, TopFacts DEF FrameOK
<1>2. /\ \A i \in 1..Len(s) : s[i] \in Frames /\ FrameOK(t, s[i])
      /\ \A i \in 2..Len(s) : Waits(s[i])
      /\ \A i, j \in 1..Len(s) : i < j => Serves(s[i], s[j])
      /\ \A i \in 1..Len(s) : ~Doomed(s[i])
  <2>1. Nested(s)
    BY <1>1, TopDelegates
  <2>2. ~Failing(t, f)
    BY <1>1 DEF Failing
  <2>3. \A i \in 1..Len(s) : ~Doomed(s[i])
    BY <1>1, <2>2, NoDoom
  <2> QED BY <1>1, <2>1, <2>3 DEF LineOK, Nested
<1>3. c \in DOMAIN heap /\ heap[c].d = f.d /\ heap[c].l = f.l /\ ~IsRetired(c) /\ c /= 0
  BY <1>1, Start DEF EnsureOK, Current
<1>4. table[<<f.d, f.l>>] = c
  <2>1. ~BeingReplaced(c)
    BY <1>1 DEF BeingReplaced, At
  <2> QED BY <1>3, <2>1 DEF Consistent, ObjectsOK, ObjectOK, Home
<1>5. heap'[c].st = "kErrorUnresolved" /\ \A b \in DOMAIN heap : b /= c => heap'[b] = heap[b]
  <2> PICK e \in Exceptions : e = Circular
    BY DEF Circular, Exceptions
  <2>1. heap \in Seq(Classes) /\ heap[c] \in Classes /\ heap' = Failed(c, e)
    BY <1>3 DEF Consistent, Shape
  <2>2. Changes(c, "kErrorUnresolved")
    BY <1>3, <2>1, FailedSet
  <2> QED BY <2>2 DEF Changes
<1>6. exc'[t] = Circular /\ Pops(t)
  BY Start DEF Throw, Return, Pops, Shape
<1>7. ASSUME NEW i \in 2..Len(s), Owns(s[i]), heap'[s[i].obj].st = "kErrorUnresolved",
             NEW h \in Frames, h = s[2], Len(s) > 1
      PROVE  exc'[t] = Circular /\ Failing(t, h)' /\ \A j \in 2..i : s[j].l = s[i].l
  <2>1. i \in 1..Len(s) /\ 1 \in 1..Len(s) /\ 2 \in 1..Len(s) /\ i > 1
    BY <1>1, <1>7
  <2>2. MadeFor(s[i].obj, t, s[i])
    BY <1>2, <1>7, <2>1 DEF FrameOK, DefineOK, Owns
  <2>3. s[i].obj = c
    BY <1>2, <1>5, <1>7, <2>1, <2>2 DEF Doomed, IsErroneousUnresolved, MadeFor
  <2>4. s[i].l = f.l
    BY <1>3, <2>2, <2>3 DEF MadeFor
  <2>5. ASSUME NEW j \in 2..i PROVE s[j].l = f.l
    <3> PICK g \in Frames : g = s[j] /\ j \in 1..Len(s) /\ j \in 2..Len(s)
      BY <1>1, <1>2, <2>1
    <3>1. Under(f.l, g.l)
      BY <1>1, <1>2, <2>1 DEF Serves
    <3>2. g.fn /= "Ensure"
      BY <1>2 DEF Waits
    <3>3. j = i \/ Under(g.l, f.l)
      <4>1. j /= i => j < i
        BY <2>1
      <4> QED BY <1>2, <2>1, <2>4, <3>2, <4>1 DEF Serves
    <3>4. f.l \in Loaders /\ g.l \in Loaders
      BY <1>1 DEF Frames
    <3> QED BY <2>4, <3>1, <3>3, <3>4, UnderOrder
  <2>6. h.l = f.l
    BY <1>7, <2>1, <2>5
  <2>7. Failing(t, h)'
    BY <1>1, <1>3, <1>4, <1>5, <1>7, <2>6, CallerFails
  <2> QED BY <1>6, <2>4, <2>5, <2>7
<1> QED BY <1>1, <1>6, <1>7, DoomReturns

\* A class that defining it makes erroneous is of no other frame.
LEMMA FailsDoom ==
    ASSUME Consistent, Consistent', Sound, NEW t \in Threads, Settles(t), Nests(t),
           NEW pc \in {"load", "parents", "parent", "link"}, At(t, "Define", pc),
           NEW what \in Exceptions \union {"none"}, DefineFails(t, what),
           \A i \in 1..Len(stack[t]) : ~Doomed(stack[t][i])
    PROVE  DoomOK(t)'
<1> PICK f \in Frames : f = Top(t)
  BY DefineFacts
<1> PICK s \in Seq(Frames) : s = stack[t]
  BY Start DEF Shape
<1>1. stack[t] /= <<>> /\ f.fn = "Define" /\ DefineOK(t, f) /\ Owns(f) /\ f = s[1] /\ LineOK(t, s)
  BY DefineFacts, TopFacts DEF Owns
<1>2. f.obj \in DOMAIN heap
  BY <1>1 DEF DefineOK, MadeFor
<1>3. \A b \in DOMAIN heap : b /= f.obj => heap'[b] = heap[b]
  <2>1. CASE heap' = heap
    BY <2>1
  <2>2. CASE heap' = Failed(f.obj, what)
    <3>1. heap \in Seq(Classes)
      BY DEF Consistent, Shape
    <3>2. Changes(f.obj, "kErrorUnresolved")
      BY <1>2, <2>2, <3>1, FailedSet
    <3> QED BY <3>2 DEF Changes
  <2> QED BY <2>1, <2>2 DEF DefineFails
<1>4. Pops(t)
  BY DEF DefineFails, Return, Pops
<1>5. ASSUME NEW i \in 1..Len(stack'[t]), Owns(stack'[t][i]), stack'[t][i].obj \in DOMAIN heap,
             ~IsErroneousUnresolved(stack'[t][i].obj)
      PROVE  heap'[stack'[t][i].obj].st /= "kErrorUnresolved"
  <2>1. Len(s) \in Nat /\ Len(stack'[t]) = Len(s) - 1 /\ stack'[t][i] = s[i + 1]
    BY <1>1, <1>4, ReturnStack, TopFacts
  <2>2. 1 \in 1..Len(s) /\ i + 1 \in 1..Len(s) /\ i + 1 /= 1
    BY <2>1
  <2>3. s[i + 1].obj /= f.obj
    BY <1>1, <1>5, <2>1, <2>2 DEF LineOK
  <2> QED BY <1>3, <1>5, <2>1, <2>3 DEF IsErroneousUnresolved
<1> QED BY <1>1, <1>5, NoneDoomed

\* What serves a doomed frame goes on failing, and a frame is doomed only by a
\* circle.
LEMMA StepDoom ==
    ASSUME Consistent, Consistent', Sound, NEW t \in Threads, Step(t)
    PROVE  DoomOK(t)'
<1>1. stack[t] /= <<>> /\ Nests(t) /\ Settles(t)
  BY StepNests, StepSettles
<1>2. ASSUME NEW k \in 1..Len(stack[t]), Doomed(stack[t][k]) PROVE DoomOK(t)'
  BY <1>1, <1>2, DoomedStep
<1>3. ASSUME \A i \in 1..Len(stack[t]) : ~Doomed(stack[t][i]) PROVE DoomOK(t)'
  <2>1. CASE Clean
    BY <1>1, <1>3, <2>1, NoneDoomed DEF Clean, IsErroneousUnresolved
  <2>2. ASSUME NEW pc \in {"load", "parents", "parent", "link"}, NEW what \in Exceptions \union {"none"},
               At(t, "Define", pc), DefineFails(t, what)
        PROVE  DoomOK(t)'
    BY <1>1, <1>3, <2>2, FailsDoom
  <2>3. ASSUME EnsurePoll(t), ~IsResolved(Top(t).obj), ~IsErroneousUnresolved(Top(t).obj),
               heap[Top(t).obj].tid = t, Throw(t, Circular), heap' = Failed(Top(t).obj, Circular),
               Return(t, 0)
        PROVE  DoomOK(t)'
    BY <2>3, CircleStep
  <2> QED BY <2>1, <2>2, <2>3, StaysClean
<1> QED BY <1>2, <1>3

----------------------------------------------------------------------------
\* Exceptions and results, always.

\* A step of thread t keeps everything sound.
LEMMA StepSound ==
    ASSUME Consistent, Consistent', Sound, NEW t \in Threads, Step(t)
    PROVE  Sound'
<1>1. ErrorsOK' /\ Settles(t) /\ BootOK'
  BY StepSettles, BootKept DEF Sound
<1>2. ThreadOK(t)'
  BY StepNests, StepDoom, StepEnds DEF ThreadOK
<1>3. ASSUME NEW u \in Threads, u /= t PROVE ThreadOK(u)'
  <2>1. exc'[u] = exc[u] /\ ret'[u] = ret[u] /\ calls'[u] = calls[u]
    BY <1>3, StepAlone
  <2>2. stack'[u] = stack[u]
    <3>1. Shape /\ Nests(t)
      BY StepNests, Start
    <3> QED BY <1>3, <3>1 DEF Nests, Pops, Puts, Pushes, Shape
  <2> QED BY <1>1, <1>3, <2>1, <2>2, OthersSound DEF Sound
<1> QED BY <1>1, <1>2, <1>3 DEF Sound

\* A new call starts with no exception pending.
LEMMA FindClassSound ==
    ASSUME Consistent, Consistent', Sound, NEW t \in Threads, NEW d, NEW l, FindClass(t, d, l)
    PROVE  Sound'
<1> PICK g : g = FindFrame(d, l)
  OBVIOUS
<1>1. g.fn = "Find" /\ g.pc = "lookup" /\ Len(<<g>>) = 1 /\ <<g>>[1] = g /\ Head(<<g>>) = g
  BY DEF FindFrame, Frame
<1>2. /\ Shape /\ stack'[t] = <<g>> /\ exc'[t] = "none"
      /\ UNCHANGED <<heap, table, dexCaches, ret>>
      /\ \A u \in Threads : u /= t => /\ stack'[u] = stack[u] /\ exc'[u] = exc[u]
                                      /\ ret'[u] = ret[u] /\ calls'[u] = calls[u]
  BY DEF FindClass, Throw, Consistent, Shape
<1>3. ErrorsOK' /\ BootOK' /\ Settles(t)
  <2>1. Len(heap) \in Nat
    BY <1>2 DEF Shape
  <2> QED BY <1>2, <2>1 DEF Sound, ErrorsOK, BootOK, Settles, IsErroneousUnresolved, IsResolved
<1>4. ThreadOK(t)'
  <2>1. Nested(stack[t])'
    BY <1>1, <1>2 DEF Nested, Delegates
  <2>2. DoomOK(t)'
    BY <1>1, <1>2 DEF DoomOK, Doomed, Owns
  <2>3. stack'[t] /= <<>> /\ Top(t)' = g
    BY <1>1, <1>2 DEF Top
  <2>4. ExcOK(t, g)'
    BY <1>1, <1>2 DEF ExcOK, Waits
  <2>5. EndOK(t)'
    BY <2>3, <2>4 DEF EndOK
  <2> QED BY <2>1, <2>2, <2>5 DEF ThreadOK
<1>5. ASSUME NEW u \in Threads, u /= t PROVE ThreadOK(u)'
  BY <1>2, <1>3, <1>5, OthersSound DEF Sound
<1> QED BY <1>3, <1>4, <1>5 DEF Sound

\* Calls nest along the loaders' delegation, only circles leave erroneous classes
\* with the calls that resolve them, and an exception is pending only where the
\* call under way is failing or searching on for a subclass.
THEOREM SoundAlways == Spec => []Sound
<1>1. Init => Sound
  <2> SUFFICES ASSUME Init PROVE Sound
    OBVIOUS
  <2>1. ErrorsOK
    BY DEF Init, ErrorsOK
  <2>2. BootOK
    <3>1. DexFile["boot"] \in Range(DexFile)
      BY DefineAssumption DEF Range
    <3> QED BY <3>1, DefineAssumption DEF Init, BootOK, BootCaches
  <2>3. ASSUME NEW t \in Threads PROVE ThreadOK(t)
    <3>1. stack[t] = <<>> /\ calls[t] = 0
      BY DEF Init
    <3> QED BY <3>1 DEF ThreadOK, Nested, DoomOK, EndOK
  <2> QED BY <2>1, <2>2, <2>3 DEF Sound
<1>2. Consistent /\ Consistent' /\ Sound /\ [Next]_vars => Sound'
  <2> SUFFICES ASSUME Consistent, Consistent', Sound, [Next]_vars PROVE Sound'
    OBVIOUS
  <2>1. CASE UNCHANGED vars
    BY <2>1 DEF vars, Sound, ErrorsOK, BootOK, ThreadOK, Nested, Serves, Delegates, DoomOK, Doomed,
                EndOK, ExcOK, PassedBoot, Broken, Failing, Top, IsErroneousUnresolved, IsResolved
  <2>2. ASSUME NEW t \in Threads, Step(t) PROVE Sound'
    BY <2>2, StepSound
  <2>3. ASSUME NEW t \in Threads, NEW r \in Roots[t], FindClass(t, r[1], r[2]) PROVE Sound'
    BY <2>3, FindClassSound
  <2> QED BY <2>1, <2>2, <2>3 DEF Next, Ended
<1> QED BY <1>1, <1>2, ConsistentAlways, PTL DEF Spec

\* FindClass keeps its contract with its callers: it returns either a class or an
\* exception, never both and never neither; and the class is resolved and the one
\* its key's table entry holds (FindClass, EnsureResolved and DefineClass,
\* class_linker.c).
THEOREM FindContractAlways == Spec => []FindContract
<1>1. Consistent /\ Sound => TypeOK
  <2> SUFFICES ASSUME Consistent, Sound PROVE TypeOK
    OBVIOUS
  <2>1. Shape /\ ErrorsOK
    BY DEF Consistent, Sound
  <2>2. ASSUME NEW c \in DOMAIN heap PROVE heap[c] \in Classes
    BY <2>1, <2>2 DEF Shape
  <2> QED BY <2>1, <2>2 DEF TypeOK, Shape, Classes, Statuses, ErrorsOK
<1>2. Consistent /\ Sound => ResultOrException
  <2> SUFFICES ASSUME Consistent, Sound, NEW t \in Threads,
                      stack[t] = <<>> \/ At(t, "Find", "done") \/ At(t, "Define", "parent"),
                      calls[t] /= 0
               PROVE  (ret[t] = 0) = (exc[t] /= "none")
    BY DEF ResultOrException
  <2>1. EndOK(t)
    BY DEF Sound, ThreadOK
  <2>2. ret[t] /= 0 <=> exc[t] = "none"
    BY <2>1 DEF EndOK, ExcOK, Waits, At
  <2> QED BY <2>2
<1> QED BY <1>1, <1>2, ConsistentAlways, SoundAlways, FoundIsCurrentAlways, PTL DEF FindContract

==============================================================================
