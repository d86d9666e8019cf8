----------------------------- MODULE ClassDefine -----------------------------
(***************************************************************************)
(* Loading of classes by several threads: FindClass, the search through a  *)
(* chain of class loaders, DefineClass, LoadSuperAndInterfaces, LinkClass, *)
(* RegisterDexFile, CreateArrayClass and EnsureResolved of class_linker.c. *)
(*                                                                         *)
(* A class object is a number, an index of heap; 0 is nullptr.  A class    *)
(* that can be instantiated is first loaded into a temporary object, which *)
(* LinkClass replaces by one of the right size and retires.  A thread has  *)
(* a stack of calls, innermost first; DefineClass holds the lock of its    *)
(* object (the obj of its frame) until it returns.                         *)
(***************************************************************************)
EXTENDS Integers, Sequences, FiniteSets, SequencesExt

CONSTANTS Descriptors, Loaders, Threads, NoThread,
          Kind,          \* Kind[l]: "boot", "path", "delegateLast" or "custom"
          Parent,        \* Parent[l]: the parent loader (boot is its own)
          Libs,          \* Libs[l]: its shared library loaders, in order
          DexFile,       \* DexFile[l]: the dex file on its class path
          Contents,      \* Contents[f]: the descriptors dex file f defines
          Parents,       \* Parents[d]: superclass and interfaces of d, in order
          Component,     \* Component[d]: the component type; array types only
          Instantiable,  \* the descriptors of classes that are not abstract
          MayFail,       \* the descriptors that may fail to load or to link
          OutOfMemory,   \* the dex files whose cache may fail to be allocated
          Roots,         \* Roots[t]: what thread t may look for, <<d, l>>
          MaxCalls       \* bound: how often one thread looks

VARIABLES heap, table, dexCaches, stack, exc, ret, calls,
          found          \* history: the objects FindClass returned for <<d, l>>

vars == <<heap, table, dexCaches, stack, exc, ret, calls, found>>
Keys == Descriptors \X Loaders
Arrays == DOMAIN Component
None == [cache |-> 0, loader |-> "none"]

ASSUME DefineAssumption ==
    /\ "boot" \in Loaders /\ IsFiniteSet(Loaders)
    /\ Kind \in [Loaders -> {"boot", "path", "delegateLast", "custom"}]
    /\ \A l \in Loaders : Kind[l] = "boot" <=> l = "boot"
    /\ Parent \in [Loaders -> Loaders] /\ Libs \in [Loaders -> Seq(Loaders)]
    /\ Loaders \subseteq DOMAIN DexFile /\ IsFiniteSet(Range(DexFile))
    /\ Arrays \subseteq Descriptors /\ \A a \in Arrays : Component[a] \in Descriptors
    /\ Parents \in [Descriptors -> Seq(Descriptors \ Arrays)]
    /\ Roots \in [Threads -> SUBSET Keys]
    /\ NoThread \notin Threads /\ MaxCalls \in Nat

\* The dex files of the boot class path are the boot loader's own.
ASSUME BootAssumption == \A l \in Loaders : DexFile[l] = DexFile["boot"] => l = "boot"

\* A loader is constructed with its parent and its libraries, which are older.
ASSUME LoadersAssumption ==
    \E age \in [Loaders -> 0..Cardinality(Loaders)] :
        \A l \in Loaders \ {"boot"} :
            \A k \in {"boot", Parent[l]} \union Range(Libs[l]) : age[k] < age[l]

IsErroneousUnresolved(c) == heap[c].st = "kErrorUnresolved"
IsResolved(c) == heap[c].st = "kResolved"
IsTemp(c) == heap[c].d \in Instantiable /\ heap[c].st \in {"kIdx", "kLoaded"}
IsRetired(c) == heap[c].st = "kRetired"

\* What is left of a search: loaders to visit as a whole, with all they delegate
\* to, or only in their own dex file.  After the boot class path as a whole the
\* search goes on even with an exception that is no ClassNotFoundException;
\* elsewhere that ends it (stop).
Whole(l) == [at |-> l, whole |-> l /= "boot", stop |-> FALSE]
Own(l) == [at |-> l, whole |-> FALSE, stop |-> TRUE]
\* The order in which FindClassInBaseDexClassLoader visits a path loader (its
\* parent, its libraries, itself) and a delegate-last loader (the boot class
\* path, its libraries, itself, its parent).
VisitOrder(l) ==
    LET libs == [i \in DOMAIN Libs[l] |-> Whole(Libs[l][i])]
    IN  IF Kind[l] = "path" THEN <<Whole(Parent[l])>> \o libs \o <<Own(l)>>
        ELSE <<Own("boot")>> \o libs \o <<Own(l), Whole(Parent[l])>>

----------------------------------------------------------------------------
\* Frames and the moves between them.

Frame(fn, d, l, pc, todo) ==
    [fn |-> fn, d |-> d, l |-> l, pc |-> pc, todo |-> todo, obj |-> 0, cache |-> 0]
Top(t) == Head(stack[t])
At(t, fn, pc) == stack[t] /= <<>> /\ Top(t).fn = fn /\ Top(t).pc = pc
Put(t, f) == stack' = [stack EXCEPT ![t] = <<f>> \o Tail(@)] /\ UNCHANGED ret
Goto(t, pc) == Put(t, [Top(t) EXCEPT !.pc = pc])
GotoWith(t, pc, todo) == Put(t, [Top(t) EXCEPT !.pc = pc, !.todo = todo])
Call(t, after, callee) ==
    /\ stack' = [stack EXCEPT ![t] = <<callee, [Top(t) EXCEPT !.pc = after]>> \o Tail(@)]
    /\ UNCHANGED ret
TailCall(t, callee) == Put(t, callee)
Return(t, c) == /\ stack' = [stack EXCEPT ![t] = Tail(@)]
                /\ ret' = [ret EXCEPT ![t] = c]
Throw(t, what) == exc' = [exc EXCEPT ![t] = what]

FindFrame(d, l) == Frame("Find", d, l, "lookup", <<>>)
DefineFrame(d, l) == Frame("Define", d, l, "start", <<>>)
ArrayFrame(d, l) == Frame("Array", d, l, "component", <<>>)
EnsureFrame(c) == [Frame("Ensure", heap[c].d, heap[c].l, "temp", <<>>) EXCEPT !.obj = c]

\* The exceptions that DexFile.defineClass would catch.
Caught == {"NoClassDefFoundError", "ClassNotFoundException"}

\* The lock of an object is held by the DefineClass that works on it.
CanLock(t, c) == \A u \in Threads \ {t} : \A i \in DOMAIN stack[u] :
                     ~(stack[u][i].fn = "Define" /\ stack[u][i].obj = c)

\* SetupClass, and what DefineClass sets on the new object.
NewClass(d, l, st, tid, cache) ==
    [d |-> d, l |-> l, st |-> st, tid |-> tid, cache |-> cache, err |-> "none"]
\* Mutant: the exception is not kept.
FailedSilently(c, what) == [heap EXCEPT ![c].st = "kErrorUnresolved"]
\* Class::SetStatus to an error keeps the pending exception for later callers.
Failed(c, what) == [heap EXCEPT ![c].st = "kErrorUnresolved", ![c].err = what]

\* The class table of a loader and its class path.
LookupClass(d, l) == table[<<d, l>>]
FindInClassPath(d, l) == d \in Contents[DexFile[l]]
InsertClass(c) == /\ heap' = Append(heap, c)
                  /\ table' = [table EXCEPT ![<<c.d, c.l>>] = Len(heap) + 1]

\* The registered dex caches.
EnsureSameClassLoader(old, l) == old.loader = l
RegisterDexFileLocked(file, cache, l) ==
    dexCaches' = [dexCaches EXCEPT ![file] = [cache |-> cache, loader |-> l]]

----------------------------------------------------------------------------
\* EnsureResolved.  The thread blocks on the lock of a temporary class until its
\* definer has retired it or failed, and polls any other class.

EnsureTemp(t) ==
    LET c == Top(t).obj IN
    /\ At(t, "Ensure", "temp")
    /\ \/ /\ IsRetired(c) /\ CanLock(t, c)
          /\ Put(t, [Top(t) EXCEPT !.pc = "poll", !.obj = LookupClass(heap[c].d, heap[c].l)])
       \/ /\ ~IsTemp(c) /\ ~IsRetired(c)
          /\ Goto(t, "poll")
    /\ UNCHANGED <<heap, table, dexCaches, exc, calls, found>>

\* Mutant: a class this thread itself is resolving is handed out.
EnsurePollTrusts(t) ==
    LET c == Top(t).obj IN
    /\ At(t, "Ensure", "poll")
    /\ IF IsErroneousUnresolved(c) THEN Throw(t, heap[c].err) /\ Return(t, 0)
       ELSE (IsResolved(c) \/ heap[c].tid = t) /\ Return(t, c) /\ UNCHANGED exc
    /\ UNCHANGED <<heap, table, dexCaches, calls, found>>

EnsurePoll(t) ==
    LET c == Top(t).obj IN
    /\ At(t, "Ensure", "poll")
    /\ \/ /\ IsResolved(c)
          /\ Return(t, c)
          /\ UNCHANGED <<heap, exc>>
       \/ /\ IsErroneousUnresolved(c)
          /\ Throw(t, heap[c].err)
          /\ Return(t, 0)
          /\ UNCHANGED heap
       \* Only this thread itself is still resolving the class.
       \/ /\ ~IsResolved(c) /\ ~IsErroneousUnresolved(c)
          /\ heap[c].tid = t /\ CanLock(t, c)
          /\ Throw(t, "ClassCircularityError")
          /\ heap' = Failed(c, "ClassCircularityError")
          /\ Return(t, 0)
    /\ UNCHANGED <<table, dexCaches, calls, found>>

----------------------------------------------------------------------------
\* FindClass.

FindLookup(t) ==
    LET d == Top(t).d
        l == Top(t).l
        c == LookupClass(d, l)
    IN
    /\ At(t, "Find", "lookup")
    /\ \/ /\ c /= 0
          /\ Call(t, "done", EnsureFrame(c))
          /\ UNCHANGED exc
       \/ /\ c = 0 /\ d \notin Arrays /\ Kind[l] = "boot" /\ FindInClassPath(d, l)
          /\ Call(t, "done", DefineFrame(d, l))
          /\ UNCHANGED exc
       \/ /\ c = 0 /\ d \notin Arrays /\ Kind[l] = "boot" /\ ~FindInClassPath(d, l)
          /\ Throw(t, "NoClassDefFoundError")
          /\ stack' = [stack EXCEPT ![t] = <<[Top(t) EXCEPT !.pc = "done"]>> \o Tail(@)]
          /\ ret' = [ret EXCEPT ![t] = 0]
       \/ /\ c = 0 /\ d \in Arrays
          /\ Call(t, "array", ArrayFrame(d, l))
          /\ UNCHANGED exc
       \/ /\ c = 0 /\ d \notin Arrays /\ Kind[l] /= "boot"
          /\ GotoWith(t, "search", <<Whole(l)>>)
          /\ UNCHANGED exc
    /\ UNCHANGED <<heap, table, dexCaches, calls, found>>

\* A loader that delegates, or one that is not known: the native search gives up
\* and Java is asked, unless an exception is pending.
FindDelegates(t) ==
    LET f == Top(t)
        l == Head(f.todo).at
    IN
    /\ At(t, "Find", "search") /\ f.todo /= <<>> /\ Head(f.todo).whole
    /\ \/ /\ Kind[l] /= "custom"
          /\ GotoWith(t, "search", VisitOrder(l) \o Tail(f.todo))
       \/ /\ Kind[l] = "custom"
          /\ Goto(t, IF exc[t] = "none" THEN "java" ELSE "raised")
    /\ UNCHANGED <<heap, table, dexCaches, exc, calls, found>>

\* One class path: FindClassInBootClassLoaderClassPath or
\* FindClassInBaseDexClassLoaderClassPath.
FindSearch(t) ==
    LET f == Top(t)
        e == Head(f.todo)
        here == f.todo /= <<>> /\ FindInClassPath(f.d, e.at)
        boot == LookupClass(f.d, e.at)
    IN
    /\ At(t, "Find", "search") /\ (f.todo /= <<>> => ~e.whole)
    /\ \/ /\ here /\ Kind[e.at] = "boot" /\ boot /= 0
          /\ Call(t, "searched", EnsureFrame(boot))
          /\ UNCHANGED exc
       \/ /\ here /\ (Kind[e.at] = "boot" => boot = 0)
          /\ Call(t, "searched", DefineFrame(f.d, e.at))
          /\ UNCHANGED exc
       \/ /\ f.todo /= <<>> /\ ~here
          /\ IF e.stop /\ exc[t] /= "none" THEN Goto(t, "raised")
             ELSE GotoWith(t, "search", Tail(f.todo))
          /\ UNCHANGED exc
       \* Not found in a chain of known loaders: throw without asking Java.
       \/ /\ f.todo = <<>>
          /\ exc' = [exc EXCEPT ![t] = IF @ = "none" THEN "ClassNotFoundException" ELSE @]
          /\ Goto(t, "raised")
    /\ UNCHANGED <<heap, table, dexCaches, calls, found>>

\* A class was found, or the exception is filtered and the search goes on.
FindSearched(t) ==
    LET f == Top(t)
        filtered == IF exc[t] \in Caught THEN "none" ELSE exc[t]
    IN
    /\ At(t, "Find", "searched")
    /\ \/ /\ ret[t] /= 0
          /\ Goto(t, "insert")
          /\ UNCHANGED exc
       \/ /\ ret[t] = 0
          /\ Throw(t, filtered)
          /\ IF Head(f.todo).stop /\ filtered /= "none" THEN Goto(t, "raised")
             ELSE GotoWith(t, "search", Tail(f.todo))
    /\ UNCHANGED <<heap, table, dexCaches, calls, found>>

\* ClassLoader.loadClass of a loader that is not known (external): it asks its
\* parent, defines the class itself, throws or returns null.
FindJava(t) ==
    LET f == Top(t) IN
    /\ At(t, "Find", "java")
    /\ \/ /\ Call(t, "loaded", FindFrame(f.d, Parent[f.l]))
          /\ UNCHANGED exc
       \/ /\ FindInClassPath(f.d, f.l)
          /\ Call(t, "loaded", DefineFrame(f.d, f.l))
          /\ UNCHANGED exc
       \/ /\ Throw(t, "ClassNotFoundException")
          /\ Goto(t, "raised")
       \/ /\ Throw(t, "NullPointerException")
          /\ stack' = [stack EXCEPT ![t] = <<[Top(t) EXCEPT !.pc = "done"]>> \o Tail(@)]
          /\ ret' = [ret EXCEPT ![t] = 0]
    /\ UNCHANGED <<heap, table, dexCaches, calls, found>>

\* CreateArrayClass or loadClass has returned.
FindLoaded(t) ==
    /\ At(t, "Find", "array") \/ At(t, "Find", "loaded")
    /\ Goto(t, IF ret[t] /= 0 THEN "insert" ELSE "raised")
    /\ UNCHANGED <<heap, table, dexCaches, exc, calls, found>>

\* Mutant: the exception stays pending when another thread succeeded.
FindRaisedKeeps(t) ==
    LET c == LookupClass(Top(t).d, Top(t).l) IN
    /\ At(t, "Find", "raised")
    /\ IF c /= 0 /\ (c /= 0 => ~IsErroneousUnresolved(c))
       THEN Call(t, "done", EnsureFrame(c))
       ELSE /\ stack' = [stack EXCEPT ![t] = <<[Top(t) EXCEPT !.pc = "done"]>> \o Tail(@)]
            /\ ret' = [ret EXCEPT ![t] = 0]
    /\ UNCHANGED <<heap, table, dexCaches, exc, calls, found>>
\* An exception is pending: pass it up, unless another thread succeeded.
FindRaised(t) ==
    LET c == LookupClass(Top(t).d, Top(t).l) IN
    /\ At(t, "Find", "raised")
    /\ \/ /\ c /= 0 /\ ~IsErroneousUnresolved(c)
          /\ Throw(t, "none")
          /\ Call(t, "done", EnsureFrame(c))
       \/ /\ c /= 0 => IsErroneousUnresolved(c)
          /\ stack' = [stack EXCEPT ![t] = <<[Top(t) EXCEPT !.pc = "done"]>> \o Tail(@)]
          /\ ret' = [ret EXCEPT ![t] = 0]
          /\ UNCHANGED exc
    /\ UNCHANGED <<heap, table, dexCaches, calls, found>>

\* Mutant: the result is returned whatever the table holds.
FindInsertAnyway(t) ==
    /\ At(t, "Find", "insert")
    /\ table' = [table EXCEPT ![<<Top(t).d, Top(t).l>>] = IF @ = 0 THEN ret[t] ELSE @]
    /\ Goto(t, "done")
    /\ UNCHANGED <<heap, dexCaches, exc, calls, found>>
\* Enter the class in the table of the initiating loader, unless it has one.
FindInsert(t) ==
    LET key == <<Top(t).d, Top(t).l>>
        old == table[key]
    IN
    /\ At(t, "Find", "insert")
    /\ \/ /\ old \in {0, ret[t]}
          /\ table' = [table EXCEPT ![key] = ret[t]]
          /\ Goto(t, "done")
       \/ /\ old \notin {0, ret[t]}
          /\ Call(t, "done", EnsureFrame(old))
          /\ UNCHANGED table
    /\ UNCHANGED <<heap, dexCaches, exc, calls, found>>

FindDone(t) ==
    LET key == <<Top(t).d, Top(t).l>> IN
    /\ At(t, "Find", "done")
    /\ found' = IF ret[t] = 0 THEN found ELSE [found EXCEPT ![key] = @ \union {ret[t]}]
    /\ Return(t, ret[t])
    /\ UNCHANGED <<heap, table, dexCaches, exc, calls>>

----------------------------------------------------------------------------
\* DefineClass.

\* An exception left by an earlier part of the search shows after the callback
\* that may replace the dex file, and ends the call.  Otherwise RegisterDexFile
\* reads the registered caches.
DefineStart(t) ==
    LET f == Top(t)
        old == dexCaches[DexFile[f.l]]
    IN
    /\ At(t, "Define", "start")
    /\ \/ /\ exc[t] /= "none"
          /\ Return(t, 0)
          /\ UNCHANGED exc
       \/ /\ exc[t] = "none" /\ old.cache = 0
          /\ Goto(t, "register")
          /\ UNCHANGED exc
       \/ /\ exc[t] = "none" /\ old.cache /= 0 /\ EnsureSameClassLoader(old, f.l)
          /\ Put(t, [f EXCEPT !.pc = "insert", !.cache = old.cache])
          /\ UNCHANGED exc
       \/ /\ exc[t] = "none" /\ old.cache /= 0 /\ ~EnsureSameClassLoader(old, f.l)
          /\ Throw(t, "InternalError")
          /\ Return(t, 0)
    /\ UNCHANGED <<heap, table, dexCaches, calls, found>>

\* Mutant: the table is not read again under the lock.
DefineRegisterBlind(t) ==
    LET f == Top(t)
        fresh == 1 + Len(heap)
    IN
    /\ At(t, "Define", "register")
    /\ RegisterDexFileLocked(DexFile[f.l], fresh, f.l)
    /\ Put(t, [f EXCEPT !.pc = "insert", !.cache = fresh])
    /\ UNCHANGED <<heap, table, exc, calls, found>>
\* A new cache was allocated, or the allocation failed; under the lock the
\* table is read again, and the cache of another thread wins.
DefineRegister(t) ==
    LET f == Top(t)
        file == DexFile[f.l]
        old == dexCaches[file]
        fresh == 1 + Cardinality({g \in DOMAIN dexCaches : dexCaches[g] /= None})
    IN
    /\ At(t, "Define", "register")
    /\ \/ /\ old.cache = 0
          /\ RegisterDexFileLocked(file, fresh, f.l)
          /\ Put(t, [f EXCEPT !.pc = "insert", !.cache = fresh])
          /\ UNCHANGED exc
       \/ /\ old.cache = 0 /\ file \in OutOfMemory
          /\ Throw(t, "OutOfMemoryError")
          /\ Return(t, 0)
          /\ UNCHANGED dexCaches
       \/ /\ old.cache /= 0 /\ EnsureSameClassLoader(old, f.l)
          /\ Put(t, [f EXCEPT !.pc = "insert", !.cache = old.cache])
          /\ UNCHANGED <<dexCaches, exc>>
       \/ /\ old.cache /= 0 /\ ~EnsureSameClassLoader(old, f.l)
          /\ Throw(t, "InternalError")
          /\ Return(t, 0)
          /\ UNCHANGED dexCaches
    /\ UNCHANGED <<heap, table, calls, found>>

\* Mutant: the entry of another thread is overwritten.
DefineInsertAnyway(t) ==
    LET f == Top(t) IN
    /\ At(t, "Define", "insert")
    /\ InsertClass(NewClass(f.d, f.l, "kIdx", t, f.cache))
    /\ Put(t, [f EXCEPT !.pc = "load", !.obj = Len(heap) + 1])
    /\ UNCHANGED <<dexCaches, exc, calls, found>>
\* InsertClass: one thread enters its new object, the others wait for it.
DefineInsert(t) ==
    LET f == Top(t)
        existing == LookupClass(f.d, f.l)
    IN
    /\ At(t, "Define", "insert")
    /\ \/ /\ existing /= 0
          /\ TailCall(t, EnsureFrame(existing))
          /\ UNCHANGED <<heap, table>>
       \/ /\ existing = 0
          /\ InsertClass(NewClass(f.d, f.l, "kIdx", t, f.cache))
          /\ Put(t, [f EXCEPT !.pc = "load", !.obj = Len(heap) + 1])
    /\ UNCHANGED <<dexCaches, exc, calls, found>>

\* A failed step: the class becomes erroneous unless it is already.
DefineFails(t, what) ==
    /\ heap' = IF IsErroneousUnresolved(Top(t).obj) THEN heap ELSE Failed(Top(t).obj, what)
    /\ Throw(t, what)
    /\ Return(t, 0)
    /\ UNCHANGED table

\* LoadClass, then the superclass and the interfaces in order.
DefineLoad(t) ==
    LET f == Top(t) IN
    /\ At(t, "Define", "load")
    /\ \/ /\ GotoWith(t, "parents", Parents[f.d])
          /\ UNCHANGED <<heap, table, exc>>
       \/ /\ f.d \in MayFail
          /\ DefineFails(t, "OutOfMemoryError")
    /\ UNCHANGED <<dexCaches, calls, found>>

DefineParents(t) ==
    LET f == Top(t) IN
    /\ At(t, "Define", "parents")
    /\ \/ /\ f.todo /= <<>> /\ Head(f.todo) = f.d
          /\ DefineFails(t, "ClassCircularityError")
       \/ /\ f.todo /= <<>> /\ Head(f.todo) /= f.d
          /\ Call(t, "parent", FindFrame(Head(f.todo), f.l))
          /\ UNCHANGED <<heap, table, exc>>
       \/ /\ f.todo = <<>>
          /\ heap' = [heap EXCEPT ![f.obj].st = "kLoaded"]
          /\ Goto(t, "link")
          /\ UNCHANGED <<table, exc>>
    /\ UNCHANGED <<dexCaches, calls, found>>

\* Mutant: the interfaces after the superclass are not loaded.
DefineParentOnly(t) ==
    /\ At(t, "Define", "parent")
    /\ IF ret[t] = 0 THEN DefineFails(t, exc[t])
       ELSE GotoWith(t, "parents", <<>>) /\ UNCHANGED <<heap, table, exc>>
    /\ UNCHANGED <<dexCaches, calls, found>>
\* Mutant: the loop over the interfaces does not advance.
DefineParentAgain(t) ==
    /\ At(t, "Define", "parent")
    /\ IF ret[t] = 0 THEN DefineFails(t, exc[t])
       ELSE Goto(t, "parents") /\ UNCHANGED <<heap, table, exc>>
    /\ UNCHANGED <<dexCaches, calls, found>>
DefineParent(t) ==
    /\ At(t, "Define", "parent")
    /\ \/ /\ ret[t] = 0
          /\ DefineFails(t, exc[t])
       \/ /\ ret[t] /= 0
          /\ GotoWith(t, "parents", Tail(Top(t).todo))
          /\ UNCHANGED <<heap, table, exc>>
    /\ UNCHANGED <<dexCaches, calls, found>>

\* LinkClass: a temporary class is copied and the copy takes its place in the
\* table; another class is resolved where it is.
DefineLink(t) ==
    LET f == Top(t)
        new == Len(heap) + 1
    IN
    /\ At(t, "Define", "link")
    /\ \/ /\ f.d \in MayFail
          /\ DefineFails(t, "LinkageError")
       \/ /\ ~IsTemp(f.obj)
          /\ heap' = [heap EXCEPT ![f.obj].st = "kResolved"]
          /\ Return(t, f.obj)
          /\ UNCHANGED <<table, exc>>
       \/ /\ IsTemp(f.obj)
          /\ InsertClass(NewClass(f.d, f.l, "kResolving", t, f.cache))
          /\ GotoWith(t, "retire", <<new>>)
          /\ UNCHANGED exc
    /\ UNCHANGED <<dexCaches, calls, found>>

\* The temporary class is retired (its waiters are notified) ...
DefineRetire(t) ==
    /\ At(t, "Define", "retire")
    /\ heap' = [heap EXCEPT ![Top(t).obj].st = "kRetired"]
    /\ Goto(t, "resolve")
    /\ UNCHANGED <<table, dexCaches, exc, calls, found>>

\* Mutant: the temporary class is returned.
DefineResolveOld(t) ==
    /\ At(t, "Define", "resolve")
    /\ heap' = [heap EXCEPT ![Head(Top(t).todo)].st = "kResolved"]
    /\ Return(t, Top(t).obj)
    /\ UNCHANGED <<table, dexCaches, exc, calls, found>>
\* ... and only then is the new one resolved.
DefineResolve(t) ==
    LET new == Head(Top(t).todo) IN
    /\ At(t, "Define", "resolve")
    /\ heap' = [heap EXCEPT ![new].st = "kResolved"]
    /\ Return(t, new)
    /\ UNCHANGED <<table, dexCaches, exc, calls, found>>

----------------------------------------------------------------------------
\* CreateArrayClass.

ArrayComponent(t) ==
    /\ At(t, "Array", "component")
    /\ Call(t, "create", FindFrame(Component[Top(t).d], Top(t).l))
    /\ UNCHANGED <<heap, table, dexCaches, exc, calls, found>>

\* A component that could not be loaded may still be in the table, erroneous:
\* arrays of it are allowed.  The array class belongs to the loader of its
\* component.
ArrayCreate(t) ==
    LET f == Top(t)
        comp == IF ret[t] /= 0 THEN ret[t] ELSE LookupClass(Component[f.d], f.l)
        existing == LookupClass(f.d, heap[comp].l)
    IN
    /\ At(t, "Array", "create")
    /\ \/ /\ comp = 0
          /\ Return(t, 0)
          /\ UNCHANGED <<heap, table, exc>>
       \/ /\ comp /= 0 /\ existing /= 0
          /\ Return(t, existing)
          /\ Throw(t, "none")
          /\ UNCHANGED <<heap, table>>
       \/ /\ comp /= 0 /\ existing = 0
          /\ InsertClass(NewClass(f.d, heap[comp].l, "kResolved", NoThread, 0))
          /\ Return(t, Len(heap) + 1)
          /\ Throw(t, "none")
    /\ UNCHANGED <<dexCaches, calls, found>>

----------------------------------------------------------------------------
\* AppendToBootClassPath has registered the dex file of the boot class path.
BootCaches == [f \in Range(DexFile) |->
                   IF f = DexFile["boot"] THEN [cache |-> 1, loader |-> "boot"] ELSE None]

Init ==
    /\ heap = <<>>
    /\ table = [k \in Keys |-> 0]
    /\ dexCaches = BootCaches
    /\ stack = [t \in Threads |-> <<>>]
    /\ exc = [t \in Threads |-> "none"]
    /\ ret = [t \in Threads |-> 0]
    /\ calls = [t \in Threads |-> 0]
    /\ found = [k \in Keys |-> {}]

\* A thread without a call looks for a class, with no exception pending.
FindClass(t, d, l) ==
    /\ stack[t] = <<>> /\ calls[t] < MaxCalls
    /\ calls' = [calls EXCEPT ![t] = @ + 1]
    /\ Throw(t, "none")
    /\ stack' = [stack EXCEPT ![t] = <<FindFrame(d, l)>>]
    /\ UNCHANGED <<heap, table, dexCaches, ret, found>>

Step(t) ==
    \/ EnsureTemp(t) \/ EnsurePoll(t)
    \/ FindLookup(t) \/ FindDelegates(t) \/ FindSearch(t) \/ FindSearched(t) \/ FindJava(t) \/ FindLoaded(t)
    \/ FindRaised(t) \/ FindInsert(t) \/ FindDone(t)
    \/ DefineStart(t) \/ DefineRegister(t) \/ DefineInsert(t) \/ DefineLoad(t)
    \/ DefineParents(t) \/ DefineParent(t) \/ DefineLink(t) \/ DefineRetire(t) \/ DefineResolve(t)
    \/ ArrayComponent(t) \/ ArrayCreate(t)

Ended == /\ \A t \in Threads : stack[t] = <<>> /\ calls[t] = MaxCalls
         /\ UNCHANGED vars

Next == \/ \E t \in Threads : Step(t) \/ \E r \in Roots[t] : FindClass(t, r[1], r[2])
        \/ Ended

Spec == Init /\ [][Next]_vars
\* The scheduler runs every thread that can run.
LiveSpec == Spec /\ \A t \in Threads : WF_vars(Step(t))

----------------------------------------------------------------------------
\* Properties.

\* Types of class objects, tables and frames.
TypeOK ==
    /\ \A c \in DOMAIN heap :
           /\ heap[c].d \in Descriptors /\ heap[c].l \in Loaders
           /\ heap[c].st \in {"kIdx", "kLoaded", "kResolving", "kResolved",
                              "kRetired", "kErrorUnresolved"}
           /\ (heap[c].err /= "none") = IsErroneousUnresolved(c)
    /\ table \in [Keys -> 0..Len(heap)]
    /\ ret \in [Threads -> 0..Len(heap)]
    /\ calls \in [Threads -> 0..MaxCalls]

\* What is returned is resolved, is what the table holds, and is neither a
\* temporary class nor a retired one.  So however many threads look for a name
\* through a loader, and whoever wins the race to define it, all get one class.
FoundIsCurrent == \A k \in Keys : \A c \in found[k] : IsResolved(c) /\ table[k] = c

\* The callers rely on it: a result and a pending exception exclude each other.
ResultOrException ==
    \A t \in Threads :
        stack[t] = <<>> \/ At(t, "Find", "done") \/ At(t, "Define", "parent") =>
            ((ret[t] = 0) = (exc[t] /= "none")) \/ calls[t] = 0

\* What FindClass promises its callers, over well-formed tables.
FindContract == TypeOK /\ FoundIsCurrent /\ ResultOrException

\* A class path file has one cache, and every class defined from it uses that
\* one, however its threads raced to register it.
OneDexCache == \A c \in DOMAIN heap :
    heap[c].d \notin Arrays =>
        dexCaches[DexFile[heap[c].l]] = [cache |-> heap[c].cache, loader |-> heap[c].l]

\* Climbing from d to superclasses and interfaces may lead into a circle.
UnderCircle(d) == \E S \in SUBSET Descriptors :
    d \in S /\ \A e \in S : Range(Parents[e]) \intersect S /= {}
\* The classes above a resolved class were found, resolved, before it; so it is
\* neither on a circle nor under one: a circle is never resolved.
ParentsResolvedFirst ==
    \A c \in DOMAIN heap : IsResolved(c) /\ heap[c].d \notin Arrays =>
        /\ ~UnderCircle(heap[c].d)
        /\ \A p \in Range(Parents[heap[c].d]) : found[<<p, heap[c].l>>] /= {}

\* A table entry is never removed, and changes only from a temporary class to
\* the copy that replaces it: code that looked a class up may keep it.
TableStable ==
    [][\A k \in Keys : table'[k] /= table[k] =>
          \/ table[k] = 0
          \/ IsTemp(table[k]) /\ heap[table[k]].d = heap'[table'[k]].d]_vars

\* Every search ends, when no two threads share a circle of classes.
EveryFindReturns == \A t \in Threads : []<>(stack[t] = <<>>)
==============================================================================
