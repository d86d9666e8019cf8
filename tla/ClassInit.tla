------------------------------ MODULE ClassInit ------------------------------
(***************************************************************************)
(* Verification and initialisation of linked classes: EnsureInitialized,   *)
(* InitializeClass, WaitForInitializeClass,                                *)
(* InitializeDefaultInterfaceRecursive, VerifyClass and                    *)
(* AttemptSupertypeVerification of class_linker.c, at run time (never in   *)
(* the ahead-of-time compiler, so soft failures leave a class verified).   *)
(*                                                                         *)
(* Every thread has a stack of the calls it is in, innermost first.  One   *)
(* step of a thread is the code between two places where it may block, be  *)
(* overtaken on the status of another class, or call.  A class is its own  *)
(* monitor: owner[k] is the thread that keeps the lock across a call (only *)
(* InitializeClass does, while it calls VerifyClass); a block that locks   *)
(* and unlocks without calling is one step that needs the lock to be free. *)
(* A CHECK or LOG(FATAL) that no behaviour reaches is an invariant         *)
(* (ChecksHold); the one that is reached stops the process: aborted.       *)
(***************************************************************************)
EXTENDS Integers, Sequences, FiniteSets, SequencesExt

CONSTANTS Classes, Interfaces, Threads, NoClass, NoThread,
          Super,       \* Super[k]: the superclass, NoClass for none and for interfaces
          Direct,      \* Direct[k]: the direct interfaces, in declaration order
          HasDefault,  \* the interfaces that have default methods
          Touches,     \* Touches[k]: the classes whose use makes <clinit> of k initialise them
          MayThrow,    \* the classes whose static values or <clinit> may throw
          MayReject,   \* the classes the verifier may reject
          MayMismatch, \* the classes with a method that may resolve differently in a supertype's loader
          Precompiled, \* the classes whose status starts as kRetryVerificationAtRuntime
          Roots,       \* the classes a thread may ask for
          MaxCalls     \* bound: how often one thread asks

VARIABLES status, clinitTid, recInit, attempted, owner, waiting,
          stack, exc, ret, calls, aborted,
          started      \* history: how often <clinit> of k was entered

cvars == <<status, clinitTid, recInit, attempted>>
vars == <<status, clinitTid, recInit, attempted, owner, waiting,
          stack, exc, ret, calls, aborted, started>>

\* ClassStatus, in its order; kErrorResolved is below every live status.
Rank == [kErrorResolved |-> 2, kResolved |-> 7, kVerifying |-> 8,
         kRetryVerificationAtRuntime |-> 9, kVerifyingAtRuntime |-> 10,
         kVerified |-> 11, kInitializing |-> 13, kInitialized |-> 14]
Statuses == DOMAIN Rank

\* What k extends and implements, and the classes above it: those in every set
\* that holds the parents of k and the parents of its members.
Parents(k) == Range(Direct[k]) \union ({Super[k]} \ {NoClass})
Above(k) == {a \in Classes : \A S \in SUBSET Classes :
                 Parents(k) \subseteq S /\ (\A c \in S : Parents(c) \subseteq S) => a \in S}
\* The interfaces above k: what its interface table holds.
IfSet == [k \in Classes |-> Above(k) \intersect Interfaces]

\* A class above itself is refused when it is loaded (ClassCircularityError), one
\* that extends an interface when it is linked (LinkSuperClass).
ASSUME InitAssumption ==
    /\ IsFiniteSet(Classes)
    /\ Interfaces \subseteq Classes /\ HasDefault \subseteq Interfaces
    /\ Super \in [Classes -> Classes \union {NoClass}]
    /\ \A k \in Interfaces : Super[k] = NoClass
    /\ \A k \in Classes : Super[k] \notin Interfaces
    /\ Direct \in [Classes -> Seq(Interfaces)] /\ Touches \in [Classes -> Seq(Classes)]
    /\ \A k \in Classes : k \notin Above(k)
    /\ Roots \subseteq Classes
    /\ NoClass \notin Classes /\ NoThread \notin Threads
    /\ MaxCalls \in Nat

IsVerified(k) == Rank[status[k]] >= Rank["kVerified"]
IsErroneous(k) == status[k] = "kErrorResolved"
IsInitialized(k) == status[k] = "kInitialized"
ShouldVerifyAtRuntime(k) == status[k] = "kRetryVerificationAtRuntime"
InVerifier(k) == status[k] \in {"kVerifying", "kVerifyingAtRuntime"}

----------------------------------------------------------------------------
\* Frames and the moves between them.

Frame(fn, k, pc, todo) == [fn |-> fn, k |-> k, pc |-> pc, todo |-> todo]
Top(t) == Head(stack[t])
At(t, fn, pc) == /\ ~aborted
                 /\ stack[t] /= <<>> /\ Top(t).fn = fn /\ Top(t).pc = pc
                 /\ \A k \in Classes : t \notin waiting[k]

Moved(t, pc) == <<[Top(t) EXCEPT !.pc = pc]>> \o Tail(stack[t])
MovedWith(t, pc, todo) == <<Frame(Top(t).fn, Top(t).k, pc, todo)>> \o Tail(stack[t])

Goto(t, pc) == stack' = [stack EXCEPT ![t] = Moved(t, pc)] /\ UNCHANGED ret
GotoWith(t, pc, todo) ==
    stack' = [stack EXCEPT ![t] = MovedWith(t, pc, todo)] /\ UNCHANGED ret
Call(t, after, callee) ==
    stack' = [stack EXCEPT ![t] = <<callee>> \o Moved(t, after)] /\ UNCHANGED ret
Return(t, value) == /\ stack' = [stack EXCEPT ![t] = Tail(@)]
                    /\ ret' = [ret EXCEPT ![t] = value]
Throw(t, what) == exc' = [exc EXCEPT ![t] = what]

InitFrame(k) == Frame("Init", k, "enter", <<>>)
VerifyFrame(k) == Frame("Verify", k, "lock", <<>>)
DefaultFrame(k) == Frame("Default", k, "supers", Direct[k])

CanLock(t, k) == owner[k] \in {NoThread, t}
\* InitializeClass keeps the lock of k while it calls VerifyClass.
KeepsLock(t, k) == \E i \in DOMAIN stack[t] :
                       stack[t][i].fn = "Init" /\ stack[t][i].k = k /\ stack[t][i].pc = "verified"

\* Mutant: the status is written without notifying the waiters.
SetStatusQuiet(k, s) == /\ status' = [status EXCEPT ![k] = s]
                        /\ UNCHANGED waiting
\* Class::SetStatus: write the status and notify every waiter on the class.
SetStatus(k, s) == /\ status' = [status EXCEPT ![k] = s]
                   /\ waiting' = [waiting EXCEPT ![k] = {}]
\* ObjectLock::WaitIgnoringInterrupts: give the lock up, however often it is held.
Wait(t, k) == /\ waiting' = [waiting EXCEPT ![k] = @ \union {t}]
              /\ owner' = [owner EXCEPT ![k] = NoThread]
Release(t, k) == owner' = [owner EXCEPT ![k] = NoThread]

\* ThrowEarlierClassFailure, HandleEarlierVerifyError: the error stored with
\* the class is thrown again, wrapped when the class was to be initialised.
EarlierFailure(wrap) == IF wrap THEN "NoClassDefFoundError" ELSE "stored error"

\* The possible outcomes of comparing the overriding methods' types with those
\* their supertypes' class loaders resolve.
ValidateSuperClassDescriptors(k) ==
    IF k \in MayMismatch \ Interfaces THEN BOOLEAN ELSE {TRUE}

----------------------------------------------------------------------------
\* InitializeClass.

\* The check of EnsureInitialized and of InitializeClass before the lock.
InitEnter(t) ==
    /\ At(t, "Init", "enter")
    /\ IF IsInitialized(Top(t).k) THEN Return(t, TRUE) ELSE Goto(t, "lock")
    /\ UNCHANGED <<cvars, owner, waiting, exc, calls, aborted, started>>

\* Mutant: the thread that initialises is not recorded.
ClaimUntracked(t, k) ==
    /\ IF IsInitialized(k) THEN Return(t, TRUE) /\ UNCHANGED <<status, waiting>>
       ELSE SetStatus(k, "kInitializing") /\ Goto(t, "super")
    /\ Release(t, k)
    /\ UNCHANGED <<clinitTid, recInit, attempted, exc, aborted>>
\* Mutant: a class in initialisation is claimed again.
ClaimAgain(t, k) ==
    /\ IF IsInitialized(k) THEN Return(t, TRUE) /\ UNCHANGED <<status, clinitTid, waiting>>
       ELSE /\ clinitTid' = [clinitTid EXCEPT ![k] = t]
            /\ SetStatus(k, "kInitializing") /\ Goto(t, "super")
    /\ Release(t, k)
    /\ UNCHANGED <<recInit, attempted, exc, aborted>>
\* Mutant: any thread goes on with a class in initialisation.
ClaimNoWait(t, k) ==
    /\ IF status[k] /= "kVerified" THEN Return(t, TRUE) /\ UNCHANGED <<status, clinitTid, waiting>>
       ELSE /\ clinitTid' = [clinitTid EXCEPT ![k] = t]
            /\ SetStatus(k, "kInitializing") /\ Goto(t, "super")
    /\ Release(t, k)
    /\ UNCHANGED <<recInit, attempted, exc, aborted>>
\* What is done under the lock once the class is known not to need the
\* verifier: wait for the thread that initialises it, or claim it.
Claim(t, k) ==
    \/ /\ IsInitialized(k)
       /\ Return(t, TRUE) /\ Release(t, k)
       /\ UNCHANGED <<cvars, waiting, exc, aborted>>
    \/ /\ status[k] = "kInitializing" /\ exc[t] /= "none"
       /\ Return(t, FALSE) /\ Release(t, k)
       /\ UNCHANGED <<cvars, waiting, exc, aborted>>
    \/ /\ status[k] = "kInitializing" /\ exc[t] = "none" /\ clinitTid[k] = t
       /\ Return(t, TRUE) /\ Release(t, k)
       /\ UNCHANGED <<cvars, waiting, exc, aborted>>
    \/ /\ status[k] = "kInitializing" /\ exc[t] = "none" /\ clinitTid[k] /= t
       /\ Goto(t, "waiting") /\ Wait(t, k)
       /\ UNCHANGED <<cvars, exc, aborted>>
    \/ /\ status[k] = "kVerified" /\ FALSE \in ValidateSuperClassDescriptors(k)
       /\ SetStatus(k, "kErrorResolved") /\ Throw(t, "LinkageError")
       /\ Return(t, FALSE) /\ Release(t, k)
       /\ UNCHANGED <<clinitTid, recInit, attempted, aborted>>
    \/ /\ status[k] = "kVerified" /\ TRUE \in ValidateSuperClassDescriptors(k)
       /\ clinitTid' = [clinitTid EXCEPT ![k] = t]
       /\ SetStatus(k, "kInitializing")
       /\ Goto(t, "super") /\ Release(t, k)
       /\ UNCHANGED <<recInit, attempted, exc, aborted>>

InitLock(t) ==
    LET k == Top(t).k IN
    /\ At(t, "Init", "lock")
    /\ CanLock(t, k)
    /\ \/ /\ IsErroneous(k)
          /\ Throw(t, EarlierFailure(TRUE)) /\ Return(t, FALSE)
          /\ UNCHANGED <<cvars, owner, waiting, aborted>>
       \/ /\ ~IsErroneous(k) /\ ~IsVerified(k)
          /\ owner' = [owner EXCEPT ![k] = t]
          /\ Call(t, "verified", VerifyFrame(k))
          /\ UNCHANGED <<cvars, waiting, exc, aborted>>
       \/ /\ IsVerified(k)
          /\ Claim(t, k)
    /\ UNCHANGED <<calls, started>>

\* VerifyClass has returned and the lock is still held.
InitVerified(t) ==
    LET k == Top(t).k IN
    /\ At(t, "Init", "verified")
    /\ \/ /\ IsErroneous(k)
          /\ IF exc[t] = "none" THEN Throw(t, EarlierFailure(TRUE)) ELSE UNCHANGED exc
          /\ Return(t, FALSE) /\ Release(t, k)
          /\ UNCHANGED <<cvars, waiting, aborted>>
       \/ /\ IsVerified(k)
          /\ Claim(t, k)
    /\ UNCHANGED <<calls, started>>

\* WaitForInitializeClass, after the wait: the thread is no longer in the wait
\* set and needs the lock again.
WaitForInitializeClass(t) ==
    LET k == Top(t).k IN
    /\ At(t, "Init", "waiting")
    /\ CanLock(t, k)
    /\ \/ /\ status[k] = "kInitializing"
          /\ Wait(t, k)
          /\ UNCHANGED <<stack, ret, exc, aborted>>
       \/ /\ IsErroneous(k)
          /\ Throw(t, "NoClassDefFoundError") /\ Return(t, FALSE)
          /\ UNCHANGED <<owner, waiting, aborted>>
       \/ /\ IsInitialized(k)
          /\ Return(t, TRUE)
          /\ UNCHANGED <<owner, waiting, exc, aborted>>
    /\ UNCHANGED <<cvars, calls, started>>

\* Mutant: a superclass that somebody initialises is taken as initialised.
InitSuperEager(t) ==
    LET k == Top(t).k IN
    /\ At(t, "Init", "super")
    /\ IF k \notin Interfaces /\ Super[k] /= NoClass /\ Rank[status[Super[k]]] < Rank["kInitializing"]
       THEN Call(t, "superDone", InitFrame(Super[k]))
       ELSE GotoWith(t, "ifaces", IF k \in Interfaces THEN <<>> ELSE Direct[k])
    /\ UNCHANGED <<cvars, owner, waiting, exc, calls, aborted, started>>
\* Initialise the superclass, without the lock.
InitSuper(t) ==
    LET k == Top(t).k IN
    /\ At(t, "Init", "super")
    /\ IF k \notin Interfaces /\ Super[k] /= NoClass /\ ~IsInitialized(Super[k])
       THEN Call(t, "superDone", InitFrame(Super[k]))
       ELSE GotoWith(t, "ifaces", IF k \in Interfaces THEN <<>> ELSE Direct[k])
    /\ UNCHANGED <<cvars, owner, waiting, exc, calls, aborted, started>>

\* The superclass or an interface failed: so does this class.
FailFromParent(t, k) ==
    /\ CanLock(t, k)
    /\ SetStatus(k, "kErrorResolved")
    /\ Return(t, FALSE)
    /\ UNCHANGED <<clinitTid, recInit, attempted, owner, exc, aborted>>

InitSuperDone(t) ==
    LET k == Top(t).k IN
    /\ At(t, "Init", "superDone")
    /\ \/ /\ ret[t]
          /\ GotoWith(t, "ifaces", Direct[k])
          /\ UNCHANGED <<cvars, owner, waiting, exc, aborted>>
       \/ /\ ~ret[t]
          /\ FailFromParent(t, k)
    /\ UNCHANGED <<calls, started>>

\* The loop over the direct interfaces.
InitIfaces(t) ==
    LET todo == Top(t).todo IN
    /\ At(t, "Init", "ifaces")
    /\ \/ /\ todo = <<>>
          /\ Goto(t, "statics")
       \/ /\ todo /= <<>> /\ recInit[Head(todo)]
          /\ GotoWith(t, "ifaces", Tail(todo))
       \/ /\ todo /= <<>> /\ ~recInit[Head(todo)]
          /\ Call(t, "ifaceDone", DefaultFrame(Head(todo)))
    /\ UNCHANGED <<cvars, owner, waiting, exc, calls, aborted, started>>

InitIfaceDone(t) ==
    /\ At(t, "Init", "ifaceDone")
    /\ \/ /\ ret[t]
          /\ GotoWith(t, "ifaces", Tail(Top(t).todo))
          /\ UNCHANGED <<cvars, owner, waiting, exc, aborted>>
       \/ /\ ~ret[t]
          /\ FailFromParent(t, Top(t).k)
    /\ UNCHANGED <<calls, started>>

\* Static values, then <clinit> unless reading them threw.
InitStatics(t) ==
    LET k == Top(t).k IN
    /\ At(t, "Init", "statics")
    /\ \/ /\ GotoWith(t, "clinit", Touches[k])
          /\ started' = [started EXCEPT ![k] = @ + 1]
          /\ UNCHANGED exc
       \/ /\ k \in MayThrow
          /\ Throw(t, "StaticValue")
          /\ Goto(t, "finish")
          /\ UNCHANGED started
    /\ UNCHANGED <<cvars, owner, waiting, calls, aborted>>

\* <clinit> runs Java code: it uses other classes, one after the other, catches
\* what they throw or lets it through, and returns or throws.
Clinit(t) ==
    LET f == Top(t) IN
    /\ At(t, "Init", "clinit")
    /\ \/ /\ f.todo /= <<>> /\ exc[t] = "none"
          /\ stack' = [stack EXCEPT ![t] =
                           <<InitFrame(Head(f.todo))>> \o MovedWith(t, "clinit", Tail(f.todo))]
          /\ UNCHANGED <<exc, ret>>
       \/ /\ f.todo = <<>> /\ exc[t] = "none"
          /\ Goto(t, "finish")
          /\ exc' \in {exc} \union (IF f.k \in MayThrow
                                    THEN {[exc EXCEPT ![t] = "Clinit"]} ELSE {})
       \/ /\ exc[t] /= "none"
          /\ \/ Goto(t, "finish") /\ UNCHANGED exc
             \/ Throw(t, "none") /\ UNCHANGED <<stack, ret>>
    /\ UNCHANGED <<cvars, owner, waiting, calls, aborted, started>>

\* The outcome is recorded under the lock: initialised, or erroneous with what
\* was thrown wrapped in an ExceptionInInitializerError.
InitFinish(t) ==
    LET k == Top(t).k
        ok == exc[t] = "none"
    IN
    /\ At(t, "Init", "finish")
    /\ CanLock(t, k)
    /\ SetStatus(k, IF ok THEN "kInitialized" ELSE "kErrorResolved")
    /\ IF ok THEN UNCHANGED exc ELSE Throw(t, "ExceptionInInitializerError")
    /\ Return(t, ok)
    /\ UNCHANGED <<clinitTid, recInit, attempted, owner, calls, aborted, started>>

----------------------------------------------------------------------------
\* InitializeDefaultInterfaceRecursive.

\* Mutant: the superinterfaces are visited, the interface itself is not.
DefaultSupersOnly(t) ==
    LET todo == Top(t).todo IN
    /\ At(t, "Default", "supers")
    /\ IF todo = <<>>
       THEN /\ stack' = [stack EXCEPT ![t] = Moved(t, "mark")]
            /\ ret' = [ret EXCEPT ![t] = TRUE]
       ELSE IF recInit[Head(todo)] THEN GotoWith(t, "supers", Tail(todo))
            ELSE Call(t, "superDone", DefaultFrame(Head(todo)))
    /\ UNCHANGED <<cvars, owner, waiting, exc, calls, aborted, started>>
DefaultSupers(t) ==
    LET todo == Top(t).todo IN
    /\ At(t, "Default", "supers")
    /\ \/ /\ todo = <<>>
          /\ IF Top(t).k \in HasDefault THEN Call(t, "mark", InitFrame(Top(t).k))
             ELSE /\ stack' = [stack EXCEPT ![t] = Moved(t, "mark")]
                  /\ ret' = [ret EXCEPT ![t] = TRUE]
       \/ /\ todo /= <<>> /\ recInit[Head(todo)]
          /\ GotoWith(t, "supers", Tail(todo))
       \/ /\ todo /= <<>> /\ ~recInit[Head(todo)]
          /\ Call(t, "superDone", DefaultFrame(Head(todo)))
    /\ UNCHANGED <<cvars, owner, waiting, exc, calls, aborted, started>>

DefaultSuperDone(t) ==
    /\ At(t, "Default", "superDone")
    /\ IF ret[t] THEN GotoWith(t, "supers", Tail(Top(t).todo)) ELSE Return(t, FALSE)
    /\ UNCHANGED <<cvars, owner, waiting, exc, calls, aborted, started>>

\* The mark is set under a try-lock: it fails while another thread, or Java
\* code, holds the monitor of the interface.
DefaultMark(t) ==
    LET k == Top(t).k IN
    /\ At(t, "Default", "mark")
    /\ \/ /\ ret[t] /\ CanLock(t, k)
          /\ recInit' = [recInit EXCEPT ![k] = TRUE]
       \/ UNCHANGED recInit
    /\ Return(t, ret[t])
    /\ UNCHANGED <<status, clinitTid, attempted, owner, waiting, exc, calls, aborted, started>>

----------------------------------------------------------------------------
\* VerifyClass.  A waiter comes back to "lock"; todo holds the status it saw.

Relock(t, k) == owner' = [owner EXCEPT ![k] = IF KeepsLock(t, k) THEN t ELSE NoThread]

VerifyLock(t) ==
    LET f == Top(t)
        k == f.k
    IN
    /\ At(t, "Verify", "lock")
    /\ CanLock(t, k)
    /\ \/ /\ InVerifier(k)
          /\ Wait(t, k)
          /\ GotoWith(t, "lock", <<status[k]>>)
          /\ UNCHANGED <<cvars, exc, aborted>>
       \/ /\ IsErroneous(k)
          /\ Throw(t, EarlierFailure(FALSE)) /\ Return(t, FALSE)
          /\ Relock(t, k)
          /\ UNCHANGED <<cvars, waiting, aborted>>
       \/ /\ IsVerified(k)
          /\ attempted' = [attempted EXCEPT ![k] = TRUE]
          /\ Return(t, TRUE)
          /\ Relock(t, k)
          /\ UNCHANGED <<status, clinitTid, recInit, waiting, exc, aborted>>
       \/ /\ status[k] \in {"kResolved", "kRetryVerificationAtRuntime"}
          /\ SetStatus(k, IF status[k] = "kResolved" THEN "kVerifying" ELSE "kVerifyingAtRuntime")
          /\ GotoWith(t, "super", <<>>)
          /\ Relock(t, k)
          /\ UNCHANGED <<clinitTid, recInit, attempted, exc, aborted>>
    /\ UNCHANGED <<calls, started>>

\* AttemptSupertypeVerification(klass, s), first half: verify s unless its
\* status, read without a lock, says that it is done.
Attempt(t, s, after) ==
    IF ~IsVerified(s) /\ ~IsErroneous(s)
    THEN Call(t, after, VerifyFrame(s))
    ELSE Goto(t, after)

\* Mutant: a superclass another thread verifies is not waited for.
VerifySuperNoWait(t) ==
    LET k == Top(t).k IN
    /\ At(t, "Verify", "super")
    /\ IF Super[k] = NoClass THEN Goto(t, "superOk")
       ELSE IF InVerifier(Super[k]) THEN Goto(t, "superOk")
       ELSE Attempt(t, Super[k], "superDone")
    /\ UNCHANGED <<cvars, owner, waiting, exc, calls, aborted, started>>
VerifySuper(t) ==
    LET k == Top(t).k IN
    /\ At(t, "Verify", "super")
    /\ IF Super[k] = NoClass THEN Goto(t, "superOk") ELSE Attempt(t, Super[k], "superDone")
    /\ UNCHANGED <<cvars, owner, waiting, exc, calls, aborted, started>>

\* Second half: the status of s is read again, still without its lock.
VerifySuperDone(t) ==
    /\ At(t, "Verify", "superDone")
    /\ Goto(t, IF IsVerified(Super[Top(t).k]) \/ ShouldVerifyAtRuntime(Super[Top(t).k])
               THEN "superOk" ELSE "reject")
    /\ UNCHANGED <<cvars, owner, waiting, exc, calls, aborted, started>>

\* The interfaces with default methods, unless this is an interface itself or
\* the superclass, read once more, is not verified any longer.
VerifySuperOk(t) ==
    LET k == Top(t).k
        visit == k \notin Interfaces /\ (Super[k] /= NoClass => IsVerified(Super[k]))
    IN
    /\ At(t, "Verify", "superOk")
    /\ GotoWith(t, "ifaces",
                IF visit THEN SetToSeq({i \in IfSet[k] : i \in HasDefault}) ELSE <<>>)
    /\ UNCHANGED <<cvars, owner, waiting, exc, calls, aborted, started>>

VerifyIfaces(t) ==
    LET todo == Top(t).todo IN
    /\ At(t, "Verify", "ifaces")
    /\ \/ /\ todo = <<>>
          /\ Goto(t, "verify")
       \/ /\ todo /= <<>> /\ IsVerified(Head(todo))
          /\ GotoWith(t, "ifaces", Tail(todo))
       \/ /\ todo /= <<>> /\ ~IsVerified(Head(todo))
          /\ Attempt(t, Head(todo), "ifaceDone")
    /\ UNCHANGED <<cvars, owner, waiting, exc, calls, aborted, started>>

VerifyIfaceDone(t) ==
    /\ At(t, "Verify", "ifaceDone")
    /\ Goto(t, IF IsVerified(Head(Top(t).todo)) THEN "ifaceOk" ELSE "reject")
    /\ UNCHANGED <<cvars, owner, waiting, exc, calls, aborted, started>>

\* Its status is read a third time: an interface that is not verified any more
\* ends the walk and takes the superclass's place in what follows.
VerifyIfaceOk(t) ==
    LET todo == Top(t).todo IN
    /\ At(t, "Verify", "ifaceOk")
    /\ IF IsVerified(Head(todo)) THEN GotoWith(t, "ifaces", Tail(todo))
       ELSE GotoWith(t, "verify", <<Head(todo)>>)
    /\ UNCHANGED <<cvars, owner, waiting, exc, calls, aborted, started>>

\* Mutant: the class is rejected without an exception.
VerifyRejectQuiet(t) ==
    /\ At(t, "Verify", "reject")
    /\ CanLock(t, Top(t).k)
    /\ SetStatus(Top(t).k, "kErrorResolved")
    /\ Return(t, FALSE)
    /\ UNCHANGED <<clinitTid, recInit, attempted, owner, exc, calls, aborted, started>>
\* A supertype is erroneous: this class is rejected with a VerifyError.
VerifyReject(t) ==
    LET k == Top(t).k IN
    /\ At(t, "Verify", "reject")
    /\ CanLock(t, k)
    /\ Throw(t, "VerifyError")
    /\ SetStatus(k, "kErrorResolved")
    /\ Return(t, FALSE)
    /\ UNCHANGED <<clinitTid, recInit, attempted, owner, calls, aborted, started>>

\* The oat file's word or the verifier's (external): accept, soft or hard failure.
PerformClassVerification(t) ==
    /\ At(t, "Verify", "verify")
    /\ \E how \in {"accept", "soft"} \union (IF Top(t).k \in MayReject THEN {"hard"} ELSE {}) :
           GotoWith(t, "finish", <<how>> \o Top(t).todo)
    /\ UNCHANGED <<cvars, owner, waiting, exc, calls, aborted, started>>

\* The outcome is recorded under the lock; for an accepted class the status of
\* the supertype (the superclass or the interface that ended the walk) is read
\* once more.
Supertype(f) == IF Len(f.todo) = 2 THEN f.todo[2] ELSE Super[f.k]
VerifyFinish(t) ==
    LET k == Top(t).k
        how == Head(Top(t).todo)
        s == Supertype(Top(t))
        superOk == s /= NoClass => IsVerified(s)
    IN
    /\ At(t, "Verify", "finish")
    /\ CanLock(t, k)
    /\ \/ /\ how = "hard"
          /\ Throw(t, "VerifyError")
          /\ SetStatus(k, "kErrorResolved")
          /\ Return(t, FALSE)
          /\ UNCHANGED <<attempted, aborted>>
       \/ /\ how /= "hard" /\ (how = "accept" => superOk)
          /\ SetStatus(k, "kVerified")
          /\ attempted' = [attempted EXCEPT ![k] = TRUE]
          /\ Return(t, TRUE)
          /\ UNCHANGED <<exc, aborted>>
       \/ /\ how = "accept" /\ ~superOk
          /\ aborted' = TRUE
          /\ UNCHANGED <<status, attempted, waiting, stack, exc, ret>>
    /\ UNCHANGED <<clinitTid, recInit, owner, calls, started>>

----------------------------------------------------------------------------
\* The callers: a thread without a call asks for a class to be initialised (or
\* verified); when the call has returned it has handled the exception.
EnsureInitialized(t, k) ==
    /\ ~aborted /\ stack[t] = <<>> /\ calls[t] < MaxCalls
    /\ calls' = [calls EXCEPT ![t] = @ + 1]
    /\ Throw(t, "none")
    /\ stack' = [stack EXCEPT ![t] = <<InitFrame(k)>>]
    /\ UNCHANGED <<cvars, owner, waiting, ret, aborted, started>>

\* A wait may end early, on an interrupt.
WakeEarly(t) ==
    /\ ~aborted
    /\ \E k \in Classes : /\ t \in waiting[k]
                          /\ waiting' = [waiting EXCEPT ![k] = @ \ {t}]
    /\ UNCHANGED <<cvars, owner, stack, exc, ret, calls, aborted, started>>

Init ==
    /\ status = [k \in Classes |-> IF k \in Precompiled THEN "kRetryVerificationAtRuntime"
                                   ELSE "kResolved"]
    /\ clinitTid = [k \in Classes |-> NoThread]
    /\ recInit = [k \in Classes |-> FALSE]
    /\ attempted = [k \in Classes |-> FALSE]
    /\ owner = [k \in Classes |-> NoThread]
    /\ waiting = [k \in Classes |-> {}]
    /\ stack = [t \in Threads |-> <<>>]
    /\ exc = [t \in Threads |-> "none"]
    /\ ret = [t \in Threads |-> TRUE]
    /\ calls = [t \in Threads |-> 0]
    /\ aborted = FALSE
    /\ started = [k \in Classes |-> 0]

Step(t) ==
    \/ InitEnter(t) \/ InitLock(t) \/ InitVerified(t) \/ WaitForInitializeClass(t)
    \/ InitSuper(t) \/ InitSuperDone(t) \/ InitIfaces(t) \/ InitIfaceDone(t)
    \/ InitStatics(t) \/ Clinit(t) \/ InitFinish(t)
    \/ DefaultSupers(t) \/ DefaultSuperDone(t) \/ DefaultMark(t)
    \/ VerifyLock(t) \/ VerifySuper(t) \/ VerifySuperDone(t) \/ VerifySuperOk(t)
    \/ VerifyIfaces(t) \/ VerifyIfaceDone(t) \/ VerifyIfaceOk(t) \/ VerifyReject(t)
    \/ PerformClassVerification(t) \/ VerifyFinish(t)

\* Every thread is done, or the process has aborted.
Ended == /\ \/ aborted
            \/ \A t \in Threads : stack[t] = <<>> /\ calls[t] = MaxCalls
         /\ UNCHANGED vars

Next == \/ \E t \in Threads : Step(t) \/ WakeEarly(t) \/ \E k \in Roots : EnsureInitialized(t, k)
        \/ Ended

Spec == Init /\ [][Next]_vars
\* The scheduler runs every thread that can run.
LiveSpec == Spec /\ \A t \in Threads : WF_vars(Step(t))
----------------------------------------------------------------------------
\* Properties.

AfterClaim == {"super", "superDone", "ifaces", "ifaceDone", "statics", "clinit", "finish"}
Outcomes == {"accept", "soft", "hard"}
Places == {"enter", "lock", "verified", "waiting"} \union AfterClaim
          \union {"supers", "mark", "superOk", "ifaceOk", "reject", "verify"}
Todos == Seq(Classes \union Statuses \union Outcomes)
Frames == [fn: {"Init", "Verify", "Default"}, k: Classes, pc: Places, todo: Todos]

\* Types; a class being initialised or done names the thread that claimed it.
TypeOK ==
    /\ status \in [Classes -> Statuses]
    /\ clinitTid \in [Classes -> Threads \union {NoThread}]
    /\ \A k \in Classes : status[k] \in {"kInitializing", "kInitialized"} => clinitTid[k] \in Threads
    /\ recInit \in [Classes -> BOOLEAN] /\ attempted \in [Classes -> BOOLEAN]
    /\ owner \in [Classes -> Threads \union {NoThread}]
    /\ waiting \in [Classes -> SUBSET Threads]
    /\ stack \in [Threads -> Seq(Frames)]
    /\ exc \in [Threads -> {"none", "NoClassDefFoundError", "stored error", "LinkageError",
                            "StaticValue", "Clinit", "ExceptionInInitializerError", "VerifyError"}]
    /\ ret \in [Threads -> BOOLEAN] /\ calls \in [Threads -> 0..MaxCalls]
    /\ aborted \in BOOLEAN /\ started \in [Classes -> Nat]

Doing(t, k, pcs) == \E i \in DOMAIN stack[t] :
    stack[t][i].fn = "Init" /\ stack[t][i].k = k /\ stack[t][i].pc \in pcs
Verifying(t, k) == \E i \in DOMAIN stack[t] :
    stack[t][i].fn = "Verify" /\ stack[t][i].k = k /\ stack[t][i].pc /= "lock"

\* The supertype was found verified and has failed since: in the hands of the
\* thread that initialises it, or when its types were compared; never here.
SuperFailedMeanwhile ==
    \E t \in Threads :
        /\ stack[t] /= <<>> /\ Top(t).fn = "Verify" /\ Top(t).pc = "finish"
        /\ LET s == Supertype(Top(t)) IN
           /\ s /= NoClass
           /\ IsErroneous(s) /\ attempted[s] /\ clinitTid[s] /= t

\* Status and exception of a thread are what the CHECKs on its way expect.
PendingAsExpected ==
    \A t \in Threads :
        LET k == Top(t).k IN
        /\ At(t, "Init", "lock") => exc[t] = "none"
        /\ At(t, "Init", "verified") =>
               \/ IsErroneous(k) /\ exc[t] /= "none"
               \/ IsVerified(k) /\ exc[t] = "none"
        /\ At(t, "Init", "waiting") =>
               status[k] \in {"kInitializing", "kInitialized", "kErrorResolved"}
        /\ At(t, "Verify", "lock") /\ Top(t).todo /= <<>> =>
               IsErroneous(k) \/ Rank[status[k]] >= Rank[Head(Top(t).todo)]
        /\ At(t, "Init", "superDone") \/ At(t, "Init", "ifaceDone")
               \/ At(t, "Default", "mark") \/ stack[t] = <<>> =>
               ret[t] = (exc[t] = "none")

\* The CHECKs and LOG(FATAL)s on the way: a class that comes out of VerifyClass
\* under the lock is erroneous with an exception pending, or verified without
\* one; a waiter finds a status it knows; a verifier's waiter never sees the
\* status go back; whoever is told that a call failed has an exception pending,
\* whoever is told that it succeeded has none.  The CHECK_EQ at the end of
\* VerifyClass fails in one way only: a supertype that failed verification, or
\* that another thread has not finished verifying, never gets this far.
ChecksHold == IF aborted THEN SuperFailedMeanwhile ELSE PendingAsExpected

\* A class is the charge of one thread from the claim to the last status: no
\* second thread is ever between them for the same class, and none verifies it;
\* <clinit> is entered at most once, whoever asks, waits or is woken early, and
\* the state stays well formed.
OneInitializer == TypeOK /\ \A k \in Classes :
    /\ started[k] <= 1
    /\ \A t \in Threads : Doing(t, k, AfterClaim) =>
           /\ status[k] = "kInitializing" /\ clinitTid[k] = t
           /\ \A u \in Threads : ~Verifying(u, k) /\ (u /= t => ~Doing(u, k, AfterClaim))

\* A thread waits on a class only while another thread is on its way to set
\* the status that wakes it.
NoLostWakeup == \A k \in Classes : \A t \in waiting[k] :
    ~aborted => \E u \in Threads \ {t} : Doing(u, k, AfterClaim) \/ Verifying(u, k)

\* k is initialised, or in the hands of thread t.
Returned(t, k) == \/ IsInitialized(k)
                  \/ status[k] = "kInitializing" /\ clinitTid[k] = t
\* What the initialisation of k may start: what k extends, implements or uses in
\* its <clinit>, and what those may start.  In a circle two initialisers need each
\* other, and the language lets one of them go on too early.
Uses(k) == Parents(k) \union Range(Touches[k])
Needs(k) == {a \in Classes : \A S \in SUBSET Classes :
                 Uses(k) \subseteq S /\ (\A c \in S : Uses(c) \subseteq S) => a \in S}
NoCircle == \A k \in Classes : k \notin Needs(k)

\* A call that succeeded leaves its class initialised, or in the hands of the
\* very thread that asked: nobody goes on with a class another thread runs.
\* When <clinit> of a class runs, this is so of its superclass and of every
\* interface above it that has default methods.
SupersFirst ==
    \A t \in Threads :
        /\ At(t, "Default", "mark") /\ ret[t] /\ Top(t).k \in HasDefault => Returned(t, Top(t).k)
        /\ \A k \in Classes \ Interfaces : Doing(t, k, {"clinit"}) =>
               \A s \in (IfSet[k] \cap HasDefault) \union ({Super[k]} \ {NoClass}) : Returned(t, s)

\* Every request ends: no cycle of locks, waits and wakeups holds a thread for
\* ever when the initialisers do not need each other in a circle.
EveryCallReturns == \A t \in Threads : []<>(stack[t] = <<>> \/ aborted)

\* The promise of the procedure, by the phase of every class.
Phase(k) == CASE IsErroneous(k) -> "failed"
              [] IsInitialized(k) -> "done"
              [] status[k] = "kInitializing" ->
                   IF \E t \in Threads : Doing(t, k, {"clinit", "finish"}) THEN "clinit" ELSE "claimed"
              [] OTHER -> "fresh"
Jls == INSTANCE JlsInit WITH phase <- [k \in Classes |-> Phase(k)], by <- clinitTid
\* InitializeClass implements the initialisation procedure of the language.
ImplementsJls == Jls!Spec

==============================================================================
