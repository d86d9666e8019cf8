--------------------------- MODULE ClassInitProofs ---------------------------
(***************************************************************************)
(* Proofs about ClassInit, for any number of threads and classes: type     *)
(* correctness, one initialiser per class, no lost wake-up, the CHECKs on  *)
(* the way, supertypes first, and the refinement of JlsInit.               *)
(*                                                                         *)
(* Frames are counted from the bottom here: a step changes the frames of   *)
(* the running thread at its depth and above, and none below.              *)
(***************************************************************************)
EXTENDS ClassInit, FiniteSetTheorems, SequenceTheorems, TLAPS

\* The frames of thread t, the bottom one first.
depth == [t \in Threads |-> Len(stack[t])]
fr == [t \in Threads |-> [h \in 1..Len(stack[t]) |-> stack[t][Len(stack[t]) + 1 - h]]]
top(t) == fr[t][depth[t]]
Slots(t) == 1..depth[t]

-----------------------------------------------------------------------------
\* The inductive invariant.

StackType == stack \in [Threads -> Seq(Frames)]

\* What a frame carries at each place of its function.
FrameOK(f) ==
    \/ /\ f.fn = "Init" /\ f.pc \in {"enter", "lock", "verified", "waiting"} \union AfterClaim
       /\ f.pc = "superDone" => Super[f.k] # NoClass
       /\ f.pc \in {"ifaces", "ifaceDone"} => f.todo \in Seq(Interfaces)
       /\ f.pc = "ifaceDone" => f.todo # <<>>
       /\ f.pc = "clinit" => f.todo \in Seq(Classes)
    \/ /\ f.fn = "Default" /\ f.pc \in {"supers", "superDone", "mark"}
       /\ f.k \in Interfaces /\ f.todo \in Seq(Interfaces)
       /\ f.pc = "superDone" => f.todo # <<>>
    \/ /\ f.fn = "Verify"
       /\ f.pc \in {"lock", "super", "superDone", "superOk", "ifaces", "ifaceDone", "ifaceOk",
                    "reject", "verify", "finish"}
       /\ f.pc = "superDone" => Super[f.k] # NoClass
       /\ f.pc \in {"ifaces", "ifaceDone", "ifaceOk"} => f.todo \in Seq(IfSet[f.k])
       /\ f.pc \in {"ifaceDone", "ifaceOk"} => f.todo # <<>>
       /\ f.pc = "lock" => f.todo = <<>> \/ \E s \in Statuses : f.todo = <<s>>
       /\ f.pc = "verify" => f.todo = <<>> \/ \E i \in Interfaces : f.todo = <<i>>
       /\ f.pc = "finish" => \E how \in Outcomes :
              f.todo = <<how>> \/ \E i \in Interfaces : f.todo = <<how, i>>
FramesOK == \A t \in Threads : \A h \in Slots(t) : FrameOK(fr[t][h])

\* InitializeClass has claimed its class; VerifyClass has taken its on.
Claimed(f) == f.fn = "Init" /\ f.pc \in AfterClaim
Checking(f) == f.fn = "Verify" /\ f.pc # "lock"
BeforeClinit == {"super", "superDone", "ifaces", "ifaceDone", "statics"}
Over == {"kInitializing", "kInitialized", "kErrorResolved"}

\* A class in initialisation has one claiming frame, of the thread it names.
ClaimsOK ==
    /\ \A t \in Threads : \A h \in Slots(t) : LET f == fr[t][h] IN
           Claimed(f) => /\ status[f.k] = "kInitializing" /\ clinitTid[f.k] = t
                         /\ f.pc \in BeforeClinit => started[f.k] = 0
    /\ \A t \in Threads : \A g, h \in Slots(t) :
           Claimed(fr[t][g]) /\ Claimed(fr[t][h]) /\ fr[t][g].k = fr[t][h].k => g = h
    /\ \A k \in Classes : /\ clinitTid[k] # NoThread => status[k] \in Over
                          /\ started[k] \in {0, 1}
                          /\ status[k] \notin Over => started[k] = 0
    /\ \A k \in Classes : status[k] = "kInitializing" =>
           clinitTid[k] \in Threads /\ \E h \in Slots(clinitTid[k]) : Claimed(fr[clinitTid[k]][h]) /\ fr[clinitTid[k]][h].k = k

\* A class in the verifier has one frame that verifies it.
ChecksOK ==
    /\ \A t \in Threads : \A h \in Slots(t) : Checking(fr[t][h]) => InVerifier(fr[t][h].k)
    /\ \A t, u \in Threads : \A g \in Slots(t), h \in Slots(u) :
           Checking(fr[t][g]) /\ Checking(fr[u][h]) /\ fr[t][g].k = fr[u][h].k => t = u /\ g = h
    /\ \A k \in Classes : InVerifier(k) =>
           \E t \in Threads : \E h \in Slots(t) : Checking(fr[t][h]) /\ fr[t][h].k = k

\* A frame that is not the top one is inside the call it made; VerifyClass only
\* calls itself, and only for classes above.
CalledBy(c, f) ==
    \/ f.fn = "Init" /\ f.pc = "superDone" /\ c.fn = "Init" /\ c.k = Super[f.k]
    \/ f.fn = "Init" /\ f.pc = "ifaceDone" /\ c.fn = "Default" /\ c.k = Head(f.todo)
    \/ f.fn = "Init" /\ f.pc = "verified" /\ c.fn = "Verify" /\ c.k = f.k
    \/ f.fn = "Init" /\ f.pc = "clinit" /\ c.fn = "Init"
    \/ f.fn = "Default" /\ f.pc = "superDone" /\ c.fn = "Default" /\ c.k = Head(f.todo)
    \/ f.fn = "Default" /\ f.pc = "mark" /\ c.fn = "Init" /\ c.k = f.k
    \/ f.fn = "Verify" /\ f.pc = "superDone" /\ c.fn = "Verify" /\ c.k = Super[f.k]
    \/ f.fn = "Verify" /\ f.pc = "ifaceDone" /\ c.fn = "Verify" /\ c.k = Head(f.todo)
CallsOK ==
    /\ \A t \in Threads : \A h \in Slots(t) : h # depth[t] => CalledBy(fr[t][h + 1], fr[t][h])
    /\ \A t \in Threads : \A g, h \in Slots(t) :
           g < h /\ fr[t][g].fn = "Verify" =>
               fr[t][h].fn = "Verify" /\ fr[t][h].k \in Above(fr[t][g].k)

\* A waiting thread waits for somebody else, who is still at it.
WaitOK ==
    /\ \A k \in Classes : \A t \in waiting[k] :
           /\ t \in Threads /\ depth[t] # 0 /\ top(t).k = k
           /\ \/ top(t).fn = "Init" /\ top(t).pc = "waiting" /\ status[k] = "kInitializing"
              \/ top(t).fn = "Verify" /\ top(t).pc = "lock" /\ InVerifier(k)
    /\ \A t \in Threads : \A h \in Slots(t) :
           fr[t][h].fn = "Init" /\ fr[t][h].pc = "waiting" =>
               clinitTid[fr[t][h].k] # t /\ status[fr[t][h].k] \in Over

Core == ClaimsOK /\ ChecksOK /\ CallsOK /\ WaitOK
Safe == TypeOK /\ FramesOK /\ Core

-----------------------------------------------------------------------------
\* The three moves of a thread's stack, as its frames see them.
FrGoto(t, x) ==
    /\ depth' = depth
    /\ \A u \in Threads : \A h \in 1..depth[u] :
           fr'[u][h] = IF u = t /\ h = depth[t] THEN x ELSE fr[u][h]
FrCall(t, x, c) ==
    /\ depth' = [depth EXCEPT ![t] = depth[t] + 1]
    /\ \A u \in Threads : \A h \in 1..depth[u] :
           fr'[u][h] = IF u = t /\ h = depth[t] THEN x ELSE fr[u][h]
    /\ fr'[t][depth[t] + 1] = c
FrReturn(t) ==
    /\ depth' = [depth EXCEPT ![t] = depth[t] - 1]
    /\ \A u \in Threads : \A h \in 1..depth'[u] : fr'[u][h] = fr[u][h]

LEMMA FrType ==
    ASSUME StackType
    PROVE  /\ depth \in [Threads -> Nat]
           /\ \A t \in Threads : \A h \in 1..depth[t] : fr[t][h] \in Frames
           /\ \A t \in Threads : stack[t] = <<>> <=> depth[t] = 0
           /\ \A t \in Threads : depth[t] > 0 => Head(stack[t]) = fr[t][depth[t]]
           /\ \A t \in Threads : \A h \in 1..depth[t] :
                  \E i \in DOMAIN stack[t] : stack[t][i] = fr[t][h]
           /\ \A t \in Threads : \A i \in DOMAIN stack[t] :
                  \E h \in 1..depth[t] : fr[t][h] = stack[t][i]
<1>1. /\ depth \in [Threads -> Nat]
      /\ \A t \in Threads : \A h \in 1..depth[t] : fr[t][h] \in Frames
  BY DEF StackType, depth, fr
<1>2. \A t \in Threads : stack[t] = <<>> <=> depth[t] = 0
  BY DEF StackType, depth
<1>3. \A t \in Threads : depth[t] > 0 => Head(stack[t]) = fr[t][depth[t]]
  BY DEF StackType, depth, fr
<1>4. ASSUME NEW t \in Threads
      PROVE \A i \in 1..depth[t] : /\ depth[t] + 1 - i \in 1..depth[t] /\ i \in DOMAIN stack[t]
                                   /\ fr[t][i] = stack[t][depth[t] + 1 - i]
                                   /\ fr[t][depth[t] + 1 - i] = stack[t][i]
  BY DEF StackType, depth, fr
<1>5. \A t \in Threads : DOMAIN stack[t] = 1..depth[t]
  BY DEF StackType, depth
<1>6. QED BY <1>1, <1>2, <1>3, <1>4, <1>5

LEMMA Gotos ==
    ASSUME StackType, NEW t \in Threads, stack[t] # <<>>, NEW x \in Frames,
           stack' = [stack EXCEPT ![t] = <<x>> \o Tail(stack[t])]
    PROVE  StackType' /\ FrGoto(t, x)
<1> DEFINE s == stack[t]
           r == <<x>> \o Tail(s)
<1>1. /\ s \in Seq(Frames) /\ Len(s) \in Nat \ {0}
      /\ r \in Seq(Frames) /\ Len(r) = Len(s) /\ r[1] = x
      /\ \A i \in 2..Len(s) : r[i] = s[i]
  BY DEF StackType
<1>2. stack'[t] = r /\ \A u \in Threads : u # t => stack'[u] = stack[u]
  BY DEF StackType
<1>3. StackType'
  BY <1>1, <1>2 DEF StackType
<1>4. depth' = depth
  BY <1>1, <1>2 DEF depth
<1>5. ASSUME NEW u \in Threads, NEW h \in 1..depth[u]
      PROVE fr'[u][h] = IF u = t /\ h = depth[t] THEN x ELSE fr[u][h]
  <2>1. CASE u # t
    BY <2>1, <1>2, <1>5 DEF fr, depth
  <2>2. CASE u = t
    <3>1. fr'[t][h] = r[Len(s) + 1 - h] /\ fr[t][h] = s[Len(s) + 1 - h]
      BY <2>2, <1>1, <1>2, <1>5 DEF fr, depth
    <3>2. QED BY <3>1, <2>2, <1>1, <1>5 DEF depth
  <2>3. QED BY <2>1, <2>2
<1>6. QED BY <1>3, <1>4, <1>5 DEF FrGoto

LEMMA Calls ==
    ASSUME StackType, NEW t \in Threads, stack[t] # <<>>, NEW x \in Frames, NEW c \in Frames,
           stack' = [stack EXCEPT ![t] = <<c>> \o (<<x>> \o Tail(stack[t]))]
    PROVE  StackType' /\ FrCall(t, x, c)
<1> DEFINE s == stack[t]
           r == <<c>> \o (<<x>> \o Tail(s))
<1>1. /\ s \in Seq(Frames) /\ Len(s) \in Nat \ {0}
      /\ r \in Seq(Frames) /\ Len(r) = Len(s) + 1 /\ r[1] = c /\ r[2] = x
      /\ \A i \in 3..(Len(s) + 1) : r[i] = s[i - 1]
  <2>1. s \in Seq(Frames) /\ Len(s) \in Nat \ {0} /\ Tail(s) \in Seq(Frames)
    BY DEF StackType
  <2>2. <<x>> \o Tail(s) \in Seq(Frames) /\ Len(<<x>> \o Tail(s)) = Len(s)
        /\ (<<x>> \o Tail(s))[1] = x /\ \A i \in 2..Len(s) : (<<x>> \o Tail(s))[i] = s[i]
    BY <2>1
  <2>3. QED BY <2>1, <2>2
<1>2. stack'[t] = r /\ \A u \in Threads : u # t => stack'[u] = stack[u]
  BY DEF StackType
<1>3. StackType'
  BY <1>1, <1>2 DEF StackType
<1>4. depth' = [depth EXCEPT ![t] = depth[t] + 1]
  <2>1. /\ Len(stack'[t]) = Len(s) + 1
        /\ \A u \in Threads : u # t => Len(stack'[u]) = Len(stack[u])
    BY <1>1, <1>2, Zenon
  <2>2. depth' = [u \in Threads |-> IF u = t THEN Len(s) + 1 ELSE Len(stack[u])]
    BY <2>1 DEF depth
  <2>3. QED BY <2>2 DEF depth
<1>5. ASSUME NEW u \in Threads, NEW h \in 1..depth[u]
      PROVE fr'[u][h] = IF u = t /\ h = depth[t] THEN x ELSE fr[u][h]
  <2>1. CASE u # t
    BY <2>1, <1>2, <1>5 DEF fr, depth
  <2>2. CASE u = t
    <3>1. h \in 1..Len(s) /\ depth[t] = Len(s)
      BY <2>2, <1>5 DEF depth
    <3>2. fr'[t][h] = r[Len(s) + 2 - h] /\ fr[t][h] = s[Len(s) + 1 - h]
      BY <3>1, <1>1, <1>2 DEF fr
    <3>3. CASE h = Len(s)
      BY <3>1, <3>2, <3>3, <2>2, <1>1
    <3>4. CASE h # Len(s)
      <4>1. Len(s) + 2 - h \in 3..(Len(s) + 1) /\ (Len(s) + 2 - h) - 1 = Len(s) + 1 - h
        BY <3>1, <3>4, <1>1
      <4>2. QED BY <4>1, <3>1, <3>2, <3>4, <2>2, <1>1
    <3>5. QED BY <3>3, <3>4
  <2>3. QED BY <2>1, <2>2
<1>6. fr'[t][depth[t] + 1] = c
  BY <1>1, <1>2 DEF fr, depth
<1>7. QED BY <1>3, <1>4, <1>5, <1>6 DEF FrCall

LEMMA Returns ==
    ASSUME StackType, NEW t \in Threads, stack[t] # <<>>,
           stack' = [stack EXCEPT ![t] = Tail(stack[t])]
    PROVE  StackType' /\ FrReturn(t)
<1> DEFINE s == stack[t]
<1>1. /\ s \in Seq(Frames) /\ Len(s) \in Nat \ {0}
      /\ Tail(s) \in Seq(Frames) /\ Len(Tail(s)) = Len(s) - 1
      /\ \A i \in 1..(Len(s) - 1) : Tail(s)[i] = s[i + 1]
  BY DEF StackType
<1>2. stack'[t] = Tail(s) /\ \A u \in Threads : u # t => stack'[u] = stack[u]
  BY DEF StackType
<1>3. StackType'
  BY <1>1, <1>2 DEF StackType
<1>4. depth' = [depth EXCEPT ![t] = depth[t] - 1]
  <2>1. /\ Len(stack'[t]) = Len(s) - 1
        /\ \A u \in Threads : u # t => Len(stack'[u]) = Len(stack[u])
    BY <1>1, <1>2, Zenon
  <2>2. depth' = [u \in Threads |-> IF u = t THEN Len(s) - 1 ELSE Len(stack[u])]
    BY <2>1 DEF depth
  <2>3. QED BY <2>2 DEF depth
<1>5. ASSUME NEW u \in Threads, NEW h \in 1..depth'[u]
      PROVE fr'[u][h] = fr[u][h]
  <2>1. CASE u # t
    BY <2>1, <1>2, <1>5 DEF fr, depth
  <2>2. CASE u = t
    <3>1. h \in 1..(Len(s) - 1)
      BY <2>2, <1>1, <1>2, <1>5 DEF depth
    <3>2. fr'[t][h] = Tail(s)[Len(s) - h] /\ fr[t][h] = s[Len(s) + 1 - h]
      BY <3>1, <1>1, <1>2 DEF fr
    <3>3. QED BY <3>1, <3>2, <2>2, <1>1
  <2>3. QED BY <2>1, <2>2
<1>6. QED BY <1>3, <1>4, <1>5 DEF FrReturn

\* The same for the moves as the actions write them.
LEMMA AtFacts ==
    ASSUME StackType, NEW t \in Threads, NEW fn, NEW pc, At(t, fn, pc)
    PROVE  /\ depth[t] \in Nat \ {0} /\ stack[t] # <<>>
           /\ Top(t) = fr[t][depth[t]] /\ Top(t) \in Frames
           /\ Top(t).fn = fn /\ Top(t).pc = pc
           /\ ~aborted /\ \A k \in Classes : t \notin waiting[k]
<1>1. /\ stack[t] # <<>> /\ Top(t).fn = fn /\ Top(t).pc = pc
      /\ ~aborted /\ \A k \in Classes : t \notin waiting[k]
  BY DEF At
<1>2. depth[t] \in Nat \ {0}
  BY <1>1, FrType
<1>3. Top(t) = fr[t][depth[t]] /\ Top(t) \in Frames
  BY <1>2, FrType DEF Top
<1>4. QED BY <1>1, <1>2, <1>3

LEMMA GotoShape ==
    ASSUME StackType, NEW t \in Threads, stack[t] # <<>>, NEW pc \in Places, Goto(t, pc)
    PROVE  /\ StackType' /\ ret' = ret
           /\ FrGoto(t, Frame(Top(t).fn, Top(t).k, pc, Top(t).todo))
<1> DEFINE x == Frame(Top(t).fn, Top(t).k, pc, Top(t).todo)
<1>1. Top(t) \in Frames
  BY DEF Top, StackType
<1>2. x \in Frames /\ [Top(t) EXCEPT !.pc = pc] = x
  BY <1>1 DEF Frames, Frame
<1>3. stack' = [stack EXCEPT ![t] = <<x>> \o Tail(stack[t])] /\ ret' = ret
  BY <1>2 DEF Goto, Moved
<1>4. QED BY <1>2, <1>3, Gotos

LEMMA GotoWithShape ==
    ASSUME StackType, NEW t \in Threads, stack[t] # <<>>, NEW pc \in Places, NEW todo \in Todos,
           GotoWith(t, pc, todo)
    PROVE  /\ StackType' /\ ret' = ret
           /\ FrGoto(t, Frame(Top(t).fn, Top(t).k, pc, todo))
<1> DEFINE x == Frame(Top(t).fn, Top(t).k, pc, todo)
<1>1. Top(t) \in Frames
  BY DEF Top, StackType
<1>2. x \in Frames
  BY <1>1 DEF Frames, Frame
<1>3. stack' = [stack EXCEPT ![t] = <<x>> \o Tail(stack[t])] /\ ret' = ret
  BY DEF GotoWith, MovedWith
<1>4. QED BY <1>2, <1>3, Gotos

LEMMA CallShape ==
    ASSUME StackType, NEW t \in Threads, stack[t] # <<>>, NEW pc \in Places, NEW c \in Frames,
           Call(t, pc, c)
    PROVE  /\ StackType' /\ ret' = ret
           /\ FrCall(t, Frame(Top(t).fn, Top(t).k, pc, Top(t).todo), c)
<1> DEFINE x == Frame(Top(t).fn, Top(t).k, pc, Top(t).todo)
<1>1. Top(t) \in Frames
  BY DEF Top, StackType
<1>2. x \in Frames /\ [Top(t) EXCEPT !.pc = pc] = x
  BY <1>1 DEF Frames, Frame
<1>3. stack' = [stack EXCEPT ![t] = <<c>> \o (<<x>> \o Tail(stack[t]))] /\ ret' = ret
  BY <1>2 DEF Call, Moved
<1>4. QED BY <1>2, <1>3, Calls

LEMMA ReturnShape ==
    ASSUME StackType, NEW t \in Threads, stack[t] # <<>>, NEW v, Return(t, v)
    PROVE  StackType' /\ FrReturn(t) /\ ret' = [ret EXCEPT ![t] = v]
BY Returns DEF Return

-----------------------------------------------------------------------------
\* The claims, the verifiers, the calls and the waits, move by move.
\* A frame goes on without a word on its class.
SameRole(x, f) ==
    /\ x.fn = f.fn /\ x.k = f.k
    /\ Claimed(x) <=> Claimed(f)
    /\ Checking(x) <=> Checking(f)
    /\ Claimed(x) /\ x.pc \in BeforeClinit => f.pc \in BeforeClinit
    /\ ~(x.fn = "Init" /\ x.pc = "waiting")

LEMMA GotoSlots ==
    ASSUME StackType, NEW t \in Threads, depth[t] # 0, NEW x, FrGoto(t, x)
    PROVE  /\ depth \in [Threads -> Nat] /\ depth' = depth /\ depth[t] \in Slots(t)
           /\ \A u \in Threads : Slots(u)' = Slots(u)
           /\ fr'[t][depth[t]] = x
           /\ \A u \in Threads : \A h \in Slots(u) :
                  ~(u = t /\ h = depth[t]) => fr'[u][h] = fr[u][h]
           /\ \A u \in Threads : u # t /\ depth[u] # 0 => top(u)' = top(u)
BY FrType DEF FrGoto, Slots, top

LEMMA CallSlots ==
    ASSUME StackType, NEW t \in Threads, depth[t] # 0, NEW x, NEW c, FrCall(t, x, c)
    PROVE  LET d == depth[t] IN
           /\ depth \in [Threads -> Nat] /\ depth' = [depth EXCEPT ![t] = d + 1]
           /\ Slots(t)' = Slots(t) \union {d + 1} /\ \A u \in Threads : u # t => Slots(u)' = Slots(u)
           /\ d \in Slots(t) /\ d + 1 \notin Slots(t)
           /\ fr'[t][d] = x /\ fr'[t][d + 1] = c
           /\ \A u \in Threads : \A h \in Slots(u) :
                  ~(u = t /\ h = d) => fr'[u][h] = fr[u][h]
           /\ \A u \in Threads : u # t /\ depth[u] # 0 => top(u)' = top(u)
<1> DEFINE d == depth[t]
<1>1. /\ depth \in [Threads -> Nat] /\ depth' = [depth EXCEPT ![t] = d + 1]
      /\ \A u \in Threads : \A h \in Slots(u) :
             fr'[u][h] = IF u = t /\ h = d THEN x ELSE fr[u][h]
      /\ fr'[t][d + 1] = c
  BY FrType DEF FrCall, Slots
<1>2. d \in Nat /\ d # 0 /\ 1..(d + 1) = (1..d) \union {d + 1}
  BY <1>1
<1>3. Slots(t)' = 1..(d + 1) /\ Slots(t) = 1..d /\ \A u \in Threads : u # t => Slots(u)' = Slots(u)
  BY <1>1 DEF Slots
<1>4. d \in 1..d /\ d + 1 \notin 1..d
  BY <1>2
<1>5. \A u \in Threads : u # t /\ depth[u] # 0 => top(u)' = top(u)
  BY <1>1 DEF Slots, top
<1>6. QED BY <1>1, <1>2, <1>3, <1>4, <1>5

LEMMA ReturnSlots ==
    ASSUME StackType, NEW t \in Threads, depth[t] # 0, FrReturn(t)
    PROVE  LET d == depth[t] IN
           /\ depth \in [Threads -> Nat] /\ depth' = [depth EXCEPT ![t] = d - 1]
           /\ Slots(t)' = Slots(t) \ {d} /\ \A u \in Threads : u # t => Slots(u)' = Slots(u)
           /\ d \in Slots(t)
           /\ \A u \in Threads : \A h \in Slots(u)' : h \in Slots(u) /\ fr'[u][h] = fr[u][h]
           /\ \A u \in Threads : u # t /\ depth[u] # 0 => top(u)' = top(u)
<1> DEFINE d == depth[t]
<1>1. /\ depth \in [Threads -> Nat] /\ depth' = [depth EXCEPT ![t] = d - 1]
      /\ d \in Nat /\ d # 0
  BY FrType DEF FrReturn
<1>2. 1..(d - 1) = (1..d) \ {d} /\ d \in 1..d
  BY <1>1
<1>3. Slots(t)' = 1..(d - 1) /\ Slots(t) = 1..d /\ \A u \in Threads : u # t => Slots(u)' = Slots(u)
  BY <1>1 DEF Slots
<1>4. \A u \in Threads : \A h \in Slots(u)' : h \in Slots(u) /\ fr'[u][h] = fr[u][h]
  BY <1>1, <1>2, <1>3 DEF FrReturn, Slots
<1>5. \A u \in Threads : u # t /\ depth[u] # 0 => top(u)' = top(u)
  BY <1>1, <1>3, <1>4 DEF Slots, top
<1>6. QED BY <1>1, <1>2, <1>3, <1>4, <1>5

LEMMA GotoCalls ==
    ASSUME StackType, NEW t \in Threads, depth[t] # 0, NEW x, FrGoto(t, x),
           x.fn = top(t).fn, x.k = top(t).k, CallsOK
    PROVE  CallsOK'
<1> DEFINE d == depth[t]
<1>1. /\ depth \in [Threads -> Nat] /\ depth' = depth
      /\ \A u \in Threads : \A h \in Slots(u) :
             fr'[u][h] = IF u = t /\ h = d THEN x ELSE fr[u][h]
      /\ \A u \in Threads : Slots(u)' = Slots(u)
  BY GotoSlots
<1>2. ASSUME NEW u \in Threads, NEW h \in Slots(u), h # depth[u]
      PROVE  /\ h \in Slots(u) /\ h + 1 \in Slots(u)
             /\ fr'[u][h] = fr[u][h]
             /\ fr'[u][h + 1].fn = fr[u][h + 1].fn /\ fr'[u][h + 1].k = fr[u][h + 1].k
  BY <1>1, <1>2 DEF Slots, top
<1>3. ASSUME NEW u \in Threads, NEW h \in Slots(u), h # depth[u]
      PROVE CalledBy(fr'[u][h + 1], fr'[u][h])
  BY <1>2, <1>3 DEF CallsOK, CalledBy
<1>4. \A u \in Threads : \A h \in Slots(u) : fr'[u][h].fn = fr[u][h].fn /\ fr'[u][h].k = fr[u][h].k
  BY <1>1 DEF top
<1>5. QED BY <1>1, <1>3, <1>4 DEF CallsOK

LEMMA ReturnCalls ==
    ASSUME StackType, NEW t \in Threads, depth[t] # 0, FrReturn(t), CallsOK
    PROVE  CallsOK'
<1>1. /\ depth \in [Threads -> Nat] /\ depth' = [depth EXCEPT ![t] = depth[t] - 1]
      /\ \A u \in Threads : \A h \in Slots(u)' : h \in Slots(u) /\ fr'[u][h] = fr[u][h]
  BY ReturnSlots
<1>2. \A u \in Threads : \A h \in Slots(u)' : h # depth'[u] => h # depth[u] /\ h + 1 \in Slots(u)'
  BY <1>1 DEF Slots
<1>3. QED BY <1>1, <1>2 DEF CallsOK

LEMMA QuietGoto ==
    ASSUME StackType, StackType', NEW t \in Threads, depth[t] # 0, NEW x, FrGoto(t, x),
           UNCHANGED <<status, clinitTid, started, waiting>>,
           \A k \in Classes : t \notin waiting[k],
           SameRole(x, top(t)), Core
    PROVE  Core'
<1> DEFINE d == depth[t]
<1>1. /\ depth \in [Threads -> Nat] /\ depth' = depth /\ d \in Slots(t)
      /\ \A u \in Threads : \A h \in Slots(u) :
             fr'[u][h] = IF u = t /\ h = d THEN x ELSE fr[u][h]
  BY GotoSlots
<1>2. ClaimsOK'
  <2>1. \A u \in Threads : \A h \in Slots(u) :
           /\ h \in Slots(u)' /\ fr'[u][h].k = fr[u][h].k
           /\ Claimed(fr'[u][h]) <=> Claimed(fr[u][h])
           /\ Claimed(fr'[u][h]) /\ fr'[u][h].pc \in BeforeClinit => fr[u][h].pc \in BeforeClinit
    BY <1>1 DEF SameRole, Slots, top
  <2>2. \A u \in Threads : Slots(u)' = Slots(u)
    BY <1>1 DEF Slots
  <2>3. QED BY <2>1, <2>2 DEF Core, ClaimsOK
<1>3. ChecksOK'
  BY <1>1 DEF Core, ChecksOK, SameRole, Slots, top, InVerifier
<1>4. CallsOK'
  BY GotoCalls DEF Core, SameRole
<1>5. WaitOK'
  BY <1>1 DEF Core, WaitOK, SameRole, Slots, top, InVerifier
<1>6. QED BY <1>2, <1>3, <1>4, <1>5 DEF Core

LEMMA AboveFacts ==
    ASSUME NEW k \in Classes
    PROVE  /\ Parents(k) \subseteq Above(k) /\ Above(k) \subseteq Classes
           /\ \A a \in Above(k) : Above(a) \subseteq Above(k)
           /\ k \notin Above(k)
<1>1. Parents(k) \subseteq Classes
  <2>1. Range(Direct[k]) \subseteq Interfaces
    BY InitAssumption DEF Range
  <2>2. QED BY <2>1, InitAssumption DEF Parents
<1>2. Parents(k) \subseteq Above(k) /\ Above(k) \subseteq Classes
  BY <1>1 DEF Above
<1>3. ASSUME NEW a \in Above(k), NEW b \in Above(a) PROVE b \in Above(k)
  BY <1>3 DEF Above
<1>4. QED BY <1>2, <1>3, InitAssumption

\* A frame calls another.
NewCall(c, x) ==
    /\ ~Claimed(c) /\ ~Checking(c) /\ ~(c.fn = "Init" /\ c.pc = "waiting")
    /\ CalledBy(c, x)
    /\ x.fn = "Verify" => c.k \in Above(x.k)

LEMMA QuietCall ==
    ASSUME StackType, StackType', NEW t \in Threads, depth[t] # 0, NEW x, NEW c, FrCall(t, x, c),
           UNCHANGED <<status, clinitTid, started, waiting>>,
           \A k \in Classes : t \notin waiting[k],
           SameRole(x, top(t)), NewCall(c, x), Core
    PROVE  Core'
<1> DEFINE d == depth[t]
<1>1. /\ depth \in [Threads -> Nat] /\ depth' = [depth EXCEPT ![t] = d + 1]
      /\ \A u \in Threads : \A h \in Slots(u) :
             fr'[u][h] = IF u = t /\ h = d THEN x ELSE fr[u][h]
      /\ fr'[t][d + 1] = c
  BY CallSlots
<1>2. /\ Slots(t)' = Slots(t) \union {d + 1} /\ \A u \in Threads : u # t => Slots(u)' = Slots(u)
      /\ d \in Slots(t) /\ d + 1 \notin Slots(t)
  BY CallSlots
<1>3. \A u \in Threads : \A h \in Slots(u) :
         /\ h \in Slots(u)' /\ fr'[u][h].k = fr[u][h].k /\ fr'[u][h].fn = fr[u][h].fn
         /\ Claimed(fr'[u][h]) <=> Claimed(fr[u][h])
         /\ Checking(fr'[u][h]) <=> Checking(fr[u][h])
         /\ Claimed(fr'[u][h]) /\ fr'[u][h].pc \in BeforeClinit => fr[u][h].pc \in BeforeClinit
  BY <1>1, <1>2 DEF SameRole, top
<1>4. ClaimsOK'
  BY <1>1, <1>2, <1>3 DEF Core, ClaimsOK, NewCall
<1>5. ChecksOK'
  BY <1>1, <1>2, <1>3 DEF Core, ChecksOK, NewCall, InVerifier
<1>6. CallsOK'
  <2>1. ASSUME NEW u \in Threads, NEW h \in Slots(u)', h # depth'[u]
        PROVE CalledBy(fr'[u][h + 1], fr'[u][h])
    <3>1. CASE u = t /\ h = d
      BY <3>1, <1>1, <1>2 DEF NewCall
    <3>2. CASE ~(u = t /\ h = d)
      <4>1. h \in Slots(u) /\ h # depth[u] /\ fr'[u][h] = fr[u][h] /\ h + 1 \in Slots(u)
        BY <2>1, <3>2, <1>1, <1>2 DEF Slots
      <4>2. CalledBy(fr[u][h + 1], fr[u][h])
        BY <4>1 DEF Core, CallsOK
      <4>3. QED BY <4>1, <4>2, <1>3 DEF CalledBy
    <3>3. QED BY <3>1, <3>2
  <2>2. ASSUME NEW u \in Threads, NEW g \in Slots(u)', NEW h \in Slots(u)',
               g < h, fr'[u][g].fn = "Verify"
        PROVE fr'[u][h].fn = "Verify" /\ fr'[u][h].k \in Above(fr'[u][g].k)
    <3>1. g \in Slots(u) /\ fr[u][g].fn = "Verify" /\ fr'[u][g].k = fr[u][g].k
      BY <2>2, <1>1, <1>2, <1>3 DEF Slots
    <3>2. CASE h \in Slots(u)
      BY <3>1, <3>2, <2>2, <1>3 DEF Core, CallsOK
    <3>3. CASE h \notin Slots(u)
      <4>1. u = t /\ h = d + 1 /\ fr'[u][h] = c
        BY <3>3, <2>2, <1>1, <1>2
      <4>2. fr'[t][d] = x /\ x.fn = fr[t][d].fn /\ x.k = fr[t][d].k /\ x.k \in Classes
        BY <1>1, <1>2, <1>3, FrType DEF Slots, Frames
      <4>3. fr[t][d].fn = "Verify" /\ (g # d => fr[t][d].k \in Above(fr[t][g].k))
        <5>1. g = d \/ g < d
          BY <3>1, <4>1, <1>1, <1>2 DEF Slots
        <5>2. QED BY <5>1, <4>1, <3>1, <1>2 DEF Core, CallsOK
      <4>4. c.fn = "Verify" /\ c.k \in Above(fr[t][d].k)
        BY <4>2, <4>3 DEF NewCall, CalledBy
      <4>5. fr[t][g].k \in Classes
        BY <3>1, <4>1, FrType DEF Slots, Frames
      <4>6. QED BY <4>1, <4>3, <4>4, <4>5, <3>1, AboveFacts
    <3>4. QED BY <3>2, <3>3
  <2>3. QED BY <2>1, <2>2 DEF CallsOK
<1>7. WaitOK'
  <2>1. \A u \in Threads : u # t => depth'[u] = depth[u] /\ top(u)' = (IF depth[u] # 0 THEN top(u) ELSE top(u)')
    BY <1>1 DEF Slots, top
  <2>2. \A k \in Classes : \A u \in waiting[k] : u # t /\ u \in Threads
    BY DEF Core, WaitOK
  <2>3. \A k \in Classes : \A u \in waiting[k] :
           depth'[u] # 0 /\ top(u)' = top(u)
    BY <2>1, <2>2 DEF Core, WaitOK
  <2>4. \A u \in Threads : \A h \in Slots(u)' : fr'[u][h].fn = "Init" /\ fr'[u][h].pc = "waiting" =>
           h \in Slots(u) /\ fr'[u][h] = fr[u][h]
    BY <1>1, <1>2, <1>3 DEF SameRole, NewCall
  <2>5. QED BY <2>2, <2>3, <2>4 DEF Core, WaitOK, InVerifier
<1>8. QED BY <1>4, <1>5, <1>6, <1>7 DEF Core

LEMMA QuietReturn ==
    ASSUME StackType, StackType', NEW t \in Threads, depth[t] # 0, FrReturn(t),
           UNCHANGED <<status, clinitTid, started, waiting>>,
           \A k \in Classes : t \notin waiting[k],
           ~Claimed(top(t)), ~Checking(top(t)), Core
    PROVE  Core'
<1> DEFINE d == depth[t]
<1>1. /\ depth \in [Threads -> Nat] /\ depth' = [depth EXCEPT ![t] = d - 1]
      /\ Slots(t)' = Slots(t) \ {d} /\ \A u \in Threads : u # t => Slots(u)' = Slots(u)
      /\ d \in Slots(t)
  BY ReturnSlots
<1>2. \A u \in Threads : \A h \in Slots(u)' : h \in Slots(u) /\ fr'[u][h] = fr[u][h]
  BY ReturnSlots
<1>3. ClaimsOK'
  BY <1>1, <1>2 DEF Core, ClaimsOK, top
<1>4. ChecksOK'
  BY <1>1, <1>2 DEF Core, ChecksOK, top, InVerifier
<1>5. CallsOK'
  BY ReturnCalls DEF Core
<1>6. WaitOK'
  <2>1. \A k \in Classes : \A u \in waiting[k] : u # t /\ u \in Threads /\ depth[u] # 0
    BY DEF Core, WaitOK
  <2>2. \A k \in Classes : \A u \in waiting[k] : depth'[u] = depth[u] /\ top(u)' = top(u)
    BY <2>1, <1>1, <1>2 DEF Slots, top
  <2>3. QED BY <2>1, <2>2, <1>1, <1>2 DEF Core, WaitOK, InVerifier
<1>7. QED BY <1>3, <1>4, <1>5, <1>6 DEF Core

\* SetStatus by a thread that returns: the end of a claim, of a verification,
\* or the refusal of a class that is verified.
LEMMA StatusReturn ==
    ASSUME StackType, StackType', NEW t \in Threads, depth[t] # 0, FrReturn(t),
           NEW k \in Classes, k = top(t).k, NEW s, SetStatus(k, s),
           status \in [Classes -> Statuses],
           UNCHANGED <<clinitTid, started>>,
           \A j \in Classes : t \notin waiting[j],
           \/ Claimed(top(t)) /\ s \in {"kInitialized", "kErrorResolved"}
           \/ Checking(top(t)) /\ s \in {"kVerified", "kErrorResolved"}
           \/ ~Claimed(top(t)) /\ ~Checking(top(t)) /\ status[k] = "kVerified" /\ s = "kErrorResolved",
           waiting \in [Classes -> SUBSET Threads], Core
    PROVE  Core'
<1> DEFINE d == depth[t]
<1>1. /\ depth \in [Threads -> Nat] /\ depth' = [depth EXCEPT ![t] = d - 1]
      /\ Slots(t)' = Slots(t) \ {d} /\ \A u \in Threads : u # t => Slots(u)' = Slots(u)
      /\ d \in Slots(t)
  BY ReturnSlots
<1>2. /\ \A u \in Threads : \A h \in Slots(u)' : h \in Slots(u) /\ fr'[u][h] = fr[u][h]
      /\ \A u \in Threads : u # t /\ depth[u] # 0 => top(u)' = top(u)
  BY ReturnSlots
<1>3. /\ status' = [status EXCEPT ![k] = s] /\ waiting' = [waiting EXCEPT ![k] = {}]
      /\ s \notin {"kVerifying", "kVerifyingAtRuntime", "kInitializing"}
  BY DEF SetStatus
<1>4. \A u \in Threads : \A h \in Slots(u)' :
          /\ Claimed(fr[u][h]) => fr[u][h].k # k
          /\ Checking(fr[u][h]) => fr[u][h].k # k
  <2>1. ASSUME NEW u \in Threads, NEW h \in Slots(u)', Claimed(fr[u][h]), fr[u][h].k = k
        PROVE FALSE
    <3>1. status[k] = "kInitializing" /\ clinitTid[k] = u /\ h \in Slots(u)
      BY <2>1, <1>2 DEF Core, ClaimsOK
    <3>2. ~Checking(top(t))
      BY <3>1, <1>1 DEF Core, ChecksOK, InVerifier, top
    <3>3. Claimed(top(t)) /\ u = t /\ h # d
      BY <3>1, <3>2, <2>1, <1>1 DEF Core, ClaimsOK, top
    <3>4. QED BY <3>1, <3>3, <2>1, <1>1 DEF Core, ClaimsOK, top
  <2>2. ASSUME NEW u \in Threads, NEW h \in Slots(u)', Checking(fr[u][h]), fr[u][h].k = k
        PROVE FALSE
    <3>1. InVerifier(k) /\ h \in Slots(u)
      BY <2>2, <1>2 DEF Core, ChecksOK
    <3>2. ~Claimed(top(t))
      BY <3>1, <1>1 DEF Core, ClaimsOK, InVerifier, top
    <3>3. Checking(top(t))
      BY <3>1, <3>2 DEF InVerifier
    <3>4. QED BY <3>1, <3>3, <2>2, <1>1 DEF Core, ChecksOK, top
  <2>3. QED BY <2>1, <2>2
<1>5. ClaimsOK'
  <2>1. \A u \in Threads : \A h \in Slots(u)' : LET f == fr'[u][h] IN
           Claimed(f) => /\ status'[f.k] = "kInitializing" /\ clinitTid'[f.k] = u
                         /\ f.pc \in BeforeClinit => started'[f.k] = 0
    BY <1>2, <1>3, <1>4 DEF Core, ClaimsOK
  <2>2. \A u \in Threads : \A g, h \in Slots(u)' :
           Claimed(fr'[u][g]) /\ Claimed(fr'[u][h]) /\ fr'[u][g].k = fr'[u][h].k => g = h
    BY <1>2 DEF Core, ClaimsOK
  <2>3. ASSUME NEW j \in Classes
        PROVE /\ clinitTid'[j] # NoThread => status'[j] \in Over
              /\ started'[j] \in {0, 1}
              /\ status'[j] \notin Over => started'[j] = 0
    <3>1. j = k => status[k] \notin Over \/ s \in Over
      BY <1>1 DEF Core, ClaimsOK, ChecksOK, InVerifier, Over, top
    <3>2. QED BY <3>1, <1>3 DEF Core, ClaimsOK, Over
  <2>4. ASSUME NEW j \in Classes, status'[j] = "kInitializing"
        PROVE (clinitTid[j] \in Threads /\ \E h \in Slots(clinitTid[j]) :
                  Claimed(fr[clinitTid[j]][h]) /\ fr[clinitTid[j]][h].k = j)'
    <3>1. j # k /\ status[j] = "kInitializing"
      BY <2>4, <1>3
    <3>2. clinitTid[j] \in Threads /\ \E h \in Slots(clinitTid[j]) :
               Claimed(fr[clinitTid[j]][h]) /\ fr[clinitTid[j]][h].k = j
      BY <3>1 DEF Core, ClaimsOK
    <3>3. PICK h \in Slots(clinitTid[j]) : Claimed(fr[clinitTid[j]][h]) /\ fr[clinitTid[j]][h].k = j
      BY <3>2
    <3>4. h \in Slots(clinitTid[j])'
      BY <3>1, <3>2, <3>3, <1>1 DEF top
    <3>5. QED BY <3>2, <3>3, <3>4, <1>2
  <2>5. QED BY <2>1, <2>2, <2>3, <2>4 DEF ClaimsOK
<1>6. ChecksOK'
  <2>1. \A u \in Threads : \A h \in Slots(u)' : Checking(fr'[u][h]) => InVerifier(fr[u][h].k)'
    BY <1>2, <1>3, <1>4 DEF Core, ChecksOK, InVerifier
  <2>2. \A u, v \in Threads : \A g \in Slots(u)', h \in Slots(v)' :
           Checking(fr'[u][g]) /\ Checking(fr'[v][h]) /\ fr'[u][g].k = fr'[v][h].k => u = v /\ g = h
    BY <1>2 DEF Core, ChecksOK
  <2>3. ASSUME NEW j \in Classes, InVerifier(j)'
        PROVE \E u \in Threads : \E h \in Slots(u)' : Checking(fr'[u][h]) /\ fr'[u][h].k = j
    <3>1. j # k /\ InVerifier(j)
      BY <2>3, <1>3 DEF InVerifier
    <3>2. PICK u \in Threads : \E h \in Slots(u) : Checking(fr[u][h]) /\ fr[u][h].k = j
      BY <3>1 DEF Core, ChecksOK
    <3>3. PICK h \in Slots(u) : Checking(fr[u][h]) /\ fr[u][h].k = j
      BY <3>2
    <3>4. h \in Slots(u)'
      BY <3>1, <3>3, <1>1 DEF top
    <3>5. QED BY <3>3, <3>4, <1>2
  <2>4. QED BY <2>1, <2>2, <2>3 DEF ChecksOK
<1>7. CallsOK'
  BY ReturnCalls DEF Core
<1>8. WaitOK'
  <2>1. \A j \in Classes : \A u \in waiting'[j] : j # k /\ u \in waiting[j] /\ u # t /\ u \in Threads /\ depth[u] # 0
    BY <1>3 DEF Core, WaitOK
  <2>2. \A j \in Classes : \A u \in waiting'[j] : depth'[u] = depth[u] /\ top(u)' = top(u) /\ status'[j] = status[j]
    BY <2>1, <1>1, <1>2, <1>3
  <2>3. \A u \in Threads : \A h \in Slots(u)' :
           fr'[u][h].fn = "Init" /\ fr'[u][h].pc = "waiting" =>
               clinitTid'[fr'[u][h].k] # u /\ status'[fr'[u][h].k] \in Over
    <3>1. ASSUME NEW u \in Threads, NEW h \in Slots(u)', fr[u][h].k = k, status[k] \in Over
          PROVE s \in Over
      BY <3>1, <1>1 DEF Core, ChecksOK, InVerifier, Over, top
    <3>2. QED BY <3>1, <1>2, <1>3 DEF Core, WaitOK
  <2>4. QED BY <2>1, <2>2, <2>3 DEF Core, WaitOK, InVerifier
<1>9. QED BY <1>5, <1>6, <1>7, <1>8 DEF Core

\* InitializeClass claims a verified class.
LEMMA ClaimGoto ==
    ASSUME StackType, StackType', NEW t \in Threads, depth[t] # 0, NEW x, FrGoto(t, x),
           NEW k \in Classes, k = top(t).k, x.k = k, x.fn = "Init", x.pc = "super",
           top(t).fn = "Init", top(t).pc \in {"lock", "verified"},
           status \in [Classes -> Statuses], status[k] = "kVerified", SetStatus(k, "kInitializing"),
           clinitTid \in [Classes -> Threads \union {NoThread}], clinitTid' = [clinitTid EXCEPT ![k] = t],
           waiting \in [Classes -> SUBSET Threads],
           UNCHANGED started, \A j \in Classes : t \notin waiting[j], Core
    PROVE  Core'
<1> DEFINE d == depth[t]
<1>1. /\ depth \in [Threads -> Nat] /\ depth' = depth /\ d \in Slots(t)
      /\ \A u \in Threads : Slots(u)' = Slots(u)
      /\ fr'[t][d] = x
      /\ \A u \in Threads : \A h \in Slots(u) : ~(u = t /\ h = d) => fr'[u][h] = fr[u][h]
      /\ \A u \in Threads : u # t /\ depth[u] # 0 => top(u)' = top(u)
  BY GotoSlots
<1>2. /\ status' = [status EXCEPT ![k] = "kInitializing"] /\ waiting' = [waiting EXCEPT ![k] = {}]
      /\ clinitTid[k] = NoThread /\ started[k] = 0 /\ ~InVerifier(k)
      /\ status'[k] = "kInitializing" /\ clinitTid'[k] = t
      /\ \A j \in Classes : j # k => status'[j] = status[j] /\ clinitTid'[j] = clinitTid[j]
  BY DEF SetStatus, Core, ClaimsOK, Over, InVerifier
<1>3. /\ Claimed(x) /\ ~Checking(x) /\ ~Claimed(top(t)) /\ ~Checking(top(t))
      /\ \A u \in Threads : \A h \in Slots(u) : Claimed(fr[u][h]) => fr[u][h].k # k
      /\ \A u \in Threads : \A h \in Slots(u) : Checking(fr[u][h]) => fr[u][h].k # k
  BY <1>2 DEF Claimed, Checking, AfterClaim, Core, ClaimsOK, ChecksOK, InVerifier
<1>4. ClaimsOK'
  <2>1. ASSUME NEW u \in Threads, NEW h \in Slots(u), Claimed(fr'[u][h])
        PROVE LET f == fr'[u][h] IN
              /\ status'[f.k] = "kInitializing" /\ clinitTid'[f.k] = u
              /\ f.pc \in BeforeClinit => started'[f.k] = 0
    <3>1. CASE u = t /\ h = d
      BY <3>1, <1>1, <1>2
    <3>2. CASE ~(u = t /\ h = d)
      <4>1. fr'[u][h] = fr[u][h] /\ fr[u][h].k \in Classes /\ fr[u][h].k # k
        BY <2>1, <3>2, <1>1, <1>3, FrType DEF Slots, Frames
      <4>2. QED BY <4>1, <2>1, <1>2 DEF Core, ClaimsOK
    <3>3. QED BY <3>1, <3>2
  <2>2. \A u \in Threads : \A g, h \in Slots(u) :
           Claimed(fr'[u][g]) /\ Claimed(fr'[u][h]) /\ fr'[u][g].k = fr'[u][h].k => g = h
    BY <1>1, <1>3 DEF Core, ClaimsOK
  <2>3. \A j \in Classes : /\ clinitTid'[j] # NoThread => status'[j] \in Over
                           /\ started'[j] \in {0, 1}
                           /\ status'[j] \notin Over => started'[j] = 0
    BY <1>2 DEF Core, ClaimsOK, Over
  <2>4. ASSUME NEW j \in Classes, status'[j] = "kInitializing"
        PROVE clinitTid'[j] \in Threads /\ \E h \in Slots(clinitTid'[j]) :
                 Claimed(fr'[clinitTid'[j]][h]) /\ fr'[clinitTid'[j]][h].k = j
    <3>1. CASE j = k
      BY <3>1, <1>1, <1>2, <1>3
    <3>2. CASE j # k
      <4>1. clinitTid'[j] = clinitTid[j] /\ clinitTid[j] \in Threads
            /\ \E h \in Slots(clinitTid[j]) : Claimed(fr[clinitTid[j]][h]) /\ fr[clinitTid[j]][h].k = j
        BY <2>4, <3>2, <1>2 DEF Core, ClaimsOK
      <4>2. QED BY <4>1, <1>1, <1>3 DEF top
    <3>3. QED BY <3>1, <3>2
  <2>5. \A j \in Classes : status'[j] = "kInitializing" => Slots(clinitTid[j])' = Slots(clinitTid'[j])
    BY <2>4, <1>1
  <2>6. QED BY <1>1, <2>1, <2>2, <2>3, <2>4, <2>5 DEF ClaimsOK
<1>5. ChecksOK'
  BY <1>1, <1>2, <1>3 DEF Core, ChecksOK, InVerifier, top
<1>6. CallsOK'
  BY GotoCalls DEF Core
<1>7. WaitOK'
  <2>1. \A j \in Classes : \A u \in waiting'[j] : /\ j # k /\ u \in waiting[j] /\ u # t /\ u \in Threads
           /\ depth'[u] # 0 /\ top(u)' = top(u) /\ status'[j] = status[j]
    BY <1>1, <1>2 DEF Core, WaitOK
  <2>2. \A u \in Threads : \A h \in Slots(u) : fr'[u][h].fn = "Init" /\ fr'[u][h].pc = "waiting" =>
           fr'[u][h] = fr[u][h]
    BY <1>1
  <2>3. \A u \in Threads : \A h \in Slots(u) : fr[u][h].k \in Classes
    BY FrType DEF Slots, Frames
  <2>4. \A u \in Threads : \A h \in Slots(u) : fr[u][h].fn = "Init" /\ fr[u][h].pc = "waiting" =>
           fr[u][h].k # k
    BY DEF Core, WaitOK, Over
  <2>5. QED BY <2>1, <2>2, <2>3, <2>4, <1>1, <1>2 DEF Core, WaitOK, InVerifier
<1>8. QED BY <1>4, <1>5, <1>6, <1>7 DEF Core

\* VerifyClass takes on a class nobody verifies.
LEMMA CheckGoto ==
    ASSUME StackType, StackType', NEW t \in Threads, depth[t] # 0, NEW x, FrGoto(t, x),
           NEW k \in Classes, k = top(t).k, x.k = k, x.fn = "Verify", x.pc = "super",
           top(t).fn = "Verify", top(t).pc = "lock",
           status \in [Classes -> Statuses], status[k] \in {"kResolved", "kRetryVerificationAtRuntime"},
           NEW s \in {"kVerifying", "kVerifyingAtRuntime"}, SetStatus(k, s),
           waiting \in [Classes -> SUBSET Threads],
           UNCHANGED <<clinitTid, started>>, \A j \in Classes : t \notin waiting[j], Core
    PROVE  Core'
<1> DEFINE d == depth[t]
<1>1. /\ depth \in [Threads -> Nat] /\ depth' = depth /\ d \in Slots(t)
      /\ \A u \in Threads : Slots(u)' = Slots(u)
      /\ fr'[t][d] = x
      /\ \A u \in Threads : \A h \in Slots(u) : ~(u = t /\ h = d) => fr'[u][h] = fr[u][h]
      /\ \A u \in Threads : u # t /\ depth[u] # 0 => top(u)' = top(u)
  BY GotoSlots
<1>2. /\ status' = [status EXCEPT ![k] = s] /\ waiting' = [waiting EXCEPT ![k] = {}]
      /\ status[k] \notin Over /\ ~InVerifier(k) /\ s \notin Over
      /\ status'[k] = s /\ \A j \in Classes : j # k => status'[j] = status[j]
  BY DEF SetStatus, Over, InVerifier
<1>3. /\ ~Claimed(x) /\ Checking(x) /\ ~Claimed(top(t)) /\ ~Checking(top(t))
      /\ \A u \in Threads : \A h \in Slots(u) : Claimed(fr[u][h]) => fr[u][h].k # k
      /\ \A u \in Threads : \A h \in Slots(u) : Checking(fr[u][h]) => fr[u][h].k # k
  BY <1>2 DEF Claimed, Checking, Core, ClaimsOK, ChecksOK, InVerifier, Over
<1>4. \A u \in Threads : \A h \in Slots(u) : fr[u][h].k \in Classes
  BY FrType DEF Slots, Frames
<1>5. ClaimsOK'
  <2>1. \A u \in Threads : \A h \in Slots(u) : Claimed(fr'[u][h]) => fr'[u][h] = fr[u][h]
    BY <1>1, <1>3
  <2>2. \A u \in Threads : \A h \in Slots(u) : Claimed(fr[u][h]) => fr'[u][h] = fr[u][h]
    BY <1>1, <1>3 DEF top
  <2>3. \A j \in Classes : status'[j] = "kInitializing" => status[j] = "kInitializing"
    BY <1>2 DEF Over
  <2>4. QED BY <2>1, <2>2, <2>3, <1>1, <1>2, <1>3, <1>4 DEF Core, ClaimsOK, Over
<1>6. ChecksOK'
  <2>1. ASSUME NEW u \in Threads, NEW h \in Slots(u), Checking(fr'[u][h])
        PROVE InVerifier(fr[u][h].k)' /\ fr'[u][h].k = fr[u][h].k
    <3>1. CASE u = t /\ h = d
      BY <3>1, <1>1, <1>2 DEF InVerifier, top
    <3>2. CASE ~(u = t /\ h = d)
      <4>1. fr'[u][h] = fr[u][h] /\ fr[u][h].k # k /\ fr[u][h].k \in Classes
        BY <3>2, <2>1, <1>1, <1>3, <1>4
      <4>2. QED BY <4>1, <2>1, <1>2 DEF Core, ChecksOK, InVerifier
    <3>3. QED BY <3>1, <3>2
  <2>2. \A u, v \in Threads : \A g \in Slots(u), h \in Slots(v) :
           Checking(fr'[u][g]) /\ Checking(fr'[v][h]) /\ fr'[u][g].k = fr'[v][h].k => u = v /\ g = h
    BY <1>1, <1>3 DEF Core, ChecksOK
  <2>3. ASSUME NEW j \in Classes, InVerifier(j)'
        PROVE \E u \in Threads : \E h \in Slots(u) : Checking(fr'[u][h]) /\ fr'[u][h].k = j
    <3>1. CASE j = k
      BY <3>1, <1>1, <1>3
    <3>2. CASE j # k
      <4>1. InVerifier(j)
        BY <2>3, <3>2, <1>2 DEF InVerifier
      <4>2. PICK u \in Threads : \E h \in Slots(u) : Checking(fr[u][h]) /\ fr[u][h].k = j
        BY <4>1 DEF Core, ChecksOK
      <4>3. QED BY <4>2, <1>1, <1>3 DEF top
    <3>3. QED BY <3>1, <3>2
  <2>4. \A u \in Threads : \A h \in Slots(u) : Checking(fr'[u][h]) => InVerifier(fr[u][h].k)' /\ fr'[u][h].k = fr[u][h].k
    BY <2>1
  <2>5. \A j \in Classes : InVerifier(j)' =>
           \E u \in Threads : \E h \in Slots(u) : Checking(fr'[u][h]) /\ fr'[u][h].k = j
    BY <2>3
  <2>6. QED BY <1>1, <2>2, <2>4, <2>5 DEF ChecksOK, InVerifier
<1>7. CallsOK'
  BY GotoCalls DEF Core
<1>8. WaitOK'
  <2>1. \A j \in Classes : \A u \in waiting'[j] : /\ j # k /\ u \in waiting[j] /\ u # t /\ u \in Threads
           /\ depth'[u] # 0 /\ top(u)' = top(u) /\ status'[j] = status[j]
    BY <1>1, <1>2 DEF Core, WaitOK
  <2>2. \A u \in Threads : \A h \in Slots(u) : fr'[u][h].fn = "Init" /\ fr'[u][h].pc = "waiting" =>
           fr'[u][h] = fr[u][h]
    BY <1>1
  <2>3. \A u \in Threads : \A h \in Slots(u) : fr[u][h].fn = "Init" /\ fr[u][h].pc = "waiting" =>
           fr[u][h].k # k
    BY <1>2 DEF Core, WaitOK
  <2>4. QED BY <2>1, <2>2, <2>3, <1>1, <1>2, <1>4 DEF Core, WaitOK, InVerifier
<1>9. QED BY <1>5, <1>6, <1>7, <1>8 DEF Core

\* A thread starts to wait on the class of its frame.
LEMMA WaitGoto ==
    ASSUME StackType, StackType', NEW t \in Threads, depth[t] # 0, NEW x, FrGoto(t, x),
           NEW k \in Classes, k = top(t).k, x.k = k, x.fn = top(t).fn,
           \/ x.fn = "Init" /\ x.pc = "waiting" /\ status[k] = "kInitializing" /\ clinitTid[k] # t
           \/ x.fn = "Verify" /\ x.pc = "lock" /\ InVerifier(k),
           ~Claimed(top(t)), ~Checking(top(t)),
           waiting \in [Classes -> SUBSET Threads], waiting' = [waiting EXCEPT ![k] = @ \union {t}],
           UNCHANGED <<status, clinitTid, started>>, \A j \in Classes : t \notin waiting[j], Core
    PROVE  Core'
<1> DEFINE d == depth[t]
<1>1. /\ depth \in [Threads -> Nat] /\ depth' = depth /\ d \in Slots(t)
      /\ \A u \in Threads : Slots(u)' = Slots(u)
      /\ fr'[t][d] = x
      /\ \A u \in Threads : \A h \in Slots(u) : ~(u = t /\ h = d) => fr'[u][h] = fr[u][h]
      /\ \A u \in Threads : u # t /\ depth[u] # 0 => top(u)' = top(u)
  BY GotoSlots
<1>2. ~Claimed(x) /\ ~Checking(x)
  BY DEF Claimed, Checking, AfterClaim
<1>3. ClaimsOK'
  <2>1. \A u \in Threads : \A h \in Slots(u) :
           Claimed(fr'[u][h]) \/ Claimed(fr[u][h]) => fr'[u][h] = fr[u][h]
    BY <1>1, <1>2 DEF top
  <2>2. QED BY <1>1, <2>1 DEF Core, ClaimsOK
<1>4. ChecksOK'
  <2>1. \A u \in Threads : \A h \in Slots(u) :
           Checking(fr'[u][h]) \/ Checking(fr[u][h]) => fr'[u][h] = fr[u][h]
    BY <1>1, <1>2 DEF top
  <2>2. QED BY <1>1, <2>1 DEF Core, ChecksOK, InVerifier
<1>5. CallsOK'
  BY GotoCalls DEF Core
<1>6. WaitOK'
  <2>1. ASSUME NEW j \in Classes, NEW u \in waiting'[j]
        PROVE /\ u \in Threads /\ depth'[u] # 0 /\ top(u)'.k = j
              /\ \/ top(u)'.fn = "Init" /\ top(u)'.pc = "waiting" /\ status'[j] = "kInitializing"
                 \/ top(u)'.fn = "Verify" /\ top(u)'.pc = "lock" /\ InVerifier(j)
    <3>1. CASE u = t
      BY <3>1, <2>1, <1>1 DEF top
    <3>2. CASE u # t
      <4>1. u \in waiting[j]
        BY <2>1, <3>2
      <4>2. QED BY <4>1, <3>2, <1>1 DEF Core, WaitOK
    <3>3. QED BY <3>1, <3>2
  <2>2. \A u \in Threads : \A h \in Slots(u) :
           fr'[u][h].fn = "Init" /\ fr'[u][h].pc = "waiting" =>
               clinitTid[fr'[u][h].k] # u /\ status[fr'[u][h].k] \in Over
    BY <1>1 DEF Core, WaitOK, Over
  <2>3. QED BY <1>1, <2>1, <2>2 DEF WaitOK, InVerifier
<1>7. QED BY <1>3, <1>4, <1>5, <1>6 DEF Core

\* It waits again, or stops waiting early.
LEMMA WaitChange ==
    ASSUME StackType, UNCHANGED <<stack, status, clinitTid, started>>,
           waiting \in [Classes -> SUBSET Threads], Core,
           \A k \in Classes : \A u \in waiting'[k] :
               \/ u \in waiting[k]
               \/ /\ u \in Threads /\ depth[u] # 0 /\ top(u).k = k
                  /\ top(u).fn = "Init" /\ top(u).pc = "waiting" /\ status[k] = "kInitializing"
    PROVE  Core'
<1>1. depth' = depth /\ fr' = fr
  BY DEF depth, fr
<1>2. ClaimsOK' /\ ChecksOK' /\ CallsOK'
  BY <1>1 DEF Core, ClaimsOK, ChecksOK, CallsOK, Slots, InVerifier
<1>3. WaitOK'
  BY <1>1 DEF Core, WaitOK, Slots, InVerifier, top
<1>4. QED BY <1>2, <1>3 DEF Core

\* InitializeClass starts <clinit>.
LEMMA ClinitGoto ==
    ASSUME StackType, StackType', NEW t \in Threads, depth[t] # 0, NEW x, FrGoto(t, x),
           NEW k \in Classes, k = top(t).k, x.k = k, x.fn = "Init", x.pc = "clinit",
           top(t).fn = "Init", top(t).pc = "statics",
           started \in [Classes -> Nat], started' = [started EXCEPT ![k] = started[k] + 1],
           UNCHANGED <<status, clinitTid, waiting>>, \A j \in Classes : t \notin waiting[j], Core
    PROVE  Core'
<1> DEFINE d == depth[t]
<1>1. /\ depth \in [Threads -> Nat] /\ depth' = depth /\ d \in Slots(t)
      /\ \A u \in Threads : Slots(u)' = Slots(u)
      /\ fr'[t][d] = x
      /\ \A u \in Threads : \A h \in Slots(u) : ~(u = t /\ h = d) => fr'[u][h] = fr[u][h]
      /\ \A u \in Threads : u # t /\ depth[u] # 0 => top(u)' = top(u)
  BY GotoSlots
<1>2. /\ Claimed(x) /\ ~Checking(x) /\ Claimed(top(t)) /\ ~Checking(top(t))
      /\ started[k] = 0 /\ started'[k] = 1 /\ status[k] \in Over
      /\ \A j \in Classes : j # k => started'[j] = started[j]
  BY <1>1 DEF Claimed, Checking, AfterClaim, BeforeClinit, Core, ClaimsOK, Over, top
<1>3. \A u \in Threads : \A h \in Slots(u) : fr[u][h].k \in Classes
  BY FrType DEF Slots, Frames
<1>4. ClaimsOK'
  <2>1. \A u \in Threads : \A h \in Slots(u) :
           /\ fr'[u][h].k = fr[u][h].k
           /\ Claimed(fr'[u][h]) <=> Claimed(fr[u][h])
    BY <1>1, <1>2 DEF top
  <2>2. ASSUME NEW u \in Threads, NEW h \in Slots(u), Claimed(fr'[u][h]), fr'[u][h].pc \in BeforeClinit
        PROVE started'[fr'[u][h].k] = 0
    <3>1. ~(u = t /\ h = d) /\ fr'[u][h] = fr[u][h]
      BY <2>2, <1>1 DEF BeforeClinit
    <3>2. fr[u][h].k # k
      BY <3>1, <2>2, <1>1, <1>2 DEF Core, ClaimsOK, top
    <3>3. QED BY <3>1, <3>2, <2>2, <1>2, <1>3 DEF Core, ClaimsOK
  <2>3. \A j \in Classes : started'[j] \in {0, 1} /\ (status[j] \notin Over => started'[j] = 0)
    BY <1>2 DEF Core, ClaimsOK
  <2>4. \A u \in Threads : \A h \in Slots(u) : Claimed(fr'[u][h]) =>
           /\ status[fr'[u][h].k] = "kInitializing" /\ clinitTid[fr'[u][h].k] = u
           /\ fr'[u][h].pc \in BeforeClinit => started'[fr'[u][h].k] = 0
    BY <2>1, <2>2 DEF Core, ClaimsOK
  <2>5. \A u \in Threads : \A g, h \in Slots(u) :
           Claimed(fr'[u][g]) /\ Claimed(fr'[u][h]) /\ fr'[u][g].k = fr'[u][h].k => g = h
    BY <2>1 DEF Core, ClaimsOK
  <2>6. \A j \in Classes : /\ clinitTid[j] # NoThread => status[j] \in Over
                           /\ status[j] = "kInitializing" =>
                                  clinitTid[j] \in Threads /\ \E h \in Slots(clinitTid[j]) :
                                      Claimed(fr'[clinitTid[j]][h]) /\ fr'[clinitTid[j]][h].k = j
    BY <2>1 DEF Core, ClaimsOK
  <2>7. \A j \in Classes : status[j] = "kInitializing" => Slots(clinitTid[j])' = Slots(clinitTid[j])
    BY <1>1, <2>6
  <2>8. QED BY <1>1, <2>3, <2>4, <2>5, <2>6, <2>7 DEF ClaimsOK
<1>5. ChecksOK'
  BY <1>1, <1>2 DEF Core, ChecksOK, InVerifier, top
<1>6. CallsOK'
  BY GotoCalls DEF Core
<1>7. WaitOK'
  BY <1>1 DEF Core, WaitOK, InVerifier
<1>8. QED BY <1>4, <1>5, <1>6, <1>7 DEF Core

-----------------------------------------------------------------------------
\* Types, frames, claims, verifiers, calls and waits, action by action.
LEMMA Running ==
    ASSUME Safe, NEW t \in Threads, NEW fn, NEW pc, At(t, fn, pc)
    PROVE  /\ StackType /\ depth[t] \in Nat \ {0} /\ stack[t] # <<>>
           /\ Top(t) = top(t) /\ Top(t) \in Frames /\ Top(t).k \in Classes /\ FrameOK(Top(t))
           /\ Top(t).fn = fn /\ Top(t).pc = pc /\ Top(t).todo \in Todos
           /\ ~aborted /\ \A k \in Classes : t \notin waiting[k]
<1>1. StackType
  BY DEF Safe, TypeOK, StackType
<1>2. depth[t] \in Slots(t)
  BY <1>1, AtFacts DEF Slots
<1>3. QED BY <1>1, <1>2, AtFacts DEF Safe, FramesOK, top, Frames

LEMMA GotoStep ==
    ASSUME Safe, NEW t \in Threads, NEW fn, NEW p, At(t, fn, p),
           NEW pc \in Places, NEW todo \in Todos,
           \/ Goto(t, pc) /\ todo = Top(t).todo
           \/ GotoWith(t, pc, todo),
           UNCHANGED <<status, clinitTid, started, waiting>>,
           FrameOK(Frame(fn, Top(t).k, pc, todo)), SameRole(Frame(fn, Top(t).k, pc, todo), Top(t))
    PROVE  /\ StackType' /\ FramesOK' /\ Core' /\ ret' = ret
           /\ FrGoto(t, Frame(fn, Top(t).k, pc, todo))
<1> DEFINE x == Frame(fn, Top(t).k, pc, todo)
<1>1. StackType' /\ ret' = ret /\ FrGoto(t, x)
  BY Running, GotoShape, GotoWithShape
<1>2. FramesOK'
  BY <1>1, Running, GotoSlots DEF Safe, FramesOK
<1>3. Core'
  BY <1>1, Running, QuietGoto DEF Safe
<1>4. QED BY <1>1, <1>2, <1>3

LEMMA CallStep ==
    ASSUME Safe, NEW t \in Threads, NEW fn, NEW p, At(t, fn, p),
           NEW pc \in Places, NEW c \in Frames, Call(t, pc, c),
           UNCHANGED <<status, clinitTid, started, waiting>>,
           FrameOK(Frame(fn, Top(t).k, pc, Top(t).todo)), FrameOK(c),
           SameRole(Frame(fn, Top(t).k, pc, Top(t).todo), Top(t)),
           NewCall(c, Frame(fn, Top(t).k, pc, Top(t).todo))
    PROVE  /\ StackType' /\ FramesOK' /\ Core' /\ ret' = ret
           /\ FrCall(t, Frame(fn, Top(t).k, pc, Top(t).todo), c)
<1> DEFINE x == Frame(fn, Top(t).k, pc, Top(t).todo)
<1>1. StackType' /\ ret' = ret /\ FrCall(t, x, c)
  BY Running, CallShape
<1>2. FramesOK'
  BY <1>1, Running, CallSlots DEF Safe, FramesOK
<1>3. Core'
  BY <1>1, Running, QuietCall DEF Safe
<1>4. QED BY <1>1, <1>2, <1>3

LEMMA ReturnStep ==
    ASSUME Safe, NEW t \in Threads, NEW fn, NEW p, At(t, fn, p), NEW v \in BOOLEAN, Return(t, v),
           UNCHANGED <<status, clinitTid, started, waiting>>,
           ~Claimed(Top(t)), ~Checking(Top(t))
    PROVE  /\ StackType' /\ FramesOK' /\ Core' /\ ret' = [ret EXCEPT ![t] = v] /\ FrReturn(t)
<1>1. StackType' /\ FrReturn(t) /\ ret' = [ret EXCEPT ![t] = v]
  BY Running, ReturnShape
<1>2. FramesOK'
  BY <1>1, Running, ReturnSlots DEF Safe, FramesOK
<1>3. Core'
  BY <1>1, Running, QuietReturn DEF Safe
<1>4. QED BY <1>1, <1>2, <1>3

LEMMA SetReturnStep ==
    ASSUME Safe, NEW t \in Threads, NEW fn, NEW p, At(t, fn, p), NEW v \in BOOLEAN, Return(t, v),
           NEW s, SetStatus(Top(t).k, s), UNCHANGED <<clinitTid, started>>,
           \/ Claimed(Top(t)) /\ s \in {"kInitialized", "kErrorResolved"}
           \/ Checking(Top(t)) /\ s \in {"kVerified", "kErrorResolved"}
           \/ ~Claimed(Top(t)) /\ ~Checking(Top(t)) /\ status[Top(t).k] = "kVerified" /\ s = "kErrorResolved"
    PROVE  /\ StackType' /\ FramesOK' /\ Core' /\ ret' = [ret EXCEPT ![t] = v] /\ FrReturn(t)
<1>1. StackType' /\ FrReturn(t) /\ ret' = [ret EXCEPT ![t] = v]
  BY Running, ReturnShape
<1>2. FramesOK'
  BY <1>1, Running, ReturnSlots DEF Safe, FramesOK
<1>3. /\ StackType /\ Core /\ status \in [Classes -> Statuses] /\ waiting \in [Classes -> SUBSET Threads]
      /\ depth[t] # 0 /\ Top(t) = top(t) /\ Top(t).k \in Classes /\ \A j \in Classes : t \notin waiting[j]
  BY Running DEF Safe, TypeOK
<1>4. Core'
  BY <1>1, <1>3, StatusReturn
<1>5. QED BY <1>1, <1>2, <1>4

LEMMA ClaimSafe ==
    ASSUME Safe, NEW t \in Threads, NEW p \in {"lock", "verified"}, At(t, "Init", p),
           NEW k, k = Top(t).k, Claim(t, k), UNCHANGED <<calls, started>>
    PROVE  Safe'
<1>1. /\ StackType /\ depth[t] # 0 /\ Top(t) = top(t) /\ Top(t) \in Frames /\ k \in Classes
      /\ FrameOK(Top(t)) /\ Top(t).fn = "Init" /\ Top(t).pc = p /\ Top(t).todo \in Todos
      /\ stack[t] # <<>> /\ \A j \in Classes : t \notin waiting[j]
  BY Running
<1>2. ~Claimed(Top(t)) /\ ~Checking(Top(t))
  BY <1>1 DEF Claimed, Checking, AfterClaim
<1>3. CASE /\ \E v \in BOOLEAN : Return(t, v)
           /\ Release(t, k) /\ UNCHANGED <<cvars, waiting, exc, aborted>>
  <2>1. PICK v \in BOOLEAN : Return(t, v)
    BY <1>3
  <2>2. StackType' /\ FramesOK' /\ Core' /\ ret' = [ret EXCEPT ![t] = v]
    BY <1>2, <1>3, <2>1, ReturnStep DEF cvars
  <2>3. TypeOK'
    BY <1>1, <1>3, <2>2 DEF Safe, TypeOK, StackType, cvars, Release
  <2>4. QED BY <2>2, <2>3 DEF Safe
<1>4. CASE /\ status[k] = "kInitializing" /\ exc[t] = "none" /\ clinitTid[k] /= t
           /\ Goto(t, "waiting") /\ Wait(t, k)
           /\ UNCHANGED <<cvars, exc, aborted>>
  <2> DEFINE x == Frame("Init", k, "waiting", Top(t).todo)
  <2>1. StackType' /\ FrGoto(t, x) /\ ret' = ret
    BY <1>1, <1>4, GotoShape DEF Places
  <2>2. FramesOK'
    BY <1>1, <2>1, GotoSlots DEF Safe, FramesOK, FrameOK, Frame
  <2>3. waiting \in [Classes -> SUBSET Threads]
        /\ waiting' = [waiting EXCEPT ![k] = @ \union {t}] /\ owner' = [owner EXCEPT ![k] = NoThread]
        /\ UNCHANGED <<status, clinitTid, started>>
    BY <1>4 DEF Safe, TypeOK, Wait, cvars
  <2>4. Core'
    <3>1. x.fn = "Init" /\ x.pc = "waiting" /\ x.k = k
      BY DEF Frame
    <3>2. QED BY <1>1, <1>2, <1>4, <2>1, <2>3, <3>1, WaitGoto DEF Safe
  <2>5. TypeOK'
    BY <1>1, <1>4, <2>1, <2>3 DEF Safe, TypeOK, StackType, cvars
  <2>6. QED BY <2>2, <2>4, <2>5 DEF Safe
<1>5. CASE /\ status[k] = "kVerified"
           /\ SetStatus(k, "kErrorResolved") /\ Throw(t, "LinkageError")
           /\ Return(t, FALSE) /\ Release(t, k)
           /\ UNCHANGED <<clinitTid, recInit, attempted, aborted>>
  <2>1. StackType' /\ FramesOK' /\ Core' /\ ret' = [ret EXCEPT ![t] = FALSE]
    BY <1>1, <1>2, <1>5, SetReturnStep
  <2>2. TypeOK'
    BY <1>1, <1>5, <2>1 DEF Safe, TypeOK, StackType, SetStatus, Throw, Release, Statuses, Rank
  <2>3. QED BY <2>1, <2>2 DEF Safe
<1>6. CASE /\ status[k] = "kVerified"
           /\ clinitTid' = [clinitTid EXCEPT ![k] = t]
           /\ SetStatus(k, "kInitializing")
           /\ Goto(t, "super") /\ Release(t, k)
           /\ UNCHANGED <<recInit, attempted, exc, aborted>>
  <2> DEFINE x == Frame("Init", k, "super", Top(t).todo)
  <2>1. StackType' /\ FrGoto(t, x) /\ ret' = ret
    BY <1>1, <1>6, GotoShape DEF Places, AfterClaim
  <2>2. FramesOK'
    BY <1>1, <2>1, GotoSlots DEF Safe, FramesOK, FrameOK, Frame, AfterClaim
  <2>3. Core'
    <3>1. x.fn = "Init" /\ x.pc = "super" /\ x.k = k
      BY DEF Frame
    <3>2. /\ status \in [Classes -> Statuses] /\ clinitTid \in [Classes -> Threads \union {NoThread}]
          /\ waiting \in [Classes -> SUBSET Threads]
      BY DEF Safe, TypeOK
    <3>3. QED BY <1>1, <1>6, <2>1, <3>1, <3>2, ClaimGoto DEF Safe
  <2>4. TypeOK'
    BY <1>1, <1>6, <2>1 DEF Safe, TypeOK, StackType, SetStatus, Release, Statuses, Rank
  <2>5. QED BY <2>2, <2>3, <2>4 DEF Safe
<1>7. QED
  BY <1>3, <1>4, <1>5, <1>6 DEF Claim

LEMMA EnterSafe ==
    ASSUME Safe, NEW t \in Threads, InitEnter(t)
    PROVE  Safe'
<1> DEFINE k == Top(t).k
<1>1. /\ At(t, "Init", "enter") /\ UNCHANGED <<status, clinitTid, started, waiting>>
      /\ UNCHANGED <<cvars, owner, exc, calls, aborted>>
  BY DEF InitEnter, cvars
<1>2. /\ Top(t).fn = "Init" /\ Top(t).pc = "enter" /\ k \in Classes /\ Top(t).todo \in Todos
      /\ FrameOK(Top(t)) /\ ret \in [Threads -> BOOLEAN]
  BY <1>1, Running DEF Safe, TypeOK
<1>3. ~Claimed(Top(t)) /\ ~Checking(Top(t))
  BY <1>2 DEF Claimed, Checking, AfterClaim
<1>4. CASE Return(t, TRUE)
  <2>1. StackType' /\ FramesOK' /\ Core' /\ ret' = [ret EXCEPT ![t] = TRUE]
    BY <1>1, <1>3, <1>4, ReturnStep
  <2>2. QED BY <2>1, <1>1, <1>2 DEF Safe, TypeOK, StackType, cvars
<1>5. CASE Goto(t, "lock")
  <2> DEFINE x == Frame("Init", k, "lock", Top(t).todo)
  <2>1. FrameOK(x) /\ SameRole(x, Top(t)) /\ "lock" \in Places
    BY <1>2 DEF FrameOK, Frame, SameRole, Claimed, Checking, AfterClaim, BeforeClinit, Places
  <2>2. StackType' /\ FramesOK' /\ Core' /\ ret' = ret
    BY <1>1, <1>2, <1>5, <2>1, GotoStep
  <2>3. QED BY <2>2, <1>1, <1>2 DEF Safe, TypeOK, StackType, cvars
<1>6. QED BY <1>4, <1>5 DEF InitEnter

LEMMA LockSafe ==
    ASSUME Safe, NEW t \in Threads, InitLock(t)
    PROVE  Safe'
<1> DEFINE k == Top(t).k
<1>1. At(t, "Init", "lock") /\ UNCHANGED <<calls, started>>
  BY DEF InitLock
<1>2. /\ Top(t).fn = "Init" /\ Top(t).pc = "lock" /\ k \in Classes /\ Top(t).todo \in Todos
      /\ FrameOK(Top(t))
  BY <1>1, Running
<1>3. ~Claimed(Top(t)) /\ ~Checking(Top(t))
  BY <1>2 DEF Claimed, Checking, AfterClaim
<1>4. CASE /\ Throw(t, EarlierFailure(TRUE)) /\ Return(t, FALSE)
           /\ UNCHANGED <<cvars, owner, waiting, aborted>>
  <2>1. StackType' /\ FramesOK' /\ Core' /\ ret' = [ret EXCEPT ![t] = FALSE]
    BY <1>1, <1>3, <1>4, ReturnStep DEF cvars
  <2>2. QED BY <2>1, <1>1, <1>4 DEF Safe, TypeOK, StackType, cvars, Throw, EarlierFailure
<1>5. CASE /\ owner' = [owner EXCEPT ![k] = t]
           /\ Call(t, "verified", VerifyFrame(k))
           /\ UNCHANGED <<cvars, waiting, exc, aborted>>
  <2> DEFINE x == Frame("Init", k, "verified", Top(t).todo)
             c == VerifyFrame(k)
  <2>1. FrameOK(x) /\ SameRole(x, Top(t)) /\ "verified" \in Places
    BY <1>2 DEF FrameOK, Frame, SameRole, Claimed, Checking, AfterClaim, BeforeClinit, Places
  <2>2. FrameOK(c) /\ NewCall(c, x) /\ c \in Frames
    BY <1>2 DEF FrameOK, VerifyFrame, Frame, NewCall, CalledBy, Claimed, Checking, AfterClaim, Frames, Places, Todos
  <2>3. StackType' /\ FramesOK' /\ Core' /\ ret' = ret
    BY <1>1, <1>2, <1>5, <2>1, <2>2, CallStep DEF cvars
  <2>4. QED BY <2>3, <1>1, <1>2, <1>5 DEF Safe, TypeOK, StackType, cvars
<1>6. CASE Claim(t, k)
  BY <1>1, <1>6, ClaimSafe
<1>7. QED BY <1>4, <1>5, <1>6 DEF InitLock

LEMMA VerifiedSafe ==
    ASSUME Safe, NEW t \in Threads, InitVerified(t)
    PROVE  Safe'
<1> DEFINE k == Top(t).k
<1>1. At(t, "Init", "verified") /\ UNCHANGED <<calls, started>>
  BY DEF InitVerified
<1>2. Top(t).fn = "Init" /\ Top(t).pc = "verified" /\ k \in Classes
  BY <1>1, Running
<1>3. ~Claimed(Top(t)) /\ ~Checking(Top(t))
  BY <1>2 DEF Claimed, Checking, AfterClaim
<1>4. CASE /\ IF exc[t] = "none" THEN Throw(t, EarlierFailure(TRUE)) ELSE UNCHANGED exc
           /\ Return(t, FALSE) /\ Release(t, k)
           /\ UNCHANGED <<cvars, waiting, aborted>>
  <2>1. StackType' /\ FramesOK' /\ Core' /\ ret' = [ret EXCEPT ![t] = FALSE]
    BY <1>1, <1>3, <1>4, ReturnStep DEF cvars
  <2>2. QED BY <2>1, <1>1, <1>4 DEF Safe, TypeOK, StackType, cvars, Throw, EarlierFailure, Release
<1>5. CASE Claim(t, k)
  BY <1>1, <1>5, ClaimSafe
<1>6. QED BY <1>4, <1>5 DEF InitVerified

LEMMA WaitingSafe ==
    ASSUME Safe, NEW t \in Threads, WaitForInitializeClass(t)
    PROVE  Safe'
<1> DEFINE k == Top(t).k
<1>1. At(t, "Init", "waiting") /\ UNCHANGED <<cvars, calls, started>>
  BY DEF WaitForInitializeClass
<1>2. /\ Top(t).fn = "Init" /\ Top(t).pc = "waiting" /\ k \in Classes /\ Top(t) = top(t)
      /\ StackType /\ depth[t] # 0
  BY <1>1, Running
<1>3. ~Claimed(Top(t)) /\ ~Checking(Top(t))
  BY <1>2 DEF Claimed, Checking, AfterClaim
<1>4. CASE /\ status[k] = "kInitializing" /\ Wait(t, k)
           /\ UNCHANGED <<stack, ret, exc, aborted>>
  <2>1. waiting \in [Classes -> SUBSET Threads]
    BY DEF Safe, TypeOK
  <2>2. waiting' = [waiting EXCEPT ![k] = waiting[k] \union {t}]
    BY <1>4 DEF Wait
  <2>3. \A j \in Classes : \A u \in waiting'[j] : u \in waiting[j] \/ (u = t /\ j = k)
    BY <1>2, <2>1, <2>2
  <2>4. Core'
    BY <1>1, <1>2, <1>4, <2>1, <2>3, WaitChange DEF Safe, cvars
  <2>5. FramesOK'
    BY <1>4 DEF Safe, FramesOK, Slots, depth, fr
  <2>6. TypeOK'
    BY <1>1, <1>4, <2>1 DEF Safe, TypeOK, cvars, Wait
  <2>7. QED BY <2>4, <2>5, <2>6 DEF Safe
<1>5. CASE /\ \E v \in BOOLEAN : Return(t, v)
           /\ exc' = exc \/ Throw(t, "NoClassDefFoundError")
           /\ UNCHANGED <<owner, waiting, aborted>>
  <2>1. PICK v \in BOOLEAN : Return(t, v)
    BY <1>5
  <2>2. StackType' /\ FramesOK' /\ Core' /\ ret' = [ret EXCEPT ![t] = v]
    BY <1>1, <1>3, <1>5, <2>1, ReturnStep DEF cvars
  <2>3. QED BY <2>2, <1>1, <1>5 DEF Safe, TypeOK, StackType, cvars, Throw
<1>6. QED BY <1>4, <1>5 DEF WaitForInitializeClass

LEMMA SuperSafe ==
    ASSUME Safe, NEW t \in Threads, InitSuper(t)
    PROVE  Safe'
<1> DEFINE k == Top(t).k
<1>1. /\ At(t, "Init", "super") /\ UNCHANGED <<status, clinitTid, started, waiting>>
      /\ UNCHANGED <<cvars, owner, exc, calls, aborted>>
  BY DEF InitSuper, cvars
<1>2. /\ Top(t).fn = "Init" /\ Top(t).pc = "super" /\ k \in Classes /\ Top(t).todo \in Todos
      /\ FrameOK(Top(t))
  BY <1>1, Running
<1>3. CASE Super[k] # NoClass /\ Call(t, "superDone", InitFrame(Super[k]))
  <2> DEFINE x == Frame("Init", k, "superDone", Top(t).todo)
             c == InitFrame(Super[k])
  <2>1. FrameOK(x) /\ SameRole(x, Top(t)) /\ "superDone" \in Places
    BY <1>2, <1>3 DEF FrameOK, Frame, SameRole, Claimed, Checking, AfterClaim, BeforeClinit, Places
  <2>2. FrameOK(c) /\ NewCall(c, x) /\ c \in Frames
    BY <1>2, <1>3, InitAssumption
       DEF FrameOK, InitFrame, Frame, NewCall, CalledBy, Claimed, Checking, AfterClaim, Frames, Places, Todos
  <2>3. StackType' /\ FramesOK' /\ Core' /\ ret' = ret
    BY <1>1, <1>2, <1>3, <2>1, <2>2, CallStep
  <2>4. QED BY <2>3, <1>1 DEF Safe, TypeOK, StackType, cvars
<1>4. CASE GotoWith(t, "ifaces", IF k \in Interfaces THEN <<>> ELSE Direct[k])
  <2> DEFINE todo == IF k \in Interfaces THEN <<>> ELSE Direct[k]
             x == Frame("Init", k, "ifaces", todo)
  <2>1. todo \in Seq(Interfaces) /\ todo \in Todos
    BY <1>2, InitAssumption DEF Todos
  <2>2. FrameOK(x) /\ SameRole(x, Top(t)) /\ "ifaces" \in Places
    BY <1>2, <2>1 DEF FrameOK, Frame, SameRole, Claimed, Checking, AfterClaim, BeforeClinit, Places
  <2>3. StackType' /\ FramesOK' /\ Core' /\ ret' = ret
    BY <1>1, <1>2, <1>4, <2>1, <2>2, GotoStep
  <2>4. QED BY <2>3, <1>1 DEF Safe, TypeOK, StackType, cvars
<1>5. QED BY <1>3, <1>4 DEF InitSuper

LEMMA ParentFailSafe ==
    ASSUME Safe, NEW t \in Threads, NEW p \in {"superDone", "ifaceDone"}, At(t, "Init", p),
           FailFromParent(t, Top(t).k), UNCHANGED <<calls, started>>
    PROVE  Safe'
<1>1. Top(t).fn = "Init" /\ Top(t).pc = p /\ Top(t).k \in Classes
  BY Running
<1>2. Claimed(Top(t))
  BY <1>1 DEF Claimed, AfterClaim
<1>3. /\ SetStatus(Top(t).k, "kErrorResolved") /\ Return(t, FALSE)
      /\ UNCHANGED <<clinitTid, recInit, attempted, owner, exc, aborted>>
  BY DEF FailFromParent
<1>4. StackType' /\ FramesOK' /\ Core' /\ ret' = [ret EXCEPT ![t] = FALSE]
  BY <1>2, <1>3, SetReturnStep
<1>5. QED BY <1>1, <1>3, <1>4 DEF Safe, TypeOK, StackType, SetStatus, Statuses, Rank

LEMMA SuperDoneSafe ==
    ASSUME Safe, NEW t \in Threads, InitSuperDone(t)
    PROVE  Safe'
<1> DEFINE k == Top(t).k
<1>1. At(t, "Init", "superDone") /\ UNCHANGED <<calls, started>>
  BY DEF InitSuperDone
<1>2. /\ Top(t).fn = "Init" /\ Top(t).pc = "superDone" /\ k \in Classes
  BY <1>1, Running
<1>3. CASE /\ GotoWith(t, "ifaces", Direct[k])
           /\ UNCHANGED <<cvars, owner, waiting, exc, aborted>>
  <2> DEFINE x == Frame("Init", k, "ifaces", Direct[k])
  <2>1. Direct[k] \in Seq(Interfaces) /\ Direct[k] \in Todos
    BY <1>2, InitAssumption DEF Todos
  <2>2. FrameOK(x) /\ SameRole(x, Top(t)) /\ "ifaces" \in Places
    BY <1>2, <2>1 DEF FrameOK, Frame, SameRole, Claimed, Checking, AfterClaim, BeforeClinit, Places
  <2>3. StackType' /\ FramesOK' /\ Core' /\ ret' = ret
    BY <1>1, <1>2, <1>3, <2>1, <2>2, GotoStep DEF cvars
  <2>4. QED BY <2>3, <1>1, <1>3 DEF Safe, TypeOK, StackType, cvars
<1>4. CASE FailFromParent(t, k)
  BY <1>1, <1>4, ParentFailSafe
<1>5. QED BY <1>3, <1>4 DEF InitSuperDone

LEMMA IfacesSafe ==
    ASSUME Safe, NEW t \in Threads, InitIfaces(t)
    PROVE  Safe'
<1> DEFINE k == Top(t).k
           todo == Top(t).todo
<1>1. /\ At(t, "Init", "ifaces") /\ UNCHANGED <<status, clinitTid, started, waiting>>
      /\ UNCHANGED <<cvars, owner, exc, calls, aborted>>
  BY DEF InitIfaces, cvars
<1>2. /\ Top(t).fn = "Init" /\ Top(t).pc = "ifaces" /\ k \in Classes /\ todo \in Todos
      /\ FrameOK(Top(t))
  BY <1>1, Running
<1>3. todo \in Seq(Interfaces)
  BY <1>2 DEF FrameOK
<1>4. CASE Goto(t, "statics")
  <2> DEFINE x == Frame("Init", k, "statics", todo)
  <2>1. FrameOK(x) /\ SameRole(x, Top(t)) /\ "statics" \in Places
    BY <1>2 DEF FrameOK, Frame, SameRole, Claimed, Checking, AfterClaim, BeforeClinit, Places
  <2>2. StackType' /\ FramesOK' /\ Core' /\ ret' = ret
    BY <1>1, <1>2, <1>4, <2>1, GotoStep
  <2>3. QED BY <2>2, <1>1 DEF Safe, TypeOK, StackType, cvars
<1>5. CASE todo # <<>> /\ GotoWith(t, "ifaces", Tail(todo))
  <2> DEFINE x == Frame("Init", k, "ifaces", Tail(todo))
  <2>1. Tail(todo) \in Seq(Interfaces) /\ Tail(todo) \in Todos
    BY <1>3, <1>5, InitAssumption DEF Todos
  <2>2. FrameOK(x) /\ SameRole(x, Top(t)) /\ "ifaces" \in Places
    BY <1>2, <2>1 DEF FrameOK, Frame, SameRole, Claimed, Checking, AfterClaim, BeforeClinit, Places
  <2>3. StackType' /\ FramesOK' /\ Core' /\ ret' = ret
    BY <1>1, <1>2, <1>5, <2>1, <2>2, GotoStep
  <2>4. QED BY <2>3, <1>1 DEF Safe, TypeOK, StackType, cvars
<1>6. CASE todo # <<>> /\ Call(t, "ifaceDone", DefaultFrame(Head(todo)))
  <2> DEFINE x == Frame("Init", k, "ifaceDone", todo)
             c == DefaultFrame(Head(todo))
  <2>1. FrameOK(x) /\ SameRole(x, Top(t)) /\ "ifaceDone" \in Places
    BY <1>2, <1>3, <1>6 DEF FrameOK, Frame, SameRole, Claimed, Checking, AfterClaim, BeforeClinit, Places
  <2>2. Head(todo) \in Interfaces /\ Head(todo) \in Classes /\ Direct[Head(todo)] \in Seq(Interfaces)
        /\ Direct[Head(todo)] \in Todos
    BY <1>3, <1>6, InitAssumption DEF Todos
  <2>3. FrameOK(c) /\ NewCall(c, x) /\ c \in Frames
    BY <2>2
       DEF FrameOK, DefaultFrame, Frame, NewCall, CalledBy, Claimed, Checking, AfterClaim, Frames, Places
  <2>4. StackType' /\ FramesOK' /\ Core' /\ ret' = ret
    BY <1>1, <1>2, <1>6, <2>1, <2>3, CallStep
  <2>5. QED BY <2>4, <1>1 DEF Safe, TypeOK, StackType, cvars
<1>7. QED BY <1>4, <1>5, <1>6 DEF InitIfaces

LEMMA IfaceDoneSafe ==
    ASSUME Safe, NEW t \in Threads, InitIfaceDone(t)
    PROVE  Safe'
<1> DEFINE k == Top(t).k
           todo == Top(t).todo
<1>1. At(t, "Init", "ifaceDone") /\ UNCHANGED <<calls, started>>
  BY DEF InitIfaceDone
<1>2. /\ Top(t).fn = "Init" /\ Top(t).pc = "ifaceDone" /\ k \in Classes
      /\ FrameOK(Top(t))
  BY <1>1, Running
<1>3. todo \in Seq(Interfaces) /\ todo # <<>>
  BY <1>2 DEF FrameOK
<1>4. CASE /\ GotoWith(t, "ifaces", Tail(todo))
           /\ UNCHANGED <<cvars, owner, waiting, exc, aborted>>
  <2> DEFINE x == Frame("Init", k, "ifaces", Tail(todo))
  <2>1. Tail(todo) \in Seq(Interfaces) /\ Tail(todo) \in Todos
    BY <1>3, InitAssumption DEF Todos
  <2>2. FrameOK(x) /\ SameRole(x, Top(t)) /\ "ifaces" \in Places
    BY <1>2, <2>1 DEF FrameOK, Frame, SameRole, Claimed, Checking, AfterClaim, BeforeClinit, Places
  <2>3. StackType' /\ FramesOK' /\ Core' /\ ret' = ret
    BY <1>1, <1>2, <1>4, <2>1, <2>2, GotoStep DEF cvars
  <2>4. QED BY <2>3, <1>1, <1>4 DEF Safe, TypeOK, StackType, cvars
<1>5. CASE FailFromParent(t, k)
  BY <1>1, <1>5, ParentFailSafe
<1>6. QED BY <1>4, <1>5 DEF InitIfaceDone

LEMMA StaticsSafe ==
    ASSUME Safe, NEW t \in Threads, InitStatics(t)
    PROVE  Safe'
<1> DEFINE k == Top(t).k
<1>1. At(t, "Init", "statics") /\ UNCHANGED <<cvars, owner, waiting, calls, aborted>>
  BY DEF InitStatics
<1>2. /\ Top(t).fn = "Init" /\ Top(t).pc = "statics" /\ k \in Classes /\ Top(t).todo \in Todos
      /\ FrameOK(Top(t)) /\ Top(t) = top(t) /\ StackType /\ depth[t] # 0 /\ stack[t] # <<>>
      /\ \A j \in Classes : t \notin waiting[j]
  BY <1>1, Running
<1>3. CASE /\ GotoWith(t, "clinit", Touches[k])
           /\ started' = [started EXCEPT ![k] = @ + 1] /\ UNCHANGED exc
  <2> DEFINE x == Frame("Init", k, "clinit", Touches[k])
  <2>1. Touches[k] \in Seq(Classes) /\ Touches[k] \in Todos
    BY <1>2, InitAssumption DEF Todos
  <2>2. FrameOK(x) /\ "clinit" \in Places /\ x.fn = "Init" /\ x.k = k /\ x.pc = "clinit"
    BY <2>1 DEF FrameOK, Frame, AfterClaim, Places
  <2>3. StackType' /\ FrGoto(t, x) /\ ret' = ret
    BY <1>2, <1>3, <2>1, <2>2, GotoWithShape
  <2>4. FramesOK'
    BY <1>2, <2>2, <2>3, GotoSlots DEF Safe, FramesOK
  <2>5. started \in [Classes -> Nat] /\ started' = [started EXCEPT ![k] = started[k] + 1]
    BY <1>3 DEF Safe, TypeOK
  <2>6. UNCHANGED <<status, clinitTid, waiting>>
    BY <1>1 DEF cvars
  <2>7. Core'
    BY <1>2, <2>2, <2>3, <2>5, <2>6, ClinitGoto DEF Safe
  <2>8. TypeOK'
    <3>1. started' \in [Classes -> Nat]
      BY <2>5, <1>2
    <3>2. QED BY <1>1, <1>3, <2>3, <3>1 DEF Safe, TypeOK, StackType, cvars
  <2>9. QED BY <2>4, <2>7, <2>8 DEF Safe
<1>4. CASE Throw(t, "StaticValue") /\ Goto(t, "finish") /\ UNCHANGED started
  <2> DEFINE x == Frame("Init", k, "finish", Top(t).todo)
  <2>1. FrameOK(x) /\ SameRole(x, Top(t)) /\ "finish" \in Places
    BY <1>2 DEF FrameOK, Frame, SameRole, Claimed, Checking, AfterClaim, BeforeClinit, Places
  <2>2. StackType' /\ FramesOK' /\ Core' /\ ret' = ret
    BY <1>1, <1>2, <1>4, <2>1, GotoStep DEF cvars
  <2>3. QED BY <2>2, <1>1, <1>4 DEF Safe, TypeOK, StackType, cvars, Throw
<1>5. QED BY <1>3, <1>4 DEF InitStatics

LEMMA ClinitSafe ==
    ASSUME Safe, NEW t \in Threads, Clinit(t)
    PROVE  Safe'
<1> DEFINE k == Top(t).k
           todo == Top(t).todo
<1>1. /\ At(t, "Init", "clinit") /\ UNCHANGED <<cvars, owner, waiting, calls, aborted, started>>
      /\ UNCHANGED <<status, clinitTid, started, waiting>>
  BY DEF Clinit, cvars
<1>2. /\ Top(t).fn = "Init" /\ Top(t).pc = "clinit" /\ k \in Classes /\ todo \in Todos
      /\ FrameOK(Top(t)) /\ Top(t) = top(t) /\ StackType /\ depth[t] # 0 /\ stack[t] # <<>>
      /\ \A j \in Classes : t \notin waiting[j]
  BY <1>1, Running
<1>3. todo \in Seq(Classes)
  BY <1>2 DEF FrameOK
<1>4. CASE /\ todo # <<>>
           /\ stack' = [stack EXCEPT ![t] = <<InitFrame(Head(todo))>> \o MovedWith(t, "clinit", Tail(todo))]
           /\ UNCHANGED <<exc, ret>>
  <2> DEFINE x == Frame("Init", k, "clinit", Tail(todo))
             c == InitFrame(Head(todo))
  <2>1. Head(todo) \in Classes /\ Tail(todo) \in Seq(Classes) /\ Tail(todo) \in Todos /\ <<>> \in Todos
    BY <1>3, <1>4 DEF Todos
  <2>2. FrameOK(x) /\ SameRole(x, Top(t)) /\ x \in Frames
    BY <1>2, <2>1 DEF FrameOK, Frame, SameRole, Claimed, Checking, AfterClaim, BeforeClinit, Frames, Places
  <2>3. FrameOK(c) /\ NewCall(c, x) /\ c \in Frames
    BY <2>1 DEF FrameOK, InitFrame, Frame, NewCall, CalledBy, Claimed, Checking, AfterClaim, Frames, Places
  <2>4. stack' = [stack EXCEPT ![t] = <<c>> \o (<<x>> \o Tail(stack[t]))]
    BY <1>2, <1>4 DEF MovedWith
  <2>5. StackType' /\ FrCall(t, x, c)
    BY <1>2, <2>2, <2>3, <2>4, Calls
  <2>6. FramesOK'
    BY <1>2, <2>2, <2>3, <2>5, CallSlots DEF Safe, FramesOK
  <2>7. Core'
    BY <1>1, <1>2, <2>2, <2>3, <2>5, QuietCall DEF Safe
  <2>8. TypeOK'
    BY <1>1, <1>4, <2>5 DEF Safe, TypeOK, StackType, cvars
  <2>9. QED BY <2>6, <2>7, <2>8 DEF Safe
<1>5. CASE Goto(t, "finish") /\ (exc' = exc \/ Throw(t, "Clinit"))
  <2> DEFINE x == Frame("Init", k, "finish", Top(t).todo)
  <2>1. FrameOK(x) /\ SameRole(x, Top(t)) /\ "finish" \in Places
    BY <1>2 DEF FrameOK, Frame, SameRole, Claimed, Checking, AfterClaim, BeforeClinit, Places
  <2>2. StackType' /\ FramesOK' /\ Core' /\ ret' = ret
    BY <1>1, <1>2, <1>5, <2>1, GotoStep
  <2>3. QED BY <2>2, <1>1, <1>5 DEF Safe, TypeOK, StackType, cvars, Throw
<1>6. CASE Throw(t, "none") /\ UNCHANGED <<stack, ret>>
  <2>1. waiting \in [Classes -> SUBSET Threads]
    BY DEF Safe, TypeOK
  <2>2. Core'
    BY <1>1, <1>2, <1>6, <2>1, WaitChange DEF Safe
  <2>3. FramesOK'
    BY <1>6 DEF Safe, FramesOK, Slots, depth, fr
  <2>4. TypeOK'
    BY <1>1, <1>6 DEF Safe, TypeOK, cvars, Throw
  <2>5. QED BY <2>2, <2>3, <2>4 DEF Safe
<1>7. QED BY <1>4, <1>5, <1>6 DEF Clinit, Throw

LEMMA FinishSafe ==
    ASSUME Safe, NEW t \in Threads, InitFinish(t)
    PROVE  Safe'
<1> DEFINE ok == exc[t] = "none"
           s == IF ok THEN "kInitialized" ELSE "kErrorResolved"
<1>1. /\ At(t, "Init", "finish") /\ SetStatus(Top(t).k, s) /\ Return(t, ok)
      /\ UNCHANGED <<clinitTid, started>>
      /\ UNCHANGED <<clinitTid, recInit, attempted, owner, calls, aborted, started>>
      /\ exc' = exc \/ Throw(t, "ExceptionInInitializerError")
  BY DEF InitFinish
<1>2. Top(t).fn = "Init" /\ Top(t).pc = "finish" /\ Top(t).k \in Classes
  BY <1>1, Running
<1>3. Claimed(Top(t)) /\ ok \in BOOLEAN /\ s \in {"kInitialized", "kErrorResolved"}
  BY <1>2 DEF Claimed, AfterClaim
<1>4. StackType' /\ FramesOK' /\ Core' /\ ret' = [ret EXCEPT ![t] = ok]
  BY <1>1, <1>3, SetReturnStep
<1>5. status' \in [Classes -> Statuses] /\ waiting' \in [Classes -> SUBSET Threads]
  BY <1>1, <1>2, <1>3 DEF Safe, TypeOK, SetStatus, Statuses, Rank
<1>6. clinitTid[Top(t).k] = t
  <2>1. Top(t) = fr[t][depth[t]] /\ depth[t] \in Slots(t)
    BY <1>1, Running DEF top, Slots
  <2>2. QED BY <2>1, <1>3 DEF Safe, Core, ClaimsOK
<1>7. \A j \in Classes : status'[j] \in {"kInitializing", "kInitialized"} => clinitTid[j] \in Threads
  BY <1>1, <1>2, <1>6 DEF Safe, TypeOK, SetStatus
<1>8. QED BY <1>1, <1>4, <1>5, <1>7 DEF Safe, TypeOK, StackType, Throw

LEMMA DefaultSupersSafe ==
    ASSUME Safe, NEW t \in Threads, DefaultSupers(t)
    PROVE  Safe'
<1> DEFINE k == Top(t).k
           todo == Top(t).todo
<1>1. /\ At(t, "Default", "supers") /\ UNCHANGED <<status, clinitTid, started, waiting>>
      /\ UNCHANGED <<cvars, owner, exc, calls, aborted>>
  BY DEF DefaultSupers, cvars
<1>2. /\ Top(t).fn = "Default" /\ Top(t).pc = "supers" /\ k \in Classes /\ todo \in Todos
      /\ FrameOK(Top(t)) /\ Top(t) \in Frames /\ Top(t) = top(t) /\ StackType /\ depth[t] # 0
      /\ stack[t] # <<>> /\ \A j \in Classes : t \notin waiting[j]
  BY <1>1, Running
<1>3. todo \in Seq(Interfaces) /\ k \in Interfaces
  BY <1>2 DEF FrameOK
<1>4. CASE Call(t, "mark", InitFrame(k))
  <2> DEFINE x == Frame("Default", k, "mark", todo)
             c == InitFrame(k)
  <2>1. FrameOK(x) /\ SameRole(x, Top(t)) /\ "mark" \in Places
    BY <1>2, <1>3 DEF FrameOK, Frame, SameRole, Claimed, Checking, AfterClaim, BeforeClinit, Places
  <2>2. FrameOK(c) /\ NewCall(c, x) /\ c \in Frames
    BY <1>2 DEF FrameOK, InitFrame, Frame, NewCall, CalledBy, Claimed, Checking, AfterClaim, Frames, Places, Todos
  <2>3. StackType' /\ FramesOK' /\ Core' /\ ret' = ret
    BY <1>1, <1>2, <1>4, <2>1, <2>2, CallStep
  <2>4. QED BY <2>3, <1>1 DEF Safe, TypeOK, StackType, cvars
<1>5. CASE stack' = [stack EXCEPT ![t] = Moved(t, "mark")] /\ ret' = [ret EXCEPT ![t] = TRUE]
  <2> DEFINE x == Frame("Default", k, "mark", todo)
  <2>1. FrameOK(x) /\ SameRole(x, Top(t)) /\ x \in Frames /\ [Top(t) EXCEPT !.pc = "mark"] = x
    BY <1>2, <1>3 DEF FrameOK, Frame, SameRole, Claimed, Checking, AfterClaim, BeforeClinit, Frames, Places
  <2>2. StackType' /\ FrGoto(t, x)
    BY <1>2, <1>5, <2>1, Gotos DEF Moved
  <2>3. FramesOK'
    BY <1>2, <2>1, <2>2, GotoSlots DEF Safe, FramesOK
  <2>4. Core'
    BY <1>1, <1>2, <2>1, <2>2, QuietGoto DEF Safe
  <2>5. QED BY <1>1, <1>5, <2>2, <2>3, <2>4 DEF Safe, TypeOK, StackType, cvars
<1>6. CASE todo # <<>> /\ GotoWith(t, "supers", Tail(todo))
  <2> DEFINE x == Frame("Default", k, "supers", Tail(todo))
  <2>1. Tail(todo) \in Seq(Interfaces) /\ Tail(todo) \in Todos
    BY <1>3, <1>6, InitAssumption DEF Todos
  <2>2. FrameOK(x) /\ SameRole(x, Top(t)) /\ "supers" \in Places
    BY <1>2, <1>3, <2>1 DEF FrameOK, Frame, SameRole, Claimed, Checking, AfterClaim, BeforeClinit, Places
  <2>3. StackType' /\ FramesOK' /\ Core' /\ ret' = ret
    BY <1>1, <1>2, <1>6, <2>1, <2>2, GotoStep
  <2>4. QED BY <2>3, <1>1 DEF Safe, TypeOK, StackType, cvars
<1>7. CASE todo # <<>> /\ Call(t, "superDone", DefaultFrame(Head(todo)))
  <2> DEFINE x == Frame("Default", k, "superDone", todo)
             c == DefaultFrame(Head(todo))
  <2>1. FrameOK(x) /\ SameRole(x, Top(t)) /\ "superDone" \in Places
    BY <1>2, <1>3, <1>7 DEF FrameOK, Frame, SameRole, Claimed, Checking, AfterClaim, BeforeClinit, Places
  <2>2. Head(todo) \in Interfaces /\ Head(todo) \in Classes /\ Direct[Head(todo)] \in Seq(Interfaces)
        /\ Direct[Head(todo)] \in Todos
    BY <1>3, <1>7, InitAssumption DEF Todos
  <2>3. FrameOK(c) /\ NewCall(c, x) /\ c \in Frames
    BY <2>2
       DEF FrameOK, DefaultFrame, Frame, NewCall, CalledBy, Claimed, Checking, AfterClaim, Frames, Places
  <2>4. StackType' /\ FramesOK' /\ Core' /\ ret' = ret
    BY <1>1, <1>2, <1>7, <2>1, <2>3, CallStep
  <2>5. QED BY <2>4, <1>1 DEF Safe, TypeOK, StackType, cvars
<1>8. QED BY <1>4, <1>5, <1>6, <1>7 DEF DefaultSupers

LEMMA DefaultSuperDoneSafe ==
    ASSUME Safe, NEW t \in Threads, DefaultSuperDone(t)
    PROVE  Safe'
<1> DEFINE k == Top(t).k
           todo == Top(t).todo
<1>1. /\ At(t, "Default", "superDone") /\ UNCHANGED <<status, clinitTid, started, waiting>>
      /\ UNCHANGED <<cvars, owner, exc, calls, aborted>>
  BY DEF DefaultSuperDone, cvars
<1>2. /\ Top(t).fn = "Default" /\ Top(t).pc = "superDone" /\ k \in Classes /\ FrameOK(Top(t))
  BY <1>1, Running
<1>3. todo \in Seq(Interfaces) /\ k \in Interfaces /\ todo # <<>>
  BY <1>2 DEF FrameOK
<1>4. CASE GotoWith(t, "supers", Tail(todo))
  <2> DEFINE x == Frame("Default", k, "supers", Tail(todo))
  <2>1. Tail(todo) \in Seq(Interfaces) /\ Tail(todo) \in Todos
    BY <1>3, InitAssumption DEF Todos
  <2>2. FrameOK(x) /\ SameRole(x, Top(t)) /\ "supers" \in Places
    BY <1>2, <1>3, <2>1 DEF FrameOK, Frame, SameRole, Claimed, Checking, AfterClaim, BeforeClinit, Places
  <2>3. StackType' /\ FramesOK' /\ Core' /\ ret' = ret
    BY <1>1, <1>2, <1>4, <2>1, <2>2, GotoStep
  <2>4. QED BY <2>3, <1>1 DEF Safe, TypeOK, StackType, cvars
<1>5. CASE Return(t, FALSE)
  <2>1. ~Claimed(Top(t)) /\ ~Checking(Top(t))
    BY <1>2 DEF Claimed, Checking
  <2>2. StackType' /\ FramesOK' /\ Core' /\ ret' = [ret EXCEPT ![t] = FALSE]
    BY <1>1, <1>5, <2>1, ReturnStep
  <2>3. QED BY <2>2, <1>1 DEF Safe, TypeOK, StackType, cvars
<1>6. QED BY <1>4, <1>5 DEF DefaultSuperDone

LEMMA DefaultMarkSafe ==
    ASSUME Safe, NEW t \in Threads, DefaultMark(t)
    PROVE  Safe'
<1>1. /\ At(t, "Default", "mark") /\ Return(t, ret[t]) /\ ret[t] \in BOOLEAN
      /\ recInit' = recInit \/ recInit' = [recInit EXCEPT ![Top(t).k] = TRUE]
      /\ UNCHANGED <<status, clinitTid, attempted, owner, waiting, exc, calls, aborted, started>>
      /\ UNCHANGED <<status, clinitTid, started, waiting>>
  BY DEF DefaultMark, Safe, TypeOK
<1>2. Top(t).fn = "Default" /\ Top(t).k \in Classes
  BY <1>1, Running
<1>3. ~Claimed(Top(t)) /\ ~Checking(Top(t))
  BY <1>2 DEF Claimed, Checking
<1>4. StackType' /\ FramesOK' /\ Core' /\ ret' = [ret EXCEPT ![t] = ret[t]]
  BY <1>1, <1>3, ReturnStep
<1>5. QED BY <1>1, <1>4 DEF Safe, TypeOK, StackType

LEMMA VerifyLockSafe ==
    ASSUME Safe, NEW t \in Threads, VerifyLock(t)
    PROVE  Safe'
<1> DEFINE k == Top(t).k
<1>1. At(t, "Verify", "lock") /\ UNCHANGED <<calls, started>>
  BY DEF VerifyLock
<1>2. /\ Top(t).fn = "Verify" /\ Top(t).pc = "lock" /\ k \in Classes /\ FrameOK(Top(t))
      /\ Top(t) = top(t) /\ StackType /\ depth[t] # 0
      /\ stack[t] # <<>> /\ \A j \in Classes : t \notin waiting[j]
  BY <1>1, Running
<1>3. /\ ~Claimed(Top(t)) /\ ~Checking(Top(t))
      /\ status \in [Classes -> Statuses] /\ waiting \in [Classes -> SUBSET Threads]
      /\ owner \in [Classes -> Threads \union {NoThread}]
  BY <1>2 DEF Claimed, Checking, Safe, TypeOK
<1>4. Relock(t, k) => owner' \in [Classes -> Threads \union {NoThread}]
  BY <1>3 DEF Relock
<1>5. CASE /\ InVerifier(k) /\ Wait(t, k) /\ GotoWith(t, "lock", <<status[k]>>)
           /\ UNCHANGED <<cvars, exc, aborted>>
  <2> DEFINE x == Frame("Verify", k, "lock", <<status[k]>>)
  <2>1. status[k] \in Statuses /\ <<status[k]>> \in Todos /\ "lock" \in Places
    BY <1>2, <1>3 DEF Todos, Places
  <2>2. FrameOK(x) /\ x.fn = "Verify" /\ x.pc = "lock" /\ x.k = k
    BY <2>1 DEF FrameOK, Frame
  <2>3. StackType' /\ FrGoto(t, x) /\ ret' = ret
    BY <1>2, <1>5, <2>1, GotoWithShape
  <2>4. FramesOK'
    BY <1>2, <2>2, <2>3, GotoSlots DEF Safe, FramesOK
  <2>5. waiting' = [waiting EXCEPT ![k] = @ \union {t}] /\ owner' = [owner EXCEPT ![k] = NoThread]
        /\ UNCHANGED <<status, clinitTid, started>>
    BY <1>1, <1>5 DEF Wait, cvars
  <2>6. Core'
    BY <1>2, <1>3, <1>5, <2>2, <2>3, <2>5, WaitGoto DEF Safe
  <2>7. TypeOK'
    BY <1>1, <1>2, <1>3, <1>5, <2>3, <2>5 DEF Safe, TypeOK, StackType, cvars
  <2>8. QED BY <2>4, <2>6, <2>7 DEF Safe
<1>6. CASE /\ Throw(t, EarlierFailure(FALSE)) /\ Return(t, FALSE) /\ Relock(t, k)
           /\ UNCHANGED <<cvars, waiting, aborted>>
  <2>1. StackType' /\ FramesOK' /\ Core' /\ ret' = [ret EXCEPT ![t] = FALSE]
    BY <1>1, <1>3, <1>6, ReturnStep DEF cvars
  <2>2. QED BY <2>1, <1>1, <1>4, <1>6 DEF Safe, TypeOK, StackType, cvars, Throw, EarlierFailure
<1>7. CASE /\ attempted' = [attempted EXCEPT ![k] = TRUE] /\ Return(t, TRUE) /\ Relock(t, k)
           /\ UNCHANGED <<status, clinitTid, recInit, waiting, exc, aborted>>
  <2>1. StackType' /\ FramesOK' /\ Core' /\ ret' = [ret EXCEPT ![t] = TRUE]
    BY <1>1, <1>3, <1>7, ReturnStep
  <2>2. QED BY <2>1, <1>1, <1>4, <1>7 DEF Safe, TypeOK, StackType
<1>8. CASE /\ status[k] \in {"kResolved", "kRetryVerificationAtRuntime"}
           /\ SetStatus(k, IF status[k] = "kResolved" THEN "kVerifying" ELSE "kVerifyingAtRuntime")
           /\ GotoWith(t, "super", <<>>) /\ Relock(t, k)
           /\ UNCHANGED <<clinitTid, recInit, attempted, exc, aborted>>
  <2> DEFINE x == Frame("Verify", k, "super", <<>>)
             s == IF status[k] = "kResolved" THEN "kVerifying" ELSE "kVerifyingAtRuntime"
  <2>1. <<>> \in Todos /\ "super" \in Places
    BY DEF Todos, Places, AfterClaim
  <2>2. FrameOK(x) /\ x.fn = "Verify" /\ x.pc = "super" /\ x.k = k
    BY DEF FrameOK, Frame
  <2>3. StackType' /\ FrGoto(t, x) /\ ret' = ret
    BY <1>2, <1>8, <2>1, GotoWithShape
  <2>4. FramesOK'
    BY <1>2, <2>2, <2>3, GotoSlots DEF Safe, FramesOK
  <2>5. s \in {"kVerifying", "kVerifyingAtRuntime"} /\ SetStatus(k, s)
        /\ UNCHANGED <<clinitTid, started>>
    BY <1>1, <1>8
  <2>6. Core'
    BY <1>2, <1>3, <1>8, <2>2, <2>3, <2>5, CheckGoto DEF Safe
  <2>7. status' \in [Classes -> Statuses] /\ waiting' \in [Classes -> SUBSET Threads]
    BY <1>2, <1>3, <2>5 DEF SetStatus, Statuses, Rank
  <2>8. \A j \in Classes : status'[j] \in {"kInitializing", "kInitialized"} => status'[j] = status[j]
    BY <1>2, <1>3, <2>5 DEF SetStatus
  <2>9. TypeOK'
    BY <1>1, <1>4, <1>8, <2>3, <2>7, <2>8 DEF Safe, TypeOK, StackType
  <2>10. QED BY <2>4, <2>6, <2>9 DEF Safe
<1>9. QED BY <1>5, <1>6, <1>7, <1>8 DEF VerifyLock

LEMMA AttemptSafe ==
    ASSUME Safe, NEW t \in Threads, NEW p, At(t, "Verify", p), NEW s \in Above(Top(t).k),
           NEW after \in {"superDone", "ifaceDone"}, Attempt(t, s, after),
           \/ p = "super" /\ after = "superDone" /\ s = Super[Top(t).k] /\ s # NoClass
           \/ p = "ifaces" /\ after = "ifaceDone" /\ Top(t).todo # <<>> /\ s = Head(Top(t).todo),
           UNCHANGED <<cvars, owner, waiting, exc, calls, aborted, started>>
    PROVE  Safe'
<1> DEFINE k == Top(t).k
           todo == Top(t).todo
           x == Frame("Verify", k, after, todo)
           c == VerifyFrame(s)
<1>1. /\ Top(t).fn = "Verify" /\ Top(t).pc = p /\ k \in Classes /\ FrameOK(Top(t)) /\ todo \in Todos
      /\ UNCHANGED <<status, clinitTid, started, waiting>>
  BY Running DEF cvars
<1>2. FrameOK(x) /\ SameRole(x, Top(t)) /\ after \in Places
  BY <1>1 DEF FrameOK, Frame, SameRole, Claimed, Checking, AfterClaim, BeforeClinit, Places
<1>3. s \in Classes
  BY <1>1, AboveFacts
<1>4. FrameOK(c) /\ NewCall(c, x) /\ c \in Frames
  BY <1>1, <1>3 DEF FrameOK, VerifyFrame, Frame, NewCall, CalledBy, Claimed, Checking, AfterClaim, Frames, Places, Todos
<1>5. CASE Call(t, after, VerifyFrame(s))
  <2>1. StackType' /\ FramesOK' /\ Core' /\ ret' = ret
    BY <1>1, <1>2, <1>4, <1>5, CallStep
  <2>2. QED BY <2>1 DEF Safe, TypeOK, StackType, cvars
<1>6. CASE Goto(t, after)
  <2>1. StackType' /\ FramesOK' /\ Core' /\ ret' = ret
    BY <1>1, <1>2, <1>6, GotoStep
  <2>2. QED BY <2>1 DEF Safe, TypeOK, StackType, cvars
<1>7. QED BY <1>5, <1>6 DEF Attempt

\* What a frame has to do may be classes of any kind.
LEMMA TodoTypes ==
    /\ \A S \in SUBSET Classes : Seq(S) \subseteq Todos
    /\ \A how \in Outcomes : <<how>> \in Todos
    /\ \A how \in Outcomes : \A i \in Classes : <<how, i>> \in Todos
<1>1. ASSUME NEW S \in SUBSET Classes, NEW q \in Seq(S) PROVE q \in Todos
  BY <1>1 DEF Todos
<1>2. QED BY <1>1 DEF Todos

\* A verifier goes on to its next place.
LEMMA VerifyGoto ==
    ASSUME Safe, NEW t \in Threads, NEW p, At(t, "Verify", p), p # "lock",
           NEW pc \in Places \ {"lock"}, NEW todo \in Todos,
           \/ Goto(t, pc) /\ todo = Top(t).todo
           \/ GotoWith(t, pc, todo),
           FrameOK(Frame("Verify", Top(t).k, pc, todo)),
           UNCHANGED <<cvars, owner, waiting, exc, calls, aborted, started>>
    PROVE  Safe'
<1> DEFINE k == Top(t).k
           x == Frame("Verify", k, pc, todo)
<1>1. Top(t).fn = "Verify" /\ Top(t).pc = p /\ UNCHANGED <<status, clinitTid, started, waiting>>
  BY Running DEF cvars
<1>2. SameRole(x, Top(t))
  BY <1>1 DEF SameRole, Frame, Claimed, Checking
<1>3. StackType' /\ FramesOK' /\ Core' /\ ret' = ret
  BY <1>1, <1>2, GotoStep
<1>4. QED BY <1>3 DEF Safe, TypeOK, StackType, cvars

LEMMA TailType ==
    ASSUME NEW S, NEW q \in Seq(S), q # <<>>
    PROVE  Head(q) \in S /\ Tail(q) \in Seq(S)
OBVIOUS

LEMMA ConcatPair ==
    ASSUME NEW a, NEW b
    PROVE  <<a>> \o <<b>> = <<a, b>>
<1> DEFINE S == {a, b}
           p == <<a>> \o <<b>>
           q == <<a, b>>
<1>1. <<a>> \in Seq(S) /\ <<b>> \in Seq(S) /\ q \in Seq(S) /\ Len(q) = 2
  OBVIOUS
<1>2. p \in Seq(S) /\ Len(p) = 2 /\ p[1] = a /\ p[2] = b /\ q[1] = a /\ q[2] = b
  BY <1>1
<1>3. \A i \in 1..Len(p) : p[i] = q[i]
  BY <1>2
<1> HIDE DEF p, q, S
<1>4. p = q
  BY <1>1, <1>2, <1>3, SeqEqual
<1>5. QED BY <1>4 DEF p, q

LEMMA VerifyPlaces ==
    {"super", "superDone", "superOk", "ifaces", "ifaceDone", "ifaceOk", "reject", "verify", "finish"}
        \subseteq Places \ {"lock"}
BY DEF Places, AfterClaim

LEMMA VerifySuperSafe ==
    ASSUME Safe, NEW t \in Threads, VerifySuper(t)
    PROVE  Safe'
<1> DEFINE k == Top(t).k
<1>1. /\ At(t, "Verify", "super")
      /\ UNCHANGED <<cvars, owner, waiting, exc, calls, aborted, started>>
  BY DEF VerifySuper
<1>2. /\ Top(t).fn = "Verify" /\ Top(t).pc = "super" /\ k \in Classes /\ Top(t).todo \in Todos
  BY <1>1, Running
<1>3. CASE Goto(t, "superOk")
  <2>1. FrameOK(Frame("Verify", k, "superOk", Top(t).todo)) /\ "superOk" \in Places \ {"lock"}
    BY VerifyPlaces DEF FrameOK, Frame
  <2>2. QED BY <1>1, <1>2, <1>3, <2>1, VerifyGoto
<1>4. CASE Super[k] # NoClass /\ Attempt(t, Super[k], "superDone")
  <2>1. Super[k] \in Above(k)
    BY <1>2, <1>4, AboveFacts DEF Parents
  <2>2. QED BY <1>1, <1>2, <1>4, <2>1, AttemptSafe
<1>5. QED BY <1>3, <1>4 DEF VerifySuper

LEMMA VerifySuperDoneSafe ==
    ASSUME Safe, NEW t \in Threads, VerifySuperDone(t)
    PROVE  Safe'
<1> DEFINE k == Top(t).k
<1>1. /\ At(t, "Verify", "superDone")
      /\ UNCHANGED <<cvars, owner, waiting, exc, calls, aborted, started>>
  BY DEF VerifySuperDone
<1>2. Top(t).todo \in Todos
  BY <1>1, Running
<1>3. PICK pc \in {"superOk", "reject"} : Goto(t, pc)
  BY DEF VerifySuperDone
<1>4. FrameOK(Frame("Verify", k, pc, Top(t).todo)) /\ pc \in Places \ {"lock"}
  BY VerifyPlaces DEF FrameOK, Frame
<1>5. QED BY <1>1, <1>2, <1>3, <1>4, VerifyGoto

\* SetToSeq lists a finite set.
LEMMA SetToSeqType ==
    ASSUME NEW S, IsFiniteSet(S)
    PROVE  SetToSeq(S) \in Seq(S)
<1> DEFINE n == Cardinality(S)
<1>1. n \in Nat /\ ExistsBijection(1..n, S)
  BY FS_CardinalityType
<1>2. \E f \in [1..n -> S] : IsInjective(f)
  BY <1>1 DEF ExistsBijection, Bijection, Injection
<1>3. SetToSeq(S) \in [1..n -> S]
  BY <1>2 DEF SetToSeq
<1>4. QED BY <1>1, <1>3

LEMMA VerifySuperOkSafe ==
    ASSUME Safe, NEW t \in Threads, VerifySuperOk(t)
    PROVE  Safe'
<1> DEFINE k == Top(t).k
           S == {i \in IfSet[k] : i \in HasDefault}
<1>1. /\ At(t, "Verify", "superOk")
      /\ UNCHANGED <<cvars, owner, waiting, exc, calls, aborted, started>>
  BY DEF VerifySuperOk
<1>2. k \in Classes
  BY <1>1, Running
<1>3. PICK todo \in {SetToSeq(S), <<>>} : GotoWith(t, "ifaces", todo)
  BY DEF VerifySuperOk
<1>4. S \subseteq IfSet[k] /\ S \subseteq Classes /\ IsFiniteSet(S)
  BY <1>2, InitAssumption, FS_Subset DEF IfSet
<1>5. SetToSeq(S) \in Seq(S)
  BY <1>4, SetToSeqType
<1>6. todo \in Seq(IfSet[k]) /\ todo \in Todos
  <2>1. SetToSeq(S) \in Seq(IfSet[k]) /\ SetToSeq(S) \in Seq(Classes)
    BY <1>4, <1>5
  <2>2. CASE todo = <<>>
    <3>1. <<>> \in Seq(IfSet[k]) /\ <<>> \in Todos
      BY DEF Todos
    <3>2. QED BY <2>2, <3>1
  <2>3. CASE todo = SetToSeq(S)
    <3>1. Seq(Classes) \subseteq Todos
      BY TodoTypes
    <3>2. QED BY <2>1, <2>3, <3>1
  <2>4. QED BY <1>3, <2>2, <2>3
<1>7. FrameOK(Frame("Verify", k, "ifaces", todo)) /\ "ifaces" \in Places \ {"lock"}
  BY <1>6, VerifyPlaces DEF FrameOK, Frame
<1>8. QED BY <1>1, <1>3, <1>6, <1>7, VerifyGoto

LEMMA VerifyIfacesSafe ==
    ASSUME Safe, NEW t \in Threads, VerifyIfaces(t)
    PROVE  Safe'
<1> DEFINE k == Top(t).k
           todo == Top(t).todo
<1>1. /\ At(t, "Verify", "ifaces")
      /\ UNCHANGED <<cvars, owner, waiting, exc, calls, aborted, started>>
  BY DEF VerifyIfaces
<1>2. /\ Top(t).fn = "Verify" /\ Top(t).pc = "ifaces" /\ k \in Classes /\ todo \in Todos
      /\ FrameOK(Top(t))
  BY <1>1, Running
<1>3. todo \in Seq(IfSet[k]) /\ IfSet[k] \subseteq Classes /\ IfSet[k] \subseteq Above(k)
  BY <1>2, InitAssumption DEF FrameOK, IfSet
<1>4. CASE todo = <<>> /\ Goto(t, "verify")
  <2>1. FrameOK(Frame("Verify", k, "verify", todo)) /\ "verify" \in Places \ {"lock"}
    BY <1>4, VerifyPlaces DEF FrameOK, Frame
  <2>2. QED BY <1>1, <1>2, <1>4, <2>1, VerifyGoto
<1>5. CASE todo # <<>> /\ GotoWith(t, "ifaces", Tail(todo))
  <2>1. Tail(todo) \in Seq(IfSet[k]) /\ Tail(todo) \in Todos
    <3>1. Tail(todo) \in Seq(IfSet[k])
      BY <1>3, <1>5, TailType
    <3>2. QED BY <3>1, <1>3, TodoTypes
  <2>2. FrameOK(Frame("Verify", k, "ifaces", Tail(todo))) /\ "ifaces" \in Places \ {"lock"}
    BY <2>1, VerifyPlaces DEF FrameOK, Frame
  <2>3. QED BY <1>1, <1>5, <2>1, <2>2, VerifyGoto
<1>6. CASE todo # <<>> /\ Attempt(t, Head(todo), "ifaceDone")
  <2>1. Head(todo) \in Above(k)
    BY <1>3, <1>6
  <2>2. QED BY <1>1, <1>2, <1>6, <2>1, AttemptSafe
<1>7. QED BY <1>4, <1>5, <1>6 DEF VerifyIfaces

LEMMA VerifyIfaceDoneSafe ==
    ASSUME Safe, NEW t \in Threads, VerifyIfaceDone(t)
    PROVE  Safe'
<1> DEFINE k == Top(t).k
<1>1. /\ At(t, "Verify", "ifaceDone")
      /\ UNCHANGED <<cvars, owner, waiting, exc, calls, aborted, started>>
  BY DEF VerifyIfaceDone
<1>2. Top(t).fn = "Verify" /\ Top(t).pc = "ifaceDone" /\ Top(t).todo \in Todos /\ FrameOK(Top(t))
  BY <1>1, Running
<1>3. PICK pc \in {"ifaceOk", "reject"} : Goto(t, pc)
  BY DEF VerifyIfaceDone
<1>4. FrameOK(Frame("Verify", k, pc, Top(t).todo)) /\ pc \in Places \ {"lock"}
  BY <1>2, VerifyPlaces DEF FrameOK, Frame
<1>5. QED BY <1>1, <1>2, <1>3, <1>4, VerifyGoto

LEMMA VerifyIfaceOkSafe ==
    ASSUME Safe, NEW t \in Threads, VerifyIfaceOk(t)
    PROVE  Safe'
<1> DEFINE k == Top(t).k
           todo == Top(t).todo
<1>1. /\ At(t, "Verify", "ifaceOk")
      /\ UNCHANGED <<cvars, owner, waiting, exc, calls, aborted, started>>
  BY DEF VerifyIfaceOk
<1>2. Top(t).fn = "Verify" /\ Top(t).pc = "ifaceOk" /\ k \in Classes /\ FrameOK(Top(t))
  BY <1>1, Running
<1>3. todo \in Seq(IfSet[k]) /\ todo # <<>> /\ IfSet[k] \subseteq Classes /\ IfSet[k] \subseteq Interfaces
  BY <1>2, InitAssumption DEF FrameOK, IfSet
<1>4. CASE GotoWith(t, "ifaces", Tail(todo))
  <2>1. Tail(todo) \in Seq(IfSet[k]) /\ Tail(todo) \in Todos
    <3>1. Tail(todo) \in Seq(IfSet[k])
      BY <1>3, TailType
    <3>2. QED BY <3>1, <1>3, TodoTypes
  <2>2. FrameOK(Frame("Verify", k, "ifaces", Tail(todo))) /\ "ifaces" \in Places \ {"lock"}
    BY <2>1, VerifyPlaces DEF FrameOK, Frame
  <2>3. QED BY <1>1, <1>4, <2>1, <2>2, VerifyGoto
<1>5. CASE GotoWith(t, "verify", <<Head(todo)>>)
  <2>1. Head(todo) \in Interfaces /\ Head(todo) \in Classes /\ <<Head(todo)>> \in Todos
    BY <1>3 DEF Todos
  <2>2. FrameOK(Frame("Verify", k, "verify", <<Head(todo)>>)) /\ "verify" \in Places \ {"lock"}
    BY <2>1, VerifyPlaces DEF FrameOK, Frame
  <2>3. QED BY <1>1, <1>5, <2>1, <2>2, VerifyGoto
<1>6. QED BY <1>4, <1>5 DEF VerifyIfaceOk

LEMMA RejectSafe ==
    ASSUME Safe, NEW t \in Threads, VerifyReject(t)
    PROVE  Safe'
<1>1. /\ At(t, "Verify", "reject") /\ SetStatus(Top(t).k, "kErrorResolved") /\ Return(t, FALSE)
      /\ Throw(t, "VerifyError")
      /\ UNCHANGED <<clinitTid, started>>
      /\ UNCHANGED <<clinitTid, recInit, attempted, owner, calls, aborted, started>>
  BY DEF VerifyReject
<1>2. Top(t).fn = "Verify" /\ Top(t).pc = "reject" /\ Top(t).k \in Classes
  BY <1>1, Running
<1>3. Checking(Top(t))
  BY <1>2 DEF Checking
<1>4. StackType' /\ FramesOK' /\ Core' /\ ret' = [ret EXCEPT ![t] = FALSE]
  BY <1>1, <1>3, SetReturnStep
<1>5. QED BY <1>1, <1>2, <1>4 DEF Safe, TypeOK, StackType, SetStatus, Statuses, Rank, Throw

LEMMA PerformSafe ==
    ASSUME Safe, NEW t \in Threads, PerformClassVerification(t)
    PROVE  Safe'
<1> DEFINE k == Top(t).k
<1>1. /\ At(t, "Verify", "verify")
      /\ UNCHANGED <<cvars, owner, waiting, exc, calls, aborted, started>>
  BY DEF PerformClassVerification
<1>2. Top(t).fn = "Verify" /\ Top(t).pc = "verify" /\ FrameOK(Top(t))
  BY <1>1, Running
<1>3. PICK how \in Outcomes : GotoWith(t, "finish", <<how>> \o Top(t).todo)
  BY DEF PerformClassVerification, Outcomes
<1>4. Top(t).todo = <<>> \/ \E i \in Interfaces : Top(t).todo = <<i>>
  BY <1>2 DEF FrameOK
<1> DEFINE todo == <<how>> \o Top(t).todo
<1>5. todo = <<how>> \/ \E i \in Interfaces : todo = <<how, i>>
  <2>1. CASE Top(t).todo = <<>>
    BY <2>1
  <2>2. ASSUME NEW i \in Interfaces, Top(t).todo = <<i>> PROVE todo = <<how, i>>
    BY <2>2, ConcatPair
  <2>3. QED BY <1>4, <2>1, <2>2
<1>6. todo \in Todos /\ "finish" \in Places \ {"lock"}
  BY <1>5, VerifyPlaces, TodoTypes, InitAssumption
<1>7. FrameOK(Frame("Verify", k, "finish", todo))
  BY <1>5 DEF FrameOK, Frame
<1>8. QED BY <1>1, <1>3, <1>6, <1>7, VerifyGoto

LEMMA VerifyFinishSafe ==
    ASSUME Safe, NEW t \in Threads, VerifyFinish(t)
    PROVE  Safe'
<1> DEFINE k == Top(t).k
<1>1. /\ At(t, "Verify", "finish") /\ UNCHANGED <<clinitTid, started>>
      /\ UNCHANGED <<clinitTid, recInit, owner, calls, started>>
  BY DEF VerifyFinish
<1>2. /\ Top(t).fn = "Verify" /\ Top(t).pc = "finish" /\ k \in Classes /\ StackType /\ depth[t] # 0
  BY <1>1, Running
<1>3. Checking(Top(t))
  BY <1>2 DEF Checking
<1>4. CASE /\ Throw(t, "VerifyError") /\ SetStatus(k, "kErrorResolved") /\ Return(t, FALSE)
           /\ UNCHANGED <<attempted, aborted>>
  <2>1. StackType' /\ FramesOK' /\ Core' /\ ret' = [ret EXCEPT ![t] = FALSE]
    BY <1>1, <1>3, <1>4, SetReturnStep
  <2>2. QED BY <1>1, <1>2, <1>4, <2>1 DEF Safe, TypeOK, StackType, SetStatus, Statuses, Rank, Throw
<1>5. CASE /\ SetStatus(k, "kVerified") /\ attempted' = [attempted EXCEPT ![k] = TRUE]
           /\ Return(t, TRUE) /\ UNCHANGED <<exc, aborted>>
  <2>1. StackType' /\ FramesOK' /\ Core' /\ ret' = [ret EXCEPT ![t] = TRUE]
    BY <1>1, <1>3, <1>5, SetReturnStep
  <2>2. QED BY <1>1, <1>2, <1>5, <2>1 DEF Safe, TypeOK, StackType, SetStatus, Statuses, Rank
<1>6. CASE /\ aborted' = TRUE
           /\ UNCHANGED <<status, attempted, waiting, stack, exc, ret>>
  <2>1. waiting \in [Classes -> SUBSET Threads]
    BY DEF Safe, TypeOK
  <2>2. Core'
    BY <1>1, <1>2, <1>6, <2>1, WaitChange DEF Safe
  <2>3. FramesOK'
    BY <1>6 DEF Safe, FramesOK, Slots, depth, fr
  <2>4. TypeOK'
    BY <1>1, <1>6 DEF Safe, TypeOK
  <2>5. QED BY <2>2, <2>3, <2>4 DEF Safe
<1>7. QED BY <1>4, <1>5, <1>6 DEF VerifyFinish

\* A thread without a call makes one: its stack gets its first frame.
LEMMA EnsureSafe ==
    ASSUME Safe, NEW t \in Threads, NEW k \in Roots, EnsureInitialized(t, k)
    PROVE  Safe'
<1> DEFINE x == InitFrame(k)
<1>1. /\ stack[t] = <<>> /\ stack' = [stack EXCEPT ![t] = <<x>>] /\ k \in Classes
      /\ calls[t] < MaxCalls /\ calls' = [calls EXCEPT ![t] = @ + 1] /\ Throw(t, "none")
      /\ UNCHANGED <<status, clinitTid, recInit, attempted, owner, waiting, ret, aborted, started>>
  BY InitAssumption DEF EnsureInitialized, cvars
<1>2. StackType /\ x \in Frames /\ FrameOK(x) /\ ~Claimed(x) /\ ~Checking(x) /\ x.fn = "Init" /\ x.pc = "enter"
  <2>1. StackType
    BY DEF Safe, TypeOK, StackType
  <2>2. <<>> \in Todos /\ x = [fn |-> "Init", k |-> k, pc |-> "enter", todo |-> <<>>]
    BY DEF Todos, InitFrame, Frame
  <2>3. x \in Frames
    BY <1>1, <2>2 DEF Frames, Places
  <2>4. QED BY <2>1, <2>2, <2>3 DEF FrameOK, Claimed, Checking, AfterClaim
<1>3. StackType'
  BY <1>1, <1>2 DEF StackType
<1>4. /\ depth[t] = 0 /\ depth' = [depth EXCEPT ![t] = 1]
      /\ depth \in [Threads -> Nat]
      /\ fr'[t][1] = x
      /\ \A u \in Threads : u # t => depth'[u] = depth[u] /\ fr'[u] = fr[u]
  <2>1. \A u \in Threads : u # t => stack'[u] = stack[u]
    BY <1>1, <1>2 DEF StackType
  <2>2. stack'[t] = <<x>> /\ Len(stack[t]) = 0
    BY <1>1, <1>2 DEF StackType
  <2>3. depth' = [u \in Threads |-> IF u = t THEN 1 ELSE Len(stack[u])]
    <3>1. Len(stack'[t]) = 1 /\ \A u \in Threads : u # t => Len(stack'[u]) = Len(stack[u])
      BY <2>1, <2>2
    <3>2. QED BY <3>1 DEF depth
  <2>4. depth[t] = 0 /\ depth' = [depth EXCEPT ![t] = 1] /\ depth \in [Threads -> Nat]
    <3>1. depth \in [Threads -> Nat]
      BY <1>2, FrType
    <3>2. depth[t] = 0 /\ depth' = [depth EXCEPT ![t] = 1]
      BY <2>2, <2>3 DEF depth
    <3>3. QED BY <3>1, <3>2
  <2>5. \A u \in Threads : u # t => depth'[u] = depth[u] /\ fr'[u] = fr[u]
    BY <2>1 DEF depth, fr
  <2>6. fr'[t][1] = x
    <3>1. fr'[t] = [h \in 1..Len(<<x>>) |-> <<x>>[Len(<<x>>) + 1 - h]]
      BY <2>2 DEF fr
    <3>2. QED BY <3>1
  <2>7. QED BY <2>4, <2>5, <2>6
<1>5. /\ Slots(t) = {} /\ Slots(t)' = {1}
      /\ \A u \in Threads : u # t => Slots(u)' = Slots(u)
      /\ \A u \in Threads : \A h \in Slots(u)' :
            \/ u = t /\ h = 1 /\ fr'[u][h] = x
            \/ u # t /\ h \in Slots(u) /\ fr'[u][h] = fr[u][h]
  BY <1>4 DEF Slots
<1>6. \A u \in Threads : \A h \in Slots(u) : u # t /\ h \in Slots(u)' /\ fr'[u][h] = fr[u][h]
  BY <1>4, <1>5
<1>7. FramesOK'
  BY <1>2, <1>5 DEF Safe, FramesOK
<1>8. ClaimsOK'
  <2>1. \A u \in Threads : \A h \in Slots(u)' : Claimed(fr'[u][h]) => h \in Slots(u) /\ fr'[u][h] = fr[u][h]
    BY <1>2, <1>5
  <2>2. QED BY <1>1, <1>6, <2>1 DEF Safe, Core, ClaimsOK
<1>9. ChecksOK'
  <2>1. \A u \in Threads : \A h \in Slots(u)' : Checking(fr'[u][h]) => h \in Slots(u) /\ fr'[u][h] = fr[u][h]
    BY <1>2, <1>5
  <2>2. \A j \in Classes : InVerifier(j)' <=> InVerifier(j)
    BY <1>1 DEF InVerifier
  <2>3. \A u \in Threads : \A h \in Slots(u)' : Checking(fr'[u][h]) => InVerifier(fr[u][h].k)'
    BY <2>1, <1>1 DEF Safe, Core, ChecksOK, InVerifier
  <2>4. \A u, v \in Threads : \A g \in Slots(u)', h \in Slots(v)' :
           Checking(fr'[u][g]) /\ Checking(fr'[v][h]) /\ fr'[u][g].k = fr'[v][h].k => u = v /\ g = h
    BY <2>1 DEF Safe, Core, ChecksOK
  <2>5. \A j \in Classes : InVerifier(j)' =>
           \E u \in Threads : \E h \in Slots(u)' : Checking(fr'[u][h]) /\ fr'[u][h].k = j
    BY <2>2, <1>6 DEF Safe, Core, ChecksOK
  <2>6. QED BY <2>1, <2>3, <2>4, <2>5 DEF ChecksOK
<1>10. CallsOK'
  <2>1. ASSUME NEW u \in Threads, NEW h \in Slots(u)', h # depth'[u]
        PROVE CalledBy(fr'[u][h + 1], fr'[u][h])
    <3>1. u # t /\ h \in Slots(u) /\ h # depth[u] /\ h + 1 \in Slots(u) /\ fr'[u] = fr[u]
      BY <2>1, <1>4, <1>5 DEF Slots
    <3>2. QED BY <3>1 DEF Safe, Core, CallsOK
  <2>2. ASSUME NEW u \in Threads, NEW g \in Slots(u)', NEW h \in Slots(u)', g < h
        PROVE u # t /\ g \in Slots(u) /\ h \in Slots(u) /\ fr'[u][g] = fr[u][g] /\ fr'[u][h] = fr[u][h]
    BY <2>2, <1>5
  <2>3. QED BY <2>1, <2>2 DEF Safe, Core, CallsOK
<1>11. WaitOK'
  <2>1. \A j \in Classes : \A u \in waiting'[j] : u \in Threads /\ u # t /\ depth'[u] # 0 /\ top(u)' = top(u)
    BY <1>1, <1>4 DEF Safe, Core, WaitOK, top
  <2>2. \A u \in Threads : \A h \in Slots(u)' : fr'[u][h].fn = "Init" /\ fr'[u][h].pc = "waiting" =>
           h \in Slots(u) /\ fr'[u][h] = fr[u][h]
    BY <1>2, <1>5
  <2>3. QED BY <1>1, <2>1, <2>2 DEF Safe, Core, WaitOK, InVerifier
<1>12. TypeOK'
  <2>1. exc' = [exc EXCEPT ![t] = "none"]
    BY <1>1 DEF Throw
  <2>2. calls' \in [Threads -> 0..MaxCalls]
    <3>1. calls \in [Threads -> 0..MaxCalls] /\ MaxCalls \in Nat
      BY InitAssumption DEF Safe, TypeOK
    <3>2. calls[t] + 1 \in 0..MaxCalls
      BY <1>1, <3>1
    <3>3. QED BY <1>1, <3>1, <3>2
  <2>3. QED BY <1>1, <1>3, <2>1, <2>2 DEF Safe, TypeOK, StackType
<1>13. QED BY <1>7, <1>8, <1>9, <1>10, <1>11, <1>12 DEF Safe, Core

LEMMA StillSafe ==
    ASSUME Safe, UNCHANGED <<cvars, owner, stack, exc, ret, calls, aborted, started>>,
           waiting' \in [Classes -> SUBSET Threads], \A k \in Classes : waiting'[k] \subseteq waiting[k]
    PROVE  Safe'
<1>1. StackType /\ UNCHANGED <<stack, status, clinitTid, started>> /\ waiting \in [Classes -> SUBSET Threads]
  BY DEF Safe, TypeOK, StackType, cvars
<1>2. Core'
  BY <1>1, WaitChange DEF Safe
<1>3. FramesOK'
  BY <1>1 DEF Safe, FramesOK, Slots, depth, fr
<1>4. TypeOK'
  BY DEF Safe, TypeOK, cvars
<1>5. QED BY <1>2, <1>3, <1>4 DEF Safe

LEMMA WakeSafe ==
    ASSUME Safe, NEW t \in Threads, WakeEarly(t)
    PROVE  Safe'
<1>1. PICK k \in Classes : waiting' = [waiting EXCEPT ![k] = @ \ {t}]
  BY DEF WakeEarly
<1>2. waiting \in [Classes -> SUBSET Threads]
  BY DEF Safe, TypeOK
<1>3. waiting' \in [Classes -> SUBSET Threads] /\ \A j \in Classes : waiting'[j] \subseteq waiting[j]
  BY <1>1, <1>2
<1>4. QED BY <1>3, StillSafe DEF WakeEarly

LEMMA SafeInit ==
    ASSUME Init
    PROVE  Safe
<1>1. TypeOK
  <2>1. status \in [Classes -> Statuses]
    BY DEF Init, Statuses, Rank
  <2>2. stack \in [Threads -> Seq(Frames)]
    BY DEF Init
  <2>3. calls \in [Threads -> 0..MaxCalls]
    BY InitAssumption DEF Init
  <2>4. QED BY <2>1, <2>2, <2>3 DEF Init, TypeOK
<1>2. \A t \in Threads : depth[t] = 0 /\ Slots(t) = {}
  BY DEF Init, depth, Slots
<1>3. \A k \in Classes : status[k] \in {"kResolved", "kRetryVerificationAtRuntime"}
  BY DEF Init
<1>4. FramesOK /\ CallsOK
  BY <1>2 DEF FramesOK, CallsOK
<1>5. ClaimsOK /\ ChecksOK /\ WaitOK
  BY <1>2, <1>3 DEF Init, ClaimsOK, ChecksOK, WaitOK, InVerifier
<1>6. QED BY <1>1, <1>4, <1>5 DEF Safe, Core

LEMMA SafeNext ==
    ASSUME Safe, [Next]_vars
    PROVE  Safe'
<1>1. CASE UNCHANGED vars
  <2>1. UNCHANGED <<cvars, owner, stack, exc, ret, calls, aborted, started>> /\ waiting' = waiting
        /\ waiting \in [Classes -> SUBSET Threads]
    BY <1>1 DEF vars, cvars, Safe, TypeOK
  <2>2. QED BY <2>1, StillSafe
<1>2. ASSUME NEW t \in Threads, Step(t) PROVE Safe'
  BY <1>2, EnterSafe, LockSafe, VerifiedSafe, WaitingSafe, SuperSafe, SuperDoneSafe, IfacesSafe,
     IfaceDoneSafe, StaticsSafe, ClinitSafe, FinishSafe, DefaultSupersSafe, DefaultSuperDoneSafe,
     DefaultMarkSafe, VerifyLockSafe, VerifySuperSafe, VerifySuperDoneSafe, VerifySuperOkSafe,
     VerifyIfacesSafe, VerifyIfaceDoneSafe, VerifyIfaceOkSafe, RejectSafe, PerformSafe,
     VerifyFinishSafe, Zenon DEF Step
<1>3. QED BY <1>1, <1>2, EnsureSafe, WakeSafe DEF Next, Ended

\* The frames, claims, verifiers, calls and waits of every behaviour are in order.
THEOREM SafeAlways == Spec => []Safe
BY SafeInit, SafeNext, PTL DEF Spec

\* Every variable keeps its type, the frames of the stacks included.
THEOREM TypeCorrect == Spec => []TypeOK
<1>1. Safe => TypeOK
  BY DEF Safe
<1>2. QED BY <1>1, SafeAlways, PTL

\* What a thread does with a class is a frame of its stack.
LEMMA FrameOf ==
    ASSUME StackType, NEW t \in Threads, NEW k, NEW pcs
    PROVE  /\ Doing(t, k, pcs) <=> \E h \in Slots(t) :
                  fr[t][h].fn = "Init" /\ fr[t][h].k = k /\ fr[t][h].pc \in pcs
           /\ Verifying(t, k) <=> \E h \in Slots(t) : Checking(fr[t][h]) /\ fr[t][h].k = k
<1>1. /\ \A h \in Slots(t) : \E i \in DOMAIN stack[t] : stack[t][i] = fr[t][h]
      /\ \A i \in DOMAIN stack[t] : \E h \in Slots(t) : fr[t][h] = stack[t][i]
  BY FrType DEF Slots
<1>2. QED BY <1>1 DEF Doing, Verifying, Checking

\* A class is in the hands of one thread from the claim to the last status, and
\* <clinit> is entered at most once: InitializeClass for any classes and threads.
THEOREM OneInitializerAlways == Spec => []OneInitializer
<1>1. ASSUME Safe PROVE OneInitializer
  <2>1. StackType
    BY <1>1 DEF Safe, TypeOK, StackType
  <2>2. ASSUME NEW k \in Classes PROVE started[k] <= 1
    BY <1>1 DEF Safe, Core, ClaimsOK
  <2>3. ASSUME NEW k \in Classes, NEW t \in Threads, Doing(t, k, AfterClaim)
        PROVE /\ status[k] = "kInitializing" /\ clinitTid[k] = t
              /\ \A u \in Threads : ~Verifying(u, k) /\ (u # t => ~Doing(u, k, AfterClaim))
    <3>1. \A u \in Threads : Doing(u, k, AfterClaim) => status[k] = "kInitializing" /\ clinitTid[k] = u
      BY <1>1, <2>1, FrameOf DEF Safe, Core, ClaimsOK, Claimed
    <3>2. \A u \in Threads : Verifying(u, k) => InVerifier(k)
      BY <1>1, <2>1, FrameOf DEF Safe, Core, ChecksOK
    <3>3. QED BY <2>3, <3>1, <3>2 DEF InVerifier
  <2>4. QED BY <1>1, <2>2, <2>3 DEF Safe, OneInitializer
<1>2. QED BY <1>1, SafeAlways, PTL

\* A thread waits on a class only while another one is on its way to set the
\* status that wakes it: WaitForInitializeClass and the waits of VerifyClass.
THEOREM NoLostWakeupAlways == Spec => []NoLostWakeup
<1>1. ASSUME Safe PROVE NoLostWakeup
  <2>1. StackType
    BY <1>1 DEF Safe, TypeOK, StackType
  <2>2. ASSUME NEW k \in Classes, NEW t \in waiting[k]
        PROVE \E u \in Threads \ {t} : Doing(u, k, AfterClaim) \/ Verifying(u, k)
    <3>1. t \in Threads /\ depth[t] # 0 /\ top(t).k = k /\ depth \in [Threads -> Nat]
      BY <1>1, <2>1, FrType DEF Safe, Core, WaitOK
    <3>2. depth[t] \in Slots(t)
      BY <3>1 DEF Slots
    <3>3. CASE top(t).fn = "Init" /\ top(t).pc = "waiting" /\ status[k] = "kInitializing"
      <4>1. clinitTid[k] \in Threads \ {t} /\ \E h \in Slots(clinitTid[k]) :
                Claimed(fr[clinitTid[k]][h]) /\ fr[clinitTid[k]][h].k = k
        BY <1>1, <3>1, <3>2, <3>3 DEF Safe, Core, ClaimsOK, WaitOK, top
      <4>2. Doing(clinitTid[k], k, AfterClaim)
        BY <2>1, <4>1, FrameOf DEF Claimed
      <4>3. QED BY <4>1, <4>2
    <3>4. CASE top(t).fn = "Verify" /\ top(t).pc = "lock" /\ InVerifier(k)
      <4>1. PICK u \in Threads : \E h \in Slots(u) : Checking(fr[u][h]) /\ fr[u][h].k = k
        BY <1>1, <3>4 DEF Safe, Core, ChecksOK
      <4>2. PICK h \in Slots(u) : Checking(fr[u][h]) /\ fr[u][h].k = k
        BY <4>1
      <4>3. u # t
        <5>1. SUFFICES ASSUME u = t PROVE FALSE
          OBVIOUS
        <5>2. h # depth[t] /\ h < depth[t]
          BY <5>1, <4>2, <3>1, <3>4 DEF Checking, top, Slots
        <5>3. top(t).k \in Above(k)
          BY <5>1, <5>2, <4>2, <3>1, <3>2, <1>1 DEF Safe, Core, CallsOK, Checking, top
        <5>4. QED BY <5>3, <3>1, InitAssumption
      <4>4. Verifying(u, k)
        BY <4>1, <2>1, FrameOf
      <4>5. QED BY <4>3, <4>4
    <3>5. QED BY <1>1, <3>3, <3>4 DEF Safe, Core, WaitOK
  <2>3. QED BY <2>2 DEF NoLostWakeup
<1>2. QED BY <1>1, SafeAlways, PTL

-----------------------------------------------------------------------------
\* The CHECKs on the way hold, and the procedure implements JlsInit.  Both need
\* to know, beyond Safe, what a thread may rely on at each place of its own
\* stack (Own): what it knows of the supertypes it has dealt with, which locks
\* it keeps, and which exception is pending.  The proof looks at the running
\* thread on its own and shows once, for every step, what it leaves to the
\* others (Evolves).

\* Past its superclass, a claimed class has it initialised, or claimed further
\* down on the same stack; a call of InitializeClass that returned true leaves
\* its class so.
PastSuper == {"ifaces", "ifaceDone", "statics", "clinit", "finish"}
ReadyAt(t, h) ==
    fr[t][h].fn = "Init" /\ fr[t][h].pc \in PastSuper /\ Super[fr[t][h].k] # NoClass =>
        \/ IsInitialized(Super[fr[t][h].k])
        \/ \E g \in Slots(t) : g < h /\ Claimed(fr[t][g]) /\ fr[t][g].k = Super[fr[t][h].k]
Answered(t, f) ==
    /\ f.fn = "Init" /\ f.pc = "superDone" => Returned(t, Super[f.k])
    /\ f.fn = "Default" /\ f.pc = "mark" /\ f.k \in HasDefault => Returned(t, f.k)
ReadyOf(t) ==
    /\ \A h \in Slots(t) : ReadyAt(t, h)
    /\ depth[t] # 0 /\ ret[t] => Answered(t, top(t))

\* The lock of a class is kept while VerifyClass is called on it, but for its waits.
LockOf(t) ==
    \A h \in Slots(t) :
        /\ fr[t][h].fn = "Init" /\ fr[t][h].pc = "verified"
        /\ h # depth[t] => h + 1 # depth[t] \/ fr[t][h + 1].pc # "lock"
        => owner[fr[t][h].k] = t

\* Exceptions and results, by what the running thread is at: f is its top frame.
Done(k) == IsVerified(k) \/ IsErroneous(k)
ExcAt(t, f) ==
    /\ f.fn = "Init" /\ f.pc \in {"enter", "lock", "waiting", "super", "ifaces", "statics"} =>
           exc[t] = "none"
    /\ f.fn = "Init" /\ f.pc \in {"superDone", "ifaceDone"} => (ret[t] <=> exc[t] = "none")
    /\ f.fn = "Init" /\ f.pc = "verified" => Done(f.k) /\ (IsErroneous(f.k) <=> exc[t] # "none")
    /\ f.fn = "Default" /\ f.pc \in {"superDone", "mark"} => (ret[t] <=> exc[t] = "none")
    /\ f.fn = "Default" /\ f.pc = "supers" => exc[t] = "none"
    /\ f.fn = "Verify" /\ f.pc \notin {"superDone", "ifaceDone", "reject"} => exc[t] = "none"
    /\ f.fn = "Verify" /\ f.pc = "superDone" =>
           Done(Super[f.k]) /\ (~IsErroneous(Super[f.k]) => exc[t] = "none")
    /\ f.fn = "Verify" /\ f.pc = "ifaceDone" =>
           Done(Head(f.todo)) /\ (~IsErroneous(Head(f.todo)) => exc[t] = "none")
ExcOf(t) == /\ depth[t] = 0 => (ret[t] <=> exc[t] = "none")
            /\ depth[t] # 0 => ExcAt(t, top(t))

\* The status a verifier's waiter saw never goes back.
SeenAt(f) ==
    f.fn = "Verify" /\ f.pc = "lock" /\ f.todo # <<>> =>
        IsErroneous(f.k) \/ Rank[status[f.k]] >= Rank[Head(f.todo)]
SeenOf(t) == depth[t] # 0 => SeenAt(top(t))

\* Supertypes found verified: what has become of them is not this thread's doing.
Found(t, s) == attempted[s] /\ (IsErroneous(s) => clinitTid[s] # t)
FoundAt(t, f) ==
    f.fn = "Verify" =>
        /\ f.pc \in {"superOk", "ifaces", "ifaceDone", "ifaceOk", "verify", "finish"}
             /\ Super[f.k] # NoClass => Found(t, Super[f.k])
        /\ f.pc = "ifaceOk" => Found(t, Head(f.todo))
        /\ f.pc = "verify" /\ f.todo # <<>> => Found(t, f.todo[1])
        /\ f.pc = "finish" /\ Len(f.todo) = 2 => Found(t, f.todo[2])
FoundOf(t) == \A h \in Slots(t) : FoundAt(t, fr[t][h])

AttemptedOK == \A k \in Classes : /\ IsVerified(k) => attempted[k]
                                  /\ attempted[k] => Done(k)
AbortOK == aborted => SuperFailedMeanwhile

Own(t) == ReadyOf(t) /\ LockOf(t) /\ ExcOf(t) /\ SeenOf(t) /\ FoundOf(t)
Inv == Safe /\ AttemptedOK /\ AbortOK /\ \A t \in Threads : Own(t)

-----------------------------------------------------------------------------
\* What the step of a thread does to the classes and to the other threads.

\* The life of a class: a class that is done stays done.
Advance(a, b) ==
    \/ a = b
    \/ a = "kResolved" /\ b = "kVerifying"
    \/ a = "kRetryVerificationAtRuntime" /\ b = "kVerifyingAtRuntime"
    \/ a \in {"kVerifying", "kVerifyingAtRuntime"} /\ b \in {"kVerified", "kErrorResolved"}
    \/ a = "kVerified" /\ b \in {"kInitializing", "kErrorResolved"}
    \/ a = "kInitializing" /\ b \in {"kInitialized", "kErrorResolved"}

Evolves(t, k) ==
    /\ Advance(status[k], status'[k])
    /\ status'[k] # status[k] \/ owner'[k] # owner[k] => owner[k] \in {NoThread, t}
    /\ attempted[k] => attempted'[k]
    /\ attempted'[k] # attempted[k] => IsVerified(k)'
    /\ status'[k] = "kVerified" => attempted'[k] \/ status[k] = "kVerified"
    /\ clinitTid'[k] # clinitTid[k] =>
           /\ clinitTid'[k] = t /\ top(t).fn = "Init"
           /\ status[k] = "kVerified" /\ status'[k] = "kInitializing"
    /\ status[k] = "kInitializing" /\ status'[k] # status[k] =>
           clinitTid[k] = t /\ top(t).fn = "Init"
    /\ k # top(t).k => status'[k] = status[k] /\ clinitTid'[k] = clinitTid[k]
Alone(t) == \A u \in Threads \ {t} : stack'[u] = stack[u] /\ exc'[u] = exc[u] /\ ret'[u] = ret[u]

LEMMA Untouched ==
    ASSUME Safe, NEW t \in Threads, Step(t)
    PROVE  Alone(t)
<1> SUFFICES ASSUME NEW u \in Threads \ {t}
             PROVE  stack'[u] = stack[u] /\ exc'[u] = exc[u] /\ ret'[u] = ret[u]
  BY DEF Alone
<1> DEFINE S == stack'[u] = stack[u] /\ ret'[u] = ret[u]
           E == exc'[u] = exc[u]
<1>1. /\ stack \in [Threads -> Seq(Frames)] /\ DOMAIN exc = Threads /\ DOMAIN ret = Threads
  BY DEF Safe, TypeOK
<1>2. ASSUME NEW x, stack' = [stack EXCEPT ![t] = x] PROVE stack'[u] = stack[u]
  BY <1>1, <1>2
<1>3. ASSUME NEW x, ret' = [ret EXCEPT ![t] = x] PROVE ret'[u] = ret[u]
  BY <1>1, <1>3
<1>4. ASSUME NEW pc, Goto(t, pc) PROVE S
  BY <1>2, <1>4 DEF Goto
<1>5. ASSUME NEW pc, NEW todo, GotoWith(t, pc, todo) PROVE S
  BY <1>2, <1>5 DEF GotoWith
<1>6. ASSUME NEW pc, NEW c, Call(t, pc, c) PROVE S
  BY <1>2, <1>6 DEF Call
<1>7. ASSUME NEW v, Return(t, v) PROVE S
  BY <1>1, <1>7 DEF Return
<1>8. ASSUME NEW x, Throw(t, x) PROVE E
  BY <1>1, <1>8 DEF Throw
<1>9. ASSUME NEW k, Claim(t, k) PROVE S /\ E
  BY <1>9, <1>4, <1>7, <1>8 DEF Claim
<1>10. ASSUME NEW k, FailFromParent(t, k) PROVE S /\ E
  BY <1>10, <1>7 DEF FailFromParent
<1>11. ASSUME NEW s, NEW after, Attempt(t, s, after) PROVE S
  BY <1>11, <1>4, <1>6 DEF Attempt
<1> SUFFICES S /\ E
  OBVIOUS
<1> HIDE DEF S, E
<1>12. UNCHANGED exc => E
  BY DEF E
<1>13. UNCHANGED <<stack, ret>> => S
  BY DEF S
<1>14. CASE InitEnter(t)
  BY <1>14, <1>4, <1>7, <1>12 DEF InitEnter
<1>15. CASE InitLock(t)
  BY <1>15, <1>6, <1>7, <1>8, <1>9, <1>12 DEF InitLock
<1>16. CASE InitVerified(t)
  BY <1>16, <1>7, <1>8, <1>9, <1>12 DEF InitVerified
<1>17. CASE WaitForInitializeClass(t)
  BY <1>17, <1>7, <1>8, <1>12, <1>13 DEF WaitForInitializeClass
<1>18. CASE InitSuper(t)
  BY <1>18, <1>5, <1>6, <1>12 DEF InitSuper
<1>19. CASE InitSuperDone(t)
  BY <1>19, <1>5, <1>10, <1>12 DEF InitSuperDone
<1>20. CASE InitIfaces(t)
  BY <1>20, <1>4, <1>5, <1>6, <1>12 DEF InitIfaces
<1>21. CASE InitIfaceDone(t)
  BY <1>21, <1>5, <1>10, <1>12 DEF InitIfaceDone
<1>22. CASE InitStatics(t)
  BY <1>22, <1>4, <1>5, <1>8, <1>12 DEF InitStatics
<1>23. CASE Clinit(t)
  <2>1. ASSUME NEW x, stack' = [stack EXCEPT ![t] = x], UNCHANGED ret PROVE S
    BY <2>1, <1>2 DEF S
  <2>2. exc' \in {exc, [exc EXCEPT ![t] = "Clinit"]} => E
    BY <1>1 DEF E
  <2>3. QED BY <1>23, <1>4, <1>8, <1>12, <1>13, <2>1, <2>2 DEF Clinit
<1>24. CASE InitFinish(t)
  BY <1>24, <1>7, <1>8, <1>12 DEF InitFinish
<1>25. CASE DefaultSupers(t)
  <2>1. ASSUME NEW x, NEW v, stack' = [stack EXCEPT ![t] = x], ret' = [ret EXCEPT ![t] = v] PROVE S
    BY <2>1, <1>2, <1>3 DEF S
  <2>2. QED BY <1>25, <1>5, <1>6, <1>12, <2>1 DEF DefaultSupers
<1>26. CASE DefaultSuperDone(t)
  BY <1>26, <1>5, <1>7, <1>12 DEF DefaultSuperDone
<1>27. CASE DefaultMark(t)
  BY <1>27, <1>7, <1>12 DEF DefaultMark
<1>28. CASE VerifyLock(t)
  BY <1>28, <1>5, <1>7, <1>8, <1>12 DEF VerifyLock
<1>29. CASE VerifySuper(t)
  BY <1>29, <1>4, <1>11, <1>12 DEF VerifySuper
<1>30. CASE VerifySuperDone(t)
  BY <1>30, <1>4, <1>12 DEF VerifySuperDone
<1>31. CASE VerifySuperOk(t)
  BY <1>31, <1>5, <1>12 DEF VerifySuperOk
<1>32. CASE VerifyIfaces(t)
  BY <1>32, <1>4, <1>5, <1>11, <1>12 DEF VerifyIfaces
<1>33. CASE VerifyIfaceDone(t)
  BY <1>33, <1>4, <1>12 DEF VerifyIfaceDone
<1>34. CASE VerifyIfaceOk(t)
  BY <1>34, <1>5, <1>12 DEF VerifyIfaceOk
<1>35. CASE VerifyReject(t)
  BY <1>35, <1>7, <1>8 DEF VerifyReject
<1>36. CASE PerformClassVerification(t)
  BY <1>36, <1>5, <1>12 DEF PerformClassVerification
<1>37. CASE VerifyFinish(t)
  BY <1>37, <1>7, <1>8, <1>12, <1>13 DEF VerifyFinish
<1>38. QED
  BY <1>14, <1>15, <1>16, <1>17, <1>18, <1>19, <1>20, <1>21, <1>22, <1>23, <1>24, <1>25, <1>26,
     <1>27, <1>28, <1>29, <1>30, <1>31, <1>32, <1>33, <1>34, <1>35, <1>36, <1>37, Zenon DEF Step

\* The steps that leave the classes alone, but for locks nobody else holds.
LEMMA QuietEvolves ==
    ASSUME Safe, NEW t \in Threads, UNCHANGED <<status, clinitTid, attempted>>,
           NEW k \in Classes, owner'[k] # owner[k] => owner[k] \in {NoThread, t}
    PROVE  Evolves(t, k)
BY DEF Evolves, Advance

\* The steps that set the status of the class at hand.
LEMMA StatusEvolves ==
    ASSUME Safe, NEW t \in Threads, depth[t] # 0, Top(t) = top(t), Top(t).k \in Classes, depth[t] \in Slots(t),
           NEW s, SetStatus(Top(t).k, s),
           NEW k \in Classes, owner[Top(t).k] \in {NoThread, t},
           owner'[k] # owner[k] => k = Top(t).k,
           \/ UNCHANGED attempted /\ s # "kVerified"
           \/ attempted' = [attempted EXCEPT ![Top(t).k] = TRUE] /\ s = "kVerified",
           UNCHANGED clinitTid,
           \/ status[Top(t).k] = "kResolved" /\ s = "kVerifying"
           \/ status[Top(t).k] = "kRetryVerificationAtRuntime" /\ s = "kVerifyingAtRuntime"
           \/ status[Top(t).k] = "kVerified" /\ s = "kErrorResolved"
           \/ Checking(Top(t)) /\ s \in {"kVerified", "kErrorResolved"}
           \/ Claimed(Top(t)) /\ s \in {"kInitialized", "kErrorResolved"}
    PROVE  Evolves(t, k)
<1> DEFINE j == Top(t).k
<1>1. /\ status \in [Classes -> Statuses] /\ attempted \in [Classes -> BOOLEAN]
      /\ clinitTid \in [Classes -> Threads \union {NoThread}]
  BY DEF Safe, TypeOK
<1>2. Checking(Top(t)) => status[j] \in {"kVerifying", "kVerifyingAtRuntime"}
  BY DEF Safe, Core, ChecksOK, InVerifier, top
<1>3. Claimed(Top(t)) => status[j] = "kInitializing" /\ clinitTid[j] = t /\ Top(t).fn = "Init"
  BY DEF Safe, Core, ClaimsOK, Claimed, top
<1>4. CASE k # j
  BY <1>1, <1>4 DEF Evolves, Advance, SetStatus
<1>5. CASE k = j
  <2>1. status'[k] = s /\ Advance(status[k], s)
    BY <1>1, <1>2, <1>3, <1>5 DEF Advance, SetStatus
  <2>2. /\ attempted[k] => attempted'[k]
        /\ attempted'[k] # attempted[k] => s = "kVerified"
        /\ s = "kVerified" => attempted'[k]
    BY <1>1, <1>5
  <2>3. attempted'[k] # attempted[k] => IsVerified(k)'
    BY <2>1, <2>2 DEF IsVerified, Rank
  <2>4. /\ clinitTid'[k] = clinitTid[k]
        /\ status[k] = "kInitializing" /\ s # status[k] => clinitTid[k] = t /\ top(t).fn = "Init"
    BY <1>1, <1>2, <1>3, <1>5
  <2>5. QED BY <1>5, <2>1, <2>2, <2>3, <2>4 DEF Evolves
<1>6. QED BY <1>4, <1>5

LEMMA ClaimEvolves ==
    ASSUME Safe, NEW t \in Threads, NEW p \in {"lock", "verified"}, At(t, "Init", p),
           Claim(t, Top(t).k), owner[Top(t).k] \in {NoThread, t}, NEW k \in Classes
    PROVE  Evolves(t, k)
<1> DEFINE j == Top(t).k
<1>1. /\ depth[t] # 0 /\ Top(t) = top(t) /\ j \in Classes /\ Top(t).fn = "Init" /\ depth[t] \in Slots(t)
  BY Running DEF Slots
<1>2. owner \in [Classes -> Threads \union {NoThread}] /\ owner' = [owner EXCEPT ![j] = NoThread]
  BY DEF Claim, Release, Wait, Safe, TypeOK
<1>3. owner'[k] # owner[k] => k = j
  BY <1>1, <1>2
<1>4. CASE UNCHANGED cvars
  BY <1>3, <1>4, QuietEvolves DEF cvars
<1>5. CASE /\ status[j] = "kVerified" /\ SetStatus(j, "kErrorResolved")
           /\ UNCHANGED <<clinitTid, recInit, attempted, aborted>>
  BY <1>1, <1>3, <1>5, StatusEvolves
<1>6. CASE /\ status[j] = "kVerified" /\ SetStatus(j, "kInitializing")
           /\ clinitTid' = [clinitTid EXCEPT ![j] = t]
           /\ UNCHANGED <<recInit, attempted, exc, aborted>>
  <2>1. /\ status \in [Classes -> Statuses] /\ clinitTid \in [Classes -> Threads \union {NoThread}]
        /\ status' = [status EXCEPT ![j] = "kInitializing"]
        /\ clinitTid' = [clinitTid EXCEPT ![j] = t] /\ UNCHANGED attempted
    BY <1>6 DEF SetStatus, Safe, TypeOK
  <2>2. CASE k # j
    BY <1>3, <2>1, <2>2 DEF Evolves, Advance
  <2>3. CASE k = j
    BY <1>1, <1>6, <2>1, <2>3 DEF Evolves, Advance
  <2>4. QED BY <2>2, <2>3
<1>7. QED BY <1>4, <1>5, <1>6 DEF Claim

LEMMA StepEvolves ==
    ASSUME Safe, NEW t \in Threads, LockOf(t), Step(t), NEW k \in Classes
    PROVE  Evolves(t, k)
<1> DEFINE j == Top(t).k
<1>1. owner \in [Classes -> Threads \union {NoThread}]
  BY DEF Safe, TypeOK
<1>2. ASSUME NEW fn, NEW p, At(t, fn, p)
      PROVE /\ depth[t] # 0 /\ Top(t) = top(t) /\ j \in Classes /\ depth[t] \in Slots(t)
            /\ Top(t).fn = fn /\ Top(t).pc = p
  BY <1>2, Running DEF Slots
<1>3. ASSUME CanLock(t, j) PROVE owner[j] \in {NoThread, t}
  BY <1>3 DEF CanLock
<1>4. CASE UNCHANGED <<cvars, owner>>
  BY <1>4, QuietEvolves DEF cvars
<1>5. CASE DefaultMark(t)
  BY <1>5, QuietEvolves DEF DefaultMark
<1>6. CASE InitLock(t)
  <2>1. At(t, "Init", "lock") /\ CanLock(t, j)
    BY <1>6 DEF InitLock
  <2>2. CASE UNCHANGED cvars /\ owner' = [owner EXCEPT ![j] = t]
    BY <1>1, <1>2, <1>3, <2>1, <2>2, QuietEvolves DEF cvars
  <2>3. CASE Claim(t, j)
    BY <1>3, <2>1, <2>3, ClaimEvolves
  <2>4. QED BY <1>4, <1>6, <2>2, <2>3 DEF InitLock
<1>7. CASE InitVerified(t)
  <2>1. At(t, "Init", "verified")
    BY <1>7 DEF InitVerified
  <2>2. owner[j] = t
    BY <2>1, <1>2 DEF LockOf, top
  <2>3. CASE UNCHANGED cvars /\ Release(t, j)
    BY <1>1, <1>2, <2>1, <2>2, <2>3, QuietEvolves DEF cvars, Release
  <2>4. CASE Claim(t, j)
    BY <2>1, <2>2, <2>4, ClaimEvolves
  <2>5. QED BY <1>7, <2>3, <2>4 DEF InitVerified
<1>8. CASE WaitForInitializeClass(t)
  <2>1. /\ At(t, "Init", "waiting") /\ CanLock(t, j) /\ UNCHANGED cvars
        /\ owner' = owner \/ owner' = [owner EXCEPT ![j] = NoThread]
    BY <1>8 DEF WaitForInitializeClass, Wait
  <2>2. QED BY <1>1, <1>2, <1>3, <2>1, QuietEvolves DEF cvars
<1>9. ASSUME NEW p \in {"superDone", "ifaceDone"}, At(t, "Init", p), FailFromParent(t, j)
      PROVE  Evolves(t, k)
  <2>1. Claimed(Top(t))
    BY <1>2, <1>9 DEF Claimed, AfterClaim
  <2>2. CanLock(t, j) /\ SetStatus(j, "kErrorResolved") /\ UNCHANGED <<clinitTid, attempted, owner>>
    BY <1>9 DEF FailFromParent
  <2>3. QED BY <1>2, <1>3, <1>9, <2>1, <2>2, StatusEvolves
<1>10. CASE InitSuperDone(t)
  BY <1>4, <1>9, <1>10 DEF InitSuperDone
<1>11. CASE InitIfaceDone(t)
  BY <1>4, <1>9, <1>11 DEF InitIfaceDone
<1>12. CASE InitFinish(t)
  <2> DEFINE s == IF exc[t] = "none" THEN "kInitialized" ELSE "kErrorResolved"
  <2>1. At(t, "Init", "finish") /\ CanLock(t, j) /\ UNCHANGED <<clinitTid, attempted, owner>>
        /\ SetStatus(j, s)
    BY <1>12 DEF InitFinish
  <2>2. Claimed(Top(t)) /\ s \in {"kInitialized", "kErrorResolved"}
    BY <1>2, <2>1 DEF Claimed, AfterClaim
  <2>3. QED BY <1>2, <1>3, <2>1, <2>2, StatusEvolves
<1>13. CASE VerifyLock(t)
  <2>1. At(t, "Verify", "lock") /\ CanLock(t, j)
    BY <1>13 DEF VerifyLock
  <2>2. Relock(t, j) \/ Wait(t, j) => (owner'[k] # owner[k] => k = j)
    BY <1>1, <1>2, <2>1 DEF Relock, Wait
  <2>3. CASE UNCHANGED cvars /\ (Relock(t, j) \/ Wait(t, j))
    BY <1>3, <2>1, <2>2, <2>3, QuietEvolves DEF cvars
  <2>4. CASE /\ IsVerified(j) /\ attempted' = [attempted EXCEPT ![j] = TRUE] /\ Relock(t, j)
             /\ UNCHANGED <<status, clinitTid>>
    BY <1>2, <1>3, <2>1, <2>2, <2>4 DEF Evolves, Advance, IsVerified, Safe, TypeOK
  <2>5. CASE /\ status[j] \in {"kResolved", "kRetryVerificationAtRuntime"}
             /\ SetStatus(j, IF status[j] = "kResolved" THEN "kVerifying" ELSE "kVerifyingAtRuntime")
             /\ Relock(t, j)
             /\ UNCHANGED <<clinitTid, attempted>>
    <3> DEFINE s == IF status[j] = "kResolved" THEN "kVerifying" ELSE "kVerifyingAtRuntime"
    <3>1. s # "kVerified" /\ SetStatus(j, s)
      BY <2>5
    <3>2. \/ status[j] = "kResolved" /\ s = "kVerifying"
          \/ status[j] = "kRetryVerificationAtRuntime" /\ s = "kVerifyingAtRuntime"
      BY <2>5
    <3> HIDE DEF s
    <3>3. QED BY <1>2, <1>3, <2>1, <2>2, <2>5, <3>1, <3>2, StatusEvolves
  <2>6. QED BY <1>13, <2>3, <2>4, <2>5 DEF VerifyLock
<1>14. CASE VerifyReject(t)
  <2>1. At(t, "Verify", "reject") /\ CanLock(t, j) /\ UNCHANGED <<clinitTid, attempted, owner>>
        /\ SetStatus(j, "kErrorResolved")
    BY <1>14 DEF VerifyReject
  <2>2. Checking(Top(t))
    BY <1>2, <2>1 DEF Checking
  <2>3. QED BY <1>2, <1>3, <2>1, <2>2, StatusEvolves
<1>15. CASE VerifyFinish(t)
  <2>1. At(t, "Verify", "finish") /\ CanLock(t, j) /\ UNCHANGED <<clinitTid, owner>>
    BY <1>15 DEF VerifyFinish
  <2>2. Checking(Top(t))
    BY <1>2, <2>1 DEF Checking
  <2>3. CASE SetStatus(j, "kErrorResolved") /\ UNCHANGED <<attempted, aborted>>
    BY <1>2, <1>3, <2>1, <2>2, <2>3, StatusEvolves
  <2>4. CASE SetStatus(j, "kVerified") /\ attempted' = [attempted EXCEPT ![j] = TRUE]
    BY <1>2, <1>3, <2>1, <2>2, <2>4, StatusEvolves
  <2>5. CASE UNCHANGED <<status, attempted, waiting, stack, exc, ret>>
    BY <2>1, <2>5, QuietEvolves
  <2>6. QED BY <1>15, <2>3, <2>4, <2>5 DEF VerifyFinish
<1>16. InitEnter(t) \/ InitSuper(t) \/ InitIfaces(t) \/ InitStatics(t) \/ Clinit(t) \/ DefaultSupers(t)
       \/ DefaultSuperDone(t) \/ VerifySuper(t) \/ VerifySuperDone(t) \/ VerifySuperOk(t)
       \/ VerifyIfaces(t) \/ VerifyIfaceDone(t) \/ VerifyIfaceOk(t) \/ PerformClassVerification(t)
       => UNCHANGED <<cvars, owner>>
  BY DEF InitEnter, InitSuper, InitIfaces, InitStatics, Clinit, DefaultSupers, DefaultSuperDone, VerifySuper,
     VerifySuperDone, VerifySuperOk, VerifyIfaces, VerifyIfaceDone, VerifyIfaceOk, PerformClassVerification
<1>17. QED
  BY <1>4, <1>5, <1>6, <1>7, <1>8, <1>10, <1>11, <1>12, <1>13, <1>14, <1>15, <1>16, Zenon DEF Step

\* What stays true of a class whatever thread t does.
LEMMA Steady ==
    ASSUME Safe, Safe', NEW t \in Threads, NEW k \in Classes, Evolves(t, k)
    PROVE  /\ IsErroneous(k) => IsErroneous(k)'
           /\ IsInitialized(k) => IsInitialized(k)'
           /\ Done(k) => Done(k)'
           /\ IsErroneous(k)' \/ Rank[status'[k]] >= Rank[status[k]]
           /\ \A u \in Threads \ {t} : owner[k] = u => owner'[k] = u /\ status'[k] = status[k]
           /\ \A u \in Threads : u # t \/ top(t).fn # "Init" => (Found(u, k) => Found(u, k)')
           /\ \A u \in Threads \ {t} : Returned(u, k) => Returned(u, k)'
<1>1. /\ status[k] \in Statuses /\ status'[k] \in Statuses
      /\ clinitTid[k] # NoThread => status[k] \in Over
  BY DEF Safe, TypeOK, Core, ClaimsOK
<1>2. IsErroneous(k) => IsErroneous(k)'
  BY DEF Evolves, Advance, IsErroneous
<1>3. IsInitialized(k) => IsInitialized(k)'
  BY DEF Evolves, Advance, IsInitialized
<1>4. IsErroneous(k)' \/ Rank[status'[k]] >= Rank[status[k]]
  BY <1>1 DEF Evolves, Advance, IsErroneous, Statuses, Rank
<1>5. Done(k) => Done(k)'
  BY <1>1, <1>2, <1>4 DEF Done, IsVerified, IsErroneous, Statuses, Rank
<1>6. \A u \in Threads \ {t} : owner[k] = u => owner'[k] = u /\ status'[k] = status[k]
  BY InitAssumption DEF Evolves
<1>7. ASSUME NEW u \in Threads, u # t \/ top(t).fn # "Init", Found(u, k)
      PROVE Found(u, k)'
  <2>1. attempted'[k]
    BY <1>7 DEF Found, Evolves
  <2>2. ASSUME status'[k] = "kErrorResolved" PROVE clinitTid'[k] # u
    <3>1. clinitTid'[k] = clinitTid[k]
      BY <2>2 DEF Evolves
    <3>2. CASE status[k] = "kErrorResolved"
      BY <3>1, <3>2, <1>7 DEF Found, IsErroneous
    <3>3. CASE status[k] = "kInitializing"
      BY <3>1, <3>3, <2>2, <1>7 DEF Evolves
    <3>4. CASE status[k] \notin Over
      BY <3>1, <3>4, <1>1, InitAssumption
    <3>5. status[k] # "kInitialized"
      BY <2>2, <1>3 DEF IsInitialized
    <3>6. QED BY <3>2, <3>3, <3>4, <3>5 DEF Over
  <2>3. QED BY <2>1, <2>2 DEF Found, IsErroneous
<1>8. ASSUME NEW u \in Threads \ {t}, Returned(u, k) PROVE Returned(u, k)'
  <2>1. CASE IsInitialized(k)
    BY <1>3, <2>1 DEF Returned
  <2>2. CASE status[k] = "kInitializing" /\ clinitTid[k] = u
    <3>1. status'[k] = status[k]
      BY <2>2 DEF Evolves
    <3>2. clinitTid'[k] = clinitTid[k]
      BY <2>2 DEF Evolves
    <3>3. QED BY <2>2, <3>1, <3>2 DEF Returned
  <2>3. QED BY <1>8, <2>1, <2>2 DEF Returned
<1>9. QED BY <1>2, <1>3, <1>4, <1>5, <1>6, <1>7, <1>8

LEMMA SameFrames ==
    ASSUME NEW u \in Threads, stack'[u] = stack[u]
    PROVE  /\ depth'[u] = depth[u] /\ Slots(u)' = Slots(u) /\ fr'[u] = fr[u] /\ top(u)' = top(u)
BY DEF depth, Slots, fr, top

\* The other threads find everything as they left it, or as they may.
LEMMA OthersKeep ==
    ASSUME Safe, Safe', NEW t \in Threads, Alone(t), \A k \in Classes : Evolves(t, k),
           NEW u \in Threads \ {t}, Own(u)
    PROVE  Own(u)'
<1>1. /\ depth'[u] = depth[u] /\ Slots(u)' = Slots(u) /\ fr'[u] = fr[u] /\ top(u)' = top(u)
      /\ exc'[u] = exc[u] /\ ret'[u] = ret[u]
  BY SameFrames DEF Alone
<1>2. /\ \A h \in Slots(u) : fr[u][h] \in Frames /\ fr[u][h].k \in Classes /\ FrameOK(fr[u][h])
      /\ depth[u] # 0 => depth[u] \in Slots(u) /\ top(u) = fr[u][depth[u]]
  <2>1. depth[u] \in Nat /\ \A h \in Slots(u) : fr[u][h] \in Frames
    BY FrType DEF Safe, TypeOK, StackType, Slots
  <2>2. \A h \in Slots(u) : fr[u][h].k \in Classes /\ FrameOK(fr[u][h])
    BY <2>1 DEF Safe, FramesOK, Frames
  <2>3. QED BY <2>1, <2>2 DEF Slots, top
<1>3. \A k \in Classes :
         /\ IsErroneous(k) => IsErroneous(k)'
         /\ IsInitialized(k) => IsInitialized(k)'
         /\ Done(k) => Done(k)'
         /\ IsErroneous(k)' \/ Rank[status'[k]] >= Rank[status[k]]
         /\ owner[k] = u => owner'[k] = u /\ status'[k] = status[k]
         /\ Found(u, k) => Found(u, k)'
         /\ Returned(u, k) => Returned(u, k)'
  BY Steady
<1>4. \A k \in Classes : Super[k] # NoClass => Super[k] \in Classes
  BY InitAssumption
<1>5. ReadyOf(u)'
  <2>1. ASSUME NEW h \in Slots(u), ReadyAt(u, h) PROVE ReadyAt(u, h)'
    BY <2>1, <1>1, <1>2, <1>3, <1>4 DEF ReadyAt
  <2>2. ASSUME depth[u] # 0, ret[u] PROVE Answered(u, top(u))'
    <3>1. Answered(u, top(u)) /\ top(u).k \in Classes
          /\ (top(u).fn = "Init" /\ top(u).pc = "superDone" => Super[top(u).k] # NoClass)
      BY <2>2, <1>2 DEF Own, ReadyOf, FrameOK
    <3>2. QED BY <3>1, <1>1, <1>3, <1>4 DEF Answered
  <2>3. QED BY <1>1, <2>1, <2>2 DEF Own, ReadyOf
<1>6. LockOf(u)'
  BY <1>1, <1>2, <1>3 DEF Own, LockOf
<1>7. ExcOf(u)'
  <2>1. ASSUME NEW f, f = top(u), depth[u] # 0 PROVE ExcAt(u, f)'
    <3>1. /\ f.k \in Classes /\ FrameOK(f) /\ ExcAt(u, f)
          /\ f.fn = "Init" /\ f.pc = "verified" => owner[f.k] = u
      BY <2>1, <1>2 DEF Own, LockOf, ExcOf
    <3>2. f.fn = "Init" /\ f.pc = "verified" => status'[f.k] = status[f.k]
      BY <3>1, <1>3
    <3>3. f.fn = "Verify" /\ f.pc = "superDone" => Super[f.k] \in Classes
      BY <3>1, <1>4 DEF FrameOK
    <3>4. f.fn = "Verify" /\ f.pc = "ifaceDone" => Head(f.todo) \in Classes
      <4>1. f.fn = "Verify" /\ f.pc = "ifaceDone" => f.todo \in Seq(IfSet[f.k]) /\ f.todo # <<>>
        BY <3>1 DEF FrameOK
      <4>2. IfSet[f.k] \subseteq Classes
        BY <3>1 DEF IfSet, Above
      <4>3. QED BY <4>1, <4>2, TailType
    <3>5. /\ f.fn = "Init" /\ f.pc \in {"enter", "lock", "waiting", "super", "ifaces", "statics"} =>
               exc'[u] = "none"
          /\ f.fn = "Init" /\ f.pc \in {"superDone", "ifaceDone"} => (ret'[u] <=> exc'[u] = "none")
          /\ f.fn = "Default" /\ f.pc \in {"superDone", "mark"} => (ret'[u] <=> exc'[u] = "none")
          /\ f.fn = "Default" /\ f.pc = "supers" => exc'[u] = "none"
          /\ f.fn = "Verify" /\ f.pc \notin {"superDone", "ifaceDone", "reject"} => exc'[u] = "none"
      BY <3>1, <1>1 DEF ExcAt
    <3>6. f.fn = "Init" /\ f.pc = "verified" => Done(f.k)' /\ (IsErroneous(f.k)' <=> exc'[u] # "none")
      BY <3>1, <3>2, <1>1 DEF ExcAt, Done, IsVerified, IsErroneous
    <3>7. f.fn = "Verify" /\ f.pc = "superDone" =>
              Done(Super[f.k])' /\ (~IsErroneous(Super[f.k])' => exc'[u] = "none")
      BY <3>1, <3>3, <1>1, <1>3 DEF ExcAt
    <3>8. f.fn = "Verify" /\ f.pc = "ifaceDone" =>
              Done(Head(f.todo))' /\ (~IsErroneous(Head(f.todo))' => exc'[u] = "none")
      BY <3>1, <3>4, <1>1, <1>3 DEF ExcAt
    <3>9. QED BY <3>5, <3>6, <3>7, <3>8 DEF ExcAt, Done, IsVerified, IsErroneous
  <2>2. depth[u] # 0 => ExcAt(u, top(u))'
    BY <2>1, <1>1
  <2>3. depth[u] = 0 => (ret'[u] <=> exc'[u] = "none")
    BY <1>1 DEF Own, ExcOf
  <2>4. QED BY <1>1, <2>2, <2>3 DEF ExcOf
<1>8. SeenOf(u)'
  <2>1. ASSUME depth[u] # 0, NEW f, f = top(u),
               f.fn = "Verify", f.pc = "lock", f.todo # <<>>
        PROVE IsErroneous(f.k)' \/ Rank[status'[f.k]] >= Rank[Head(f.todo)]
    <3>1. f.k \in Classes /\ (IsErroneous(f.k) \/ Rank[status[f.k]] >= Rank[Head(f.todo)])
      BY <2>1, <1>2 DEF Own, SeenOf, SeenAt
    <3>2. \E s \in Statuses : f.todo = <<s>>
      BY <2>1, <1>2 DEF FrameOK
    <3>3. Rank[Head(f.todo)] \in Int
      BY <3>2 DEF Statuses, Rank
    <3>4. status[f.k] \in Statuses /\ status'[f.k] \in Statuses
      BY <3>1 DEF Safe, TypeOK
    <3>5. Rank[status[f.k]] \in Int /\ Rank[status'[f.k]] \in Int
      BY <3>4 DEF Statuses, Rank
    <3> HIDE DEF Rank
    <3>6. QED BY <3>1, <3>3, <3>5, <1>3
  <2>2. ASSUME depth[u] # 0, NEW f, f = top(u) PROVE SeenAt(f)'
    BY <2>1, <2>2 DEF SeenAt
  <2>3. depth[u] # 0 => SeenAt(top(u))'
    BY <2>2, <1>1
  <2>4. QED BY <1>1, <2>3 DEF SeenOf
<1>9. FoundOf(u)'
  <2>1. ASSUME NEW h \in Slots(u), NEW f, f = fr[u][h] PROVE FoundAt(u, f)'
    <3>1. f.k \in Classes /\ FrameOK(f) /\ FoundAt(u, f)
      BY <2>1, <1>2 DEF Own, FoundOf
    <3>2. /\ f.fn = "Verify" /\ f.pc = "ifaceOk" => Head(f.todo) \in Classes
          /\ f.fn = "Verify" /\ f.pc = "verify" /\ f.todo # <<>> => f.todo[1] \in Classes
          /\ f.fn = "Verify" /\ f.pc = "finish" /\ Len(f.todo) = 2 => f.todo[2] \in Classes
      <4>1. f.fn = "Verify" /\ f.pc = "ifaceOk" => f.todo \in Seq(IfSet[f.k]) /\ f.todo # <<>>
        BY <3>1 DEF FrameOK
      <4>2. IfSet[f.k] \subseteq Classes
        BY <3>1 DEF IfSet, Above
      <4>3. f.fn = "Verify" /\ f.pc = "verify" /\ f.todo # <<>> => \E i \in Interfaces : f.todo = <<i>>
        BY <3>1 DEF FrameOK
      <4>4. f.fn = "Verify" /\ f.pc = "finish" => \E how \in Outcomes :
              f.todo = <<how>> \/ \E i \in Interfaces : f.todo = <<how, i>>
        BY <3>1 DEF FrameOK
      <4>5. QED BY <4>1, <4>2, <4>3, <4>4, TailType, InitAssumption
    <3>3. \A s \in Classes : Found(u, s) => Found(u, s)'
      BY <1>3
    <3>4. QED BY <3>1, <3>2, <3>3, <1>4 DEF FoundAt
  <2>2. QED BY <1>1, <2>1 DEF FoundOf
<1>10. QED BY <1>5, <1>6, <1>7, <1>8, <1>9 DEF Own

LEMMA AttemptedKeep ==
    ASSUME Safe, Safe', NEW t \in Threads, \A k \in Classes : Evolves(t, k), AttemptedOK
    PROVE  AttemptedOK'
<1>1. ASSUME NEW k \in Classes
      PROVE (IsVerified(k)' => attempted'[k]) /\ (attempted'[k] => Done(k)')
  <2>1. Evolves(t, k) /\ (Done(k) => Done(k)')
    BY Steady
  <2>2. status[k] \in Statuses /\ attempted'[k] \in BOOLEAN /\ attempted[k] \in BOOLEAN
    BY DEF Safe, TypeOK
  <2>3. attempted'[k] => Done(k)'
    BY <2>1, <2>2 DEF Evolves, AttemptedOK, Done
  <2>4. IsVerified(k)' => attempted'[k]
    <3>1. IsVerified(k)' /\ ~IsVerified(k) => status'[k] = "kVerified" /\ status[k] # "kVerified"
      BY <2>1, <2>2 DEF Evolves, Advance, IsVerified, Statuses, Rank
    <3>2. QED BY <2>1, <3>1 DEF Evolves, AttemptedOK
  <2>5. QED BY <2>3, <2>4
<1>2. QED BY <1>1 DEF AttemptedOK, IsVerified, Done, IsErroneous

-----------------------------------------------------------------------------
\* What a thread may rely on after a step of its own, move by move.

\* A step of thread t in a state of the invariant, as far as Own(t) is concerned.
Moving(t) == /\ Safe /\ Safe' /\ Own(t) /\ AttemptedOK
             /\ \A k \in Classes : Evolves(t, k)

\* The frames below the top one: VerifyClass only calls itself.
LEMMA Below ==
    ASSUME Safe, NEW t \in Threads, depth[t] # 0
    PROVE  /\ depth[t] \in Nat \ {0} /\ depth[t] \in Slots(t) /\ top(t) = fr[t][depth[t]]
           /\ \A h \in Slots(t) : fr[t][h] \in Frames /\ fr[t][h].k \in Classes /\ FrameOK(fr[t][h])
           /\ top(t).fn # "Verify" => \A h \in Slots(t) : h # depth[t] =>
                  fr[t][h].fn # "Verify" /\ ~(fr[t][h].fn = "Init" /\ fr[t][h].pc = "verified")
           /\ \A h \in Slots(t) : h # depth[t] /\ fr[t][h].fn = "Init" /\ fr[t][h].pc = "verified" =>
                  /\ h + 1 \in Slots(t) /\ fr[t][h + 1].k = fr[t][h].k
                  /\ h + 1 # depth[t] => top(t).k # fr[t][h].k /\ fr[t][h + 1].pc # "lock"
           /\ \A h \in Slots(t) : h # depth[t] => ~(fr[t][h].fn = "Verify" /\ fr[t][h].pc = "lock")
<1>1. depth[t] \in Nat \ {0} /\ depth[t] \in Slots(t) /\ top(t) = fr[t][depth[t]]
  <2>1. depth \in [Threads -> Nat]
    BY FrType DEF Safe, TypeOK, StackType
  <2>2. QED BY <2>1 DEF Slots, top
<1>2. \A h \in Slots(t) : fr[t][h] \in Frames /\ fr[t][h].k \in Classes /\ FrameOK(fr[t][h])
  BY FrType DEF Safe, TypeOK, StackType, FramesOK, Slots, Frames
<1>3. \A h \in Slots(t) : h # depth[t] => CalledBy(fr[t][h + 1], fr[t][h])
  BY DEF Safe, Core, CallsOK
<1>4. \A g, h \in Slots(t) : g < h /\ fr[t][g].fn = "Verify" =>
          fr[t][h].fn = "Verify" /\ fr[t][h].k \in Above(fr[t][g].k)
  BY DEF Safe, Core, CallsOK
<1>5. \A h \in Slots(t) : h # depth[t] => h + 1 \in Slots(t) /\ h < depth[t]
  BY <1>1 DEF Slots
<1>6. \A h \in Slots(t) : h # depth[t] /\ fr[t][h].fn = "Init" /\ fr[t][h].pc = "verified" =>
          fr[t][h + 1].fn = "Verify" /\ fr[t][h + 1].k = fr[t][h].k
  BY <1>3 DEF CalledBy
<1>7. \A h \in Slots(t) : h # depth[t] => ~(fr[t][h].fn = "Verify" /\ fr[t][h].pc = "lock")
  BY <1>3 DEF CalledBy
<1>8. ASSUME NEW h \in Slots(t), h # depth[t], fr[t][h].fn = "Init", fr[t][h].pc = "verified",
             h + 1 # depth[t]
      PROVE  top(t).k # fr[t][h].k /\ fr[t][h + 1].pc # "lock"
  <2>1. h + 1 \in Slots(t) /\ h + 1 < depth[t]
    BY <1>1, <1>5, <1>8 DEF Slots
  <2>2. fr[t][h + 1].fn = "Verify" /\ fr[t][h + 1].k = fr[t][h].k
    BY <1>6, <1>8
  <2>3. top(t).k \in Above(fr[t][h].k)
    BY <1>1, <1>4, <2>1, <2>2
  <2>4. fr[t][h].k \notin Above(fr[t][h].k)
    BY <1>2, InitAssumption
  <2>5. top(t).k # fr[t][h].k
    BY <2>3, <2>4
  <2>6. fr[t][h + 1].pc # "lock"
    BY <1>7, <1>8, <2>1, <2>2
  <2>7. QED BY <2>5, <2>6
<1>9. ASSUME top(t).fn # "Verify", NEW h \in Slots(t), h # depth[t]
      PROVE  fr[t][h].fn # "Verify" /\ ~(fr[t][h].fn = "Init" /\ fr[t][h].pc = "verified")
  <2>1. fr[t][h].fn # "Verify"
    BY <1>1, <1>4, <1>5, <1>9
  <2>2. h + 1 # depth[t] => fr[t][h + 1].fn # "Verify"
    BY <1>1, <1>4, <1>5, <1>9
  <2>3. QED BY <1>1, <1>6, <1>9, <2>1, <2>2
<1>10. QED BY <1>1, <1>2, <1>5, <1>6, <1>7, <1>8, <1>9

\* The frames below the top one are as they were.
Low(t) == \A h \in Slots(t) : h # depth[t] => h \in Slots(t)' /\ fr'[t][h] = fr[t][h]
\* The superclass of k is initialised, or claimed below the top frame.
Ready(t, k) ==
    Super[k] # NoClass =>
        \/ IsInitialized(Super[k])
        \/ \E g \in Slots(t) : g # depth[t] /\ Claimed(fr[t][g]) /\ fr[t][g].k = Super[k]

LEMMA Lows ==
    ASSUME Safe, NEW t \in Threads, depth[t] # 0
    PROVE  /\ \A x : FrGoto(t, x) => Low(t) /\ depth'[t] = depth[t] /\ Slots(t)' = Slots(t)
                                     /\ fr'[t][depth[t]] = x /\ top(t)' = x
           /\ \A x, c : FrCall(t, x, c) => Low(t) /\ depth'[t] = depth[t] + 1
                                     /\ Slots(t)' = Slots(t) \union {depth[t] + 1}
                                     /\ fr'[t][depth[t]] = x /\ fr'[t][depth[t] + 1] = c /\ top(t)' = c
           /\ FrReturn(t) => Low(t) /\ depth'[t] = depth[t] - 1 /\ Slots(t)' = Slots(t) \ {depth[t]}
                                     /\ (depth'[t] # 0 => top(t)' = fr[t][depth[t] - 1])
<1>1. /\ depth \in [Threads -> Nat] /\ depth[t] \in Nat \ {0} /\ StackType
  BY Below, FrType DEF Safe, TypeOK, StackType
<1>2. ASSUME NEW x, FrGoto(t, x)
      PROVE  Low(t) /\ depth'[t] = depth[t] /\ Slots(t)' = Slots(t) /\ fr'[t][depth[t]] = x /\ top(t)' = x
  BY <1>1, <1>2 DEF FrGoto, Low, Slots, top
<1>3. ASSUME NEW x, NEW c, FrCall(t, x, c)
      PROVE  /\ Low(t) /\ depth'[t] = depth[t] + 1 /\ Slots(t)' = Slots(t) \union {depth[t] + 1}
             /\ fr'[t][depth[t]] = x /\ fr'[t][depth[t] + 1] = c /\ top(t)' = c
  BY <1>1, <1>3 DEF FrCall, Low, Slots, top
<1>4. ASSUME FrReturn(t)
      PROVE  /\ Low(t) /\ depth'[t] = depth[t] - 1 /\ Slots(t)' = Slots(t) \ {depth[t]}
             /\ depth'[t] # 0 => top(t)' = fr[t][depth[t] - 1]
  BY <1>1, <1>4 DEF FrReturn, Low, Slots, top
<1>5. QED BY <1>2, <1>3, <1>4

\* Whatever happens above them, frames that had their superclass ready have it so.
LEMMA ReadyKeep ==
    ASSUME NEW t \in Threads, Moving(t), depth[t] # 0, Low(t),
           \A h \in Slots(t)' : h \notin Slots(t) => fr'[t][h].pc \notin PastSuper,
           (depth[t] \in Slots(t)' /\ fr'[t][depth[t]].fn = "Init" /\ fr'[t][depth[t]].pc \in PastSuper) =>
               fr'[t][depth[t]].k \in Classes /\ Ready(t, fr'[t][depth[t]].k)
    PROVE  \A h \in Slots(t)' : ReadyAt(t, h)'
<1>1. /\ depth[t] \in Nat \ {0} /\ depth[t] \in Slots(t)
      /\ \A h \in Slots(t) : fr[t][h].k \in Classes
  BY Below DEF Moving
<1>2. \A k \in Classes : IsInitialized(k) => IsInitialized(k)'
  BY Steady DEF Moving
<1>3. \A k \in Classes : Super[k] # NoClass => Super[k] \in Classes
  BY InitAssumption
<1>4. ASSUME NEW h \in Slots(t)', NEW f, f = fr'[t][h],
             f.fn = "Init", f.pc \in PastSuper, Super[f.k] # NoClass
      PROVE  \/ IsInitialized(Super[f.k])'
             \/ \E g \in Slots(t)' : g < h /\ Claimed(fr'[t][g]) /\ fr'[t][g].k = Super[f.k]
  <2>1. h \in Slots(t)
    BY <1>4
  <2>2. f.k \in Classes /\ Super[f.k] \in Classes
    BY <1>1, <1>3, <1>4, <2>1 DEF Low
  <2>3. CASE h # depth[t]
    <3>1. f = fr[t][h] /\ h < depth[t]
      BY <1>1, <1>4, <2>1, <2>3 DEF Low, Slots
    <3>2. \/ IsInitialized(Super[f.k])
          \/ \E g \in Slots(t) : g < h /\ Claimed(fr[t][g]) /\ fr[t][g].k = Super[f.k]
      BY <1>4, <2>1, <3>1 DEF Moving, Own, ReadyOf, ReadyAt
    <3>3. \A g \in Slots(t) : g < h => g # depth[t] /\ g \in Slots(t)' /\ fr'[t][g] = fr[t][g]
      BY <1>1, <3>1 DEF Low, Slots
    <3>4. QED BY <1>2, <2>2, <3>2, <3>3
  <2>4. CASE h = depth[t]
    <3>1. \/ IsInitialized(Super[f.k])
          \/ \E g \in Slots(t) : g # depth[t] /\ Claimed(fr[t][g]) /\ fr[t][g].k = Super[f.k]
      BY <1>4, <2>4 DEF Ready
    <3>2. \A g \in Slots(t) : g # depth[t] => g < h /\ g \in Slots(t)' /\ fr'[t][g] = fr[t][g]
      BY <1>1, <2>4 DEF Low, Slots
    <3>3. QED BY <1>2, <2>2, <3>1, <3>2
  <2>5. QED BY <2>3, <2>4
<1>5. QED BY <1>4 DEF ReadyAt, Claimed

\* No frame of VerifyClass, so no lock kept, nothing seen or found.
LEMMA PlainKeep ==
    ASSUME NEW t \in Threads, Moving(t), depth[t] # 0, Low(t), top(t).fn # "Verify",
           \A h \in Slots(t)' : h \notin Slots(t) \/ h = depth[t] =>
               fr'[t][h].fn # "Verify" /\ ~(fr'[t][h].fn = "Init" /\ fr'[t][h].pc = "verified"),
           depth'[t] # 0 => depth'[t] \in Slots(t)' /\ top(t)' = fr'[t][depth'[t]]
    PROVE  LockOf(t)' /\ SeenOf(t)' /\ FoundOf(t)'
<1>1. \A h \in Slots(t)' : fr'[t][h].fn # "Verify" /\ ~(fr'[t][h].fn = "Init" /\ fr'[t][h].pc = "verified")
  BY Below DEF Moving, Low
<1>2. LockOf(t)'
  BY <1>1 DEF LockOf
<1>3. SeenOf(t)'
  BY <1>1 DEF SeenOf, SeenAt
<1>4. FoundOf(t)'
  BY <1>1 DEF FoundOf, FoundAt
<1>5. QED BY <1>2, <1>3, <1>4

\* The frame x in the place of the top one, not of VerifyClass before or after.
Plain(x) == x.fn # "Verify" /\ ~(x.fn = "Init" /\ x.pc = "verified")
LEMMA OwnGoto ==
    ASSUME NEW t \in Threads, Moving(t), depth[t] # 0, top(t).fn # "Verify",
           NEW x, FrGoto(t, x), Plain(x), x.k \in Classes,
           x.fn = "Init" /\ x.pc \in PastSuper => Ready(t, x.k),
           ~(x.fn = "Init" /\ x.pc = "superDone"),
           x.fn = "Default" /\ x.pc = "mark" => x.k \notin HasDefault,
           ExcAt(t, x)'
    PROVE  Own(t)'
<1>1. /\ Low(t) /\ depth'[t] = depth[t] /\ Slots(t)' = Slots(t) /\ fr'[t][depth[t]] = x /\ top(t)' = x
      /\ depth[t] \in Slots(t)
  BY Lows, Below DEF Moving
<1>2. \A h \in Slots(t)' : ReadyAt(t, h)'
  BY <1>1, ReadyKeep
<1>3. LockOf(t)' /\ SeenOf(t)' /\ FoundOf(t)'
  BY <1>1, PlainKeep DEF Plain
<1>4. ExcOf(t)'
  BY <1>1 DEF ExcOf
<1>5. Answered(t, top(t))'
  BY <1>1 DEF Answered
<1>6. QED BY <1>1, <1>2, <1>3, <1>4, <1>5 DEF Own, ReadyOf

\* A call of InitializeClass or InitializeDefaultInterfaceRecursive.
LEMMA OwnCall ==
    ASSUME NEW t \in Threads, Moving(t), depth[t] # 0, top(t).fn # "Verify",
           NEW x, NEW c, FrCall(t, x, c), Plain(x), x.k \in Classes,
           x.fn = "Init" /\ x.pc \in PastSuper => Ready(t, x.k),
           \/ c.fn = "Init" /\ c.pc = "enter"
           \/ c.fn = "Default" /\ c.pc = "supers",
           exc'[t] = "none"
    PROVE  Own(t)'
<1>1. /\ Low(t) /\ depth'[t] = depth[t] + 1 /\ Slots(t)' = Slots(t) \union {depth[t] + 1}
      /\ fr'[t][depth[t]] = x /\ fr'[t][depth[t] + 1] = c /\ top(t)' = c
      /\ depth[t] \in Slots(t) /\ depth[t] \in Nat
  BY Lows, Below DEF Moving
<1>2. c.pc \notin PastSuper /\ Plain(c)
  BY DEF PastSuper, Plain
<1>3. \A h \in Slots(t)' : ReadyAt(t, h)'
  BY <1>1, <1>2, ReadyKeep
<1>4. LockOf(t)' /\ SeenOf(t)' /\ FoundOf(t)'
  BY <1>1, <1>2, PlainKeep DEF Plain
<1>5. ExcAt(t, c)'
  BY DEF ExcAt
<1>6. ExcOf(t)' /\ Answered(t, top(t))'
  BY <1>1, <1>5 DEF ExcOf, Answered
<1>7. QED BY <1>1, <1>3, <1>4, <1>6 DEF Own, ReadyOf

\* A return from either.
LEMMA OwnReturn ==
    ASSUME NEW t \in Threads, Moving(t), depth[t] # 0, top(t).fn # "Verify",
           FrReturn(t), NEW v \in BOOLEAN, ret' = [ret EXCEPT ![t] = v],
           v <=> exc'[t] = "none",
           NEW k, k = top(t).k, v /\ top(t).fn = "Init" => Returned(t, k)'
    PROVE  Own(t)'
<1>1. /\ Low(t) /\ depth'[t] = depth[t] - 1 /\ Slots(t)' = Slots(t) \ {depth[t]}
      /\ depth'[t] # 0 => top(t)' = fr[t][depth[t] - 1]
      /\ depth[t] \in Slots(t) /\ depth[t] \in Nat /\ top(t) = fr[t][depth[t]]
  BY Lows, Below DEF Moving
<1>2. ret'[t] = v
  BY DEF Moving, Safe, TypeOK
<1>3. \A h \in Slots(t)' : ReadyAt(t, h)'
  BY <1>1, ReadyKeep
<1>4. depth'[t] # 0 => depth'[t] \in Slots(t)' /\ depth'[t] # depth[t] /\ top(t)' = fr'[t][depth'[t]]
  BY <1>1 DEF Slots, Low
<1>5. LockOf(t)' /\ SeenOf(t)' /\ FoundOf(t)'
  BY <1>1, <1>4, PlainKeep
<1>6. ASSUME depth'[t] # 0, NEW c, c = fr[t][depth[t] - 1]
      PROVE  ExcAt(t, c)' /\ (v => Answered(t, c)')
  <2>1. depth[t] - 1 \in Slots(t) /\ depth[t] - 1 # depth[t] /\ (depth[t] - 1) + 1 = depth[t]
    BY <1>1, <1>6 DEF Slots
  <2>2. CalledBy(top(t), c)
    BY <1>1, <1>6, <2>1 DEF Moving, Safe, Core, CallsOK
  <2>3. ExcAt(t, c)'
    BY <1>2, <2>2 DEF CalledBy, ExcAt
  <2>4. v => Answered(t, c)'
    BY <2>2 DEF CalledBy, Answered
  <2>5. QED BY <2>3, <2>4
<1>7. ExcOf(t)'
  BY <1>1, <1>2, <1>6 DEF ExcOf
<1>8. depth'[t] # 0 /\ v => Answered(t, top(t))'
  BY <1>1, <1>6
<1>9. QED BY <1>2, <1>3, <1>5, <1>7, <1>8 DEF Own, ReadyOf

-----------------------------------------------------------------------------
\* The same with VerifyClass on top, and the call and the end of it.

\* The frame below the top one keeps the lock of the class.
Keeper(t) == LET h == depth[t] - 1 IN
    h \in Slots(t) /\ fr[t][h].fn = "Init" /\ fr[t][h].pc = "verified"
LEMMA LockKeep ==
    ASSUME NEW t \in Threads, Moving(t), depth[t] # 0, Low(t), top(t).fn = "Verify",
           NEW k, k = top(t).k, \A j \in Classes \ {k} : owner'[j] = owner[j],
           Keeper(t) => (depth'[t] = depth[t] /\ fr'[t][depth[t]].pc = "lock") \/ owner'[k] = t,
           \A h \in Slots(t)' : h \notin Slots(t) \/ h = depth[t] => fr'[t][h].fn = "Verify"
    PROVE  LockOf(t)'
<1>1. /\ depth[t] \in Nat \ {0} /\ depth[t] \in Slots(t) /\ top(t) = fr[t][depth[t]]
      /\ \A h \in Slots(t) : fr[t][h] \in Frames /\ fr[t][h].k \in Classes /\ FrameOK(fr[t][h])
      /\ \A h \in Slots(t) : h # depth[t] /\ fr[t][h].fn = "Init" /\ fr[t][h].pc = "verified" =>
                  /\ h + 1 \in Slots(t) /\ fr[t][h + 1].k = fr[t][h].k
                  /\ h + 1 # depth[t] => top(t).k # fr[t][h].k /\ fr[t][h + 1].pc # "lock"
  BY Below DEF Moving
<1>2. ASSUME NEW h \in Slots(t)', fr'[t][h].fn = "Init", fr'[t][h].pc = "verified",
             h # depth'[t] => h + 1 # depth'[t] \/ fr'[t][h + 1].pc # "lock"
      PROVE  owner'[fr'[t][h].k] = t
  <2>1. h \in Slots(t) /\ h # depth[t] /\ fr'[t][h] = fr[t][h]
    BY <1>2 DEF Low
  <2>2. /\ h + 1 \in Slots(t) /\ fr[t][h + 1].k = fr[t][h].k /\ fr[t][h].k \in Classes
        /\ h + 1 # depth[t] => top(t).k # fr[t][h].k /\ fr[t][h + 1].pc # "lock"
    BY <1>1, <1>2, <2>1
  <2>3. CASE h + 1 # depth[t]
    <3>1. owner[fr[t][h].k] = t
      BY <1>2, <2>1, <2>3 DEF Moving, Own, LockOf
    <3>2. QED BY <2>1, <2>2, <2>3, <3>1
  <2>4. CASE h + 1 = depth[t]
    <3>1. Keeper(t) /\ fr[t][h].k = k
      BY <1>1, <1>2, <2>1, <2>2, <2>4 DEF Keeper, Slots
    <3>2. ~(depth'[t] = depth[t] /\ fr'[t][depth[t]].pc = "lock")
      BY <1>1, <1>2, <2>1, <2>4
    <3>3. QED BY <2>1, <3>1, <3>2
  <2>5. QED BY <2>3, <2>4
<1>3. QED BY <1>2 DEF LockOf

\* What was found stays found under the hands of a verifier.
LEMMA FoundKeep ==
    ASSUME NEW t \in Threads, Moving(t), depth[t] # 0, top(t).fn = "Verify"
    PROVE  /\ \A s \in Classes : Found(t, s) => Found(t, s)'
           /\ \A f : f.k \in Classes /\ FrameOK(f) /\ FoundAt(t, f) => FoundAt(t, f)'
<1>1. \A s \in Classes : Found(t, s) => Found(t, s)'
  BY Steady DEF Moving
<1>2. ASSUME NEW f, f.k \in Classes, FrameOK(f), FoundAt(t, f) PROVE FoundAt(t, f)'
  <2>1. /\ f.fn = "Verify" /\ f.pc = "ifaceOk" => Head(f.todo) \in Classes
        /\ f.fn = "Verify" /\ f.pc = "verify" /\ f.todo # <<>> => f.todo[1] \in Classes
        /\ f.fn = "Verify" /\ f.pc = "finish" /\ Len(f.todo) = 2 => f.todo[2] \in Classes
    <3>1. f.fn = "Verify" /\ f.pc = "ifaceOk" => f.todo \in Seq(IfSet[f.k]) /\ f.todo # <<>>
      BY <1>2 DEF FrameOK
    <3>2. IfSet[f.k] \subseteq Classes
      BY <1>2 DEF IfSet, Above
    <3>3. f.fn = "Verify" /\ f.pc = "verify" /\ f.todo # <<>> => \E i \in Interfaces : f.todo = <<i>>
      BY <1>2 DEF FrameOK
    <3>4. f.fn = "Verify" /\ f.pc = "finish" => \E how \in Outcomes :
            f.todo = <<how>> \/ \E i \in Interfaces : f.todo = <<how, i>>
      BY <1>2 DEF FrameOK
    <3>5. QED BY <3>1, <3>2, <3>3, <3>4, TailType, InitAssumption
  <2>2. Super[f.k] # NoClass => Super[f.k] \in Classes
    BY <1>2, InitAssumption
  <2>3. QED BY <1>1, <1>2, <2>1, <2>2 DEF FoundAt
<1>3. QED BY <1>1, <1>2

\* VerifyClass goes on at x.
LEMMA OwnVerifyGoto ==
    ASSUME NEW t \in Threads, Moving(t), depth[t] # 0, top(t).fn = "Verify",
           NEW x, FrGoto(t, x), x.fn = "Verify", x.k = top(t).k,
           \A j \in Classes \ {top(t).k} : owner'[j] = owner[j],
           x.pc # "lock" /\ Keeper(t) => owner'[top(t).k] = t,
           x.pc = "lock" /\ x.todo # <<>> => Head(x.todo) = status'[x.k],
           FoundAt(t, x)', ExcAt(t, x)'
    PROVE  Own(t)'
<1>1. /\ Low(t) /\ depth'[t] = depth[t] /\ Slots(t)' = Slots(t) /\ fr'[t][depth[t]] = x /\ top(t)' = x
      /\ depth[t] \in Slots(t) /\ depth[t] \in Nat \ {0}
      /\ \A h \in Slots(t) : fr[t][h].k \in Classes /\ FrameOK(fr[t][h])
  BY Lows, Below DEF Moving
<1>2. \A h \in Slots(t)' : ReadyAt(t, h)'
  BY <1>1, ReadyKeep
<1>3. LockOf(t)'
  BY <1>1, LockKeep
<1>4. SeenOf(t)'
  <2>1. x.k \in Classes /\ status'[x.k] \in Statuses
    <3>1. top(t).k \in Classes
      BY Below DEF Moving
    <3>2. status' \in [Classes -> Statuses]
      BY DEF Moving, Safe, TypeOK
    <3>3. QED BY <3>1, <3>2
  <2>2. Rank[status'[x.k]] \in Int
    BY <2>1 DEF Statuses, Rank
  <2>3. SeenAt(x)'
    <3> HIDE DEF Rank
    <3>1. QED BY <2>2 DEF SeenAt
  <2>4. QED BY <1>1, <2>3 DEF SeenOf
<1>5. FoundOf(t)'
  <2>1. ASSUME NEW h \in Slots(t), h # depth[t], NEW f, f = fr[t][h] PROVE FoundAt(t, f)'
    BY <1>1, <2>1, FoundKeep DEF Moving, Own, FoundOf
  <2>2. \A h \in Slots(t)' : FoundAt(t, fr[t][h])'
    BY <1>1, <2>1 DEF Low
  <2>3. QED BY <2>2 DEF FoundOf
<1>6. ExcOf(t)'
  BY <1>1 DEF ExcOf
<1>7. Answered(t, top(t))'
  BY <1>1 DEF Answered
<1>8. QED BY <1>1, <1>2, <1>3, <1>4, <1>5, <1>6, <1>7 DEF Own, ReadyOf

\* Past its first lock, VerifyClass finds the lock its caller keeps.
LEMMA KeeperLock ==
    ASSUME NEW t \in Threads, Moving(t), depth[t] # 0, top(t).pc # "lock", Keeper(t)
    PROVE  owner[top(t).k] = t
<1> DEFINE h == depth[t] - 1
<1>1. depth[t] \in Nat \ {0} /\ depth[t] \in Slots(t) /\ top(t) = fr[t][depth[t]]
  BY Below DEF Moving
<1>2. h \in Slots(t) /\ h # depth[t] /\ h + 1 = depth[t] /\ fr[t][h].fn = "Init" /\ fr[t][h].pc = "verified"
  BY <1>1 DEF Keeper
<1>3. owner[fr[t][h].k] = t
  BY <1>1, <1>2 DEF Moving, Own, LockOf
<1>4. fr[t][h].k = top(t).k
  BY <1>1, <1>2, Below DEF Moving
<1>5. QED BY <1>3, <1>4

\* VerifyClass calls itself.
LEMMA OwnVerifyCall ==
    ASSUME NEW t \in Threads, Moving(t), depth[t] # 0, top(t).fn = "Verify", top(t).pc # "lock",
           NEW x, NEW c, FrCall(t, x, c), x.fn = "Verify", UNCHANGED owner,
           c.fn = "Verify" /\ c.pc = "lock" /\ c.todo = <<>>,
           FoundAt(t, x)', exc'[t] = "none"
    PROVE  Own(t)'
<1>1. /\ Low(t) /\ depth'[t] = depth[t] + 1 /\ Slots(t)' = Slots(t) \union {depth[t] + 1}
      /\ fr'[t][depth[t]] = x /\ fr'[t][depth[t] + 1] = c /\ top(t)' = c
      /\ depth[t] \in Slots(t) /\ depth[t] \in Nat \ {0} /\ top(t) = fr[t][depth[t]]
      /\ \A h \in Slots(t) : fr[t][h].k \in Classes /\ FrameOK(fr[t][h])
  BY Lows, Below DEF Moving
<1>2. \A h \in Slots(t)' : ReadyAt(t, h)'
  BY <1>1, ReadyKeep DEF PastSuper
<1>3. LockOf(t)'
  <2>1. Keeper(t) => owner'[top(t).k] = t
    BY KeeperLock
  <2>2. QED BY <1>1, <2>1, LockKeep
<1>4. SeenOf(t)'
  BY <1>1 DEF SeenOf, SeenAt
<1>5. FoundOf(t)'
  <2>1. ASSUME NEW h \in Slots(t), h # depth[t], NEW f, f = fr[t][h] PROVE FoundAt(t, f)'
    BY <1>1, <2>1, FoundKeep DEF Moving, Own, FoundOf
  <2>2. FoundAt(t, c)'
    BY DEF FoundAt
  <2>3. \A h \in Slots(t)' : FoundAt(t, fr[t][h])'
    BY <1>1, <2>1, <2>2 DEF Low
  <2>4. QED BY <2>3 DEF FoundOf
<1>6. ExcOf(t)'
  BY <1>1 DEF ExcOf, ExcAt
<1>7. Answered(t, top(t))'
  BY <1>1 DEF Answered
<1>8. QED BY <1>1, <1>2, <1>3, <1>4, <1>5, <1>6, <1>7 DEF Own, ReadyOf

\* VerifyClass returns: the class is verified, or erroneous with an exception.
LEMMA OwnVerifyReturn ==
    ASSUME NEW t \in Threads, Moving(t), depth[t] # 0, top(t).fn = "Verify",
           FrReturn(t), NEW v \in BOOLEAN, ret' = [ret EXCEPT ![t] = v],
           v <=> exc'[t] = "none", NEW k, k = top(t).k,
           Done(k)', IsErroneous(k)' <=> exc'[t] # "none",
           \A j \in Classes \ {k} : owner'[j] = owner[j], Keeper(t) => owner'[k] = t
    PROVE  Own(t)'
<1>1. /\ Low(t) /\ depth'[t] = depth[t] - 1 /\ Slots(t)' = Slots(t) \ {depth[t]}
      /\ depth'[t] # 0 => top(t)' = fr[t][depth[t] - 1]
      /\ depth[t] \in Slots(t) /\ depth[t] \in Nat \ {0} /\ top(t) = fr[t][depth[t]]
      /\ \A h \in Slots(t) : fr[t][h].k \in Classes /\ FrameOK(fr[t][h])
  BY Lows, Below DEF Moving
<1>2. ret'[t] = v
  BY DEF Moving, Safe, TypeOK
<1>3. \A h \in Slots(t)' : ReadyAt(t, h)'
  BY <1>1, ReadyKeep
<1>4. LockOf(t)'
  BY <1>1, LockKeep
<1>5. FoundOf(t)'
  <2>1. ASSUME NEW h \in Slots(t), h # depth[t], NEW f, f = fr[t][h] PROVE FoundAt(t, f)'
    BY <1>1, <2>1, FoundKeep DEF Moving, Own, FoundOf
  <2>2. \A h \in Slots(t)' : FoundAt(t, fr[t][h])'
    BY <1>1, <2>1 DEF Low
  <2>3. QED BY <2>2 DEF FoundOf
<1>6. ASSUME depth'[t] # 0, NEW c, c = fr[t][depth[t] - 1]
      PROVE  ExcAt(t, c)' /\ Answered(t, c)' /\ SeenAt(c)'
  <2>1. depth[t] - 1 \in Slots(t) /\ depth[t] - 1 # depth[t] /\ (depth[t] - 1) + 1 = depth[t]
    BY <1>1, <1>6 DEF Slots
  <2>2. CalledBy(top(t), c)
    BY <1>1, <1>6, <2>1 DEF Moving, Safe, Core, CallsOK
  <2>3. ExcAt(t, c)'
    BY <2>2 DEF CalledBy, ExcAt
  <2>4. Answered(t, c)' /\ SeenAt(c)'
    BY <2>2 DEF CalledBy, Answered, SeenAt
  <2>5. QED BY <2>3, <2>4
<1>7. ExcOf(t)' /\ SeenOf(t)'
  BY <1>1, <1>2, <1>6 DEF ExcOf, SeenOf
<1>8. depth'[t] # 0 => Answered(t, top(t))'
  BY <1>1, <1>6
<1>9. QED BY <1>2, <1>3, <1>4, <1>5, <1>7, <1>8 DEF Own, ReadyOf

-----------------------------------------------------------------------------
\* The same for the moves as the actions write them.
LEMMA Knows ==
    ASSUME NEW t \in Threads, Moving(t), NEW fn, NEW p, At(t, fn, p)
    PROVE  /\ Safe /\ StackType /\ depth[t] # 0 /\ stack[t] # <<>> /\ Top(t) = top(t)
           /\ Top(t).k \in Classes /\ FrameOK(Top(t)) /\ Top(t).todo \in Todos
           /\ Top(t).fn = fn /\ Top(t).pc = p
           /\ ExcAt(t, Top(t)) /\ FoundAt(t, Top(t)) /\ (ret[t] => Answered(t, Top(t)))
           /\ fn = "Init" /\ p \in PastSuper => Ready(t, Top(t).k)
           /\ \A x : exc' = [exc EXCEPT ![t] = x] => exc'[t] = x
           /\ ret[t] \in BOOLEAN
<1>1. /\ Safe /\ StackType /\ depth[t] # 0 /\ stack[t] # <<>> /\ Top(t) = top(t)
      /\ Top(t).k \in Classes /\ FrameOK(Top(t)) /\ Top(t).todo \in Todos
      /\ Top(t).fn = fn /\ Top(t).pc = p
  BY Running DEF Moving
<1>2. depth[t] \in Slots(t) /\ top(t) = fr[t][depth[t]]
  BY <1>1, Below
<1>3. ExcAt(t, Top(t)) /\ FoundAt(t, Top(t)) /\ (ret[t] => Answered(t, Top(t)))
  BY <1>1, <1>2 DEF Moving, Own, ExcOf, FoundOf, ReadyOf
<1>4. fn = "Init" /\ p \in PastSuper => Ready(t, Top(t).k)
  <2>1. \A g \in Slots(t) : g < depth[t] => g # depth[t]
    BY <1>1, Below DEF Slots
  <2>2. ReadyAt(t, depth[t])
    BY <1>2 DEF Moving, Own, ReadyOf
  <2>3. QED BY <1>1, <1>2, <2>1, <2>2 DEF ReadyAt, Ready
<1>5. (\A x : exc' = [exc EXCEPT ![t] = x] => exc'[t] = x) /\ ret[t] \in BOOLEAN
  BY <1>1 DEF Safe, TypeOK
<1>6. QED BY <1>1, <1>3, <1>4, <1>5

LEMMA PlainGoto ==
    ASSUME NEW t \in Threads, Moving(t), NEW fn, NEW p, At(t, fn, p), fn # "Verify",
           NEW pc \in Places, NEW todo \in Todos,
           \/ Goto(t, pc) /\ todo = Top(t).todo
           \/ GotoWith(t, pc, todo),
           pc \notin {"verified", "superDone", "ifaceDone", "mark"},
           fn = "Init" /\ pc \in PastSuper => p \in PastSuper \/ Ready(t, Top(t).k),
           exc'[t] = "none" \/ (fn = "Init" /\ pc \in {"clinit", "finish"})
    PROVE  Own(t)'
<1>1. PICK x : x = Frame(fn, Top(t).k, pc, todo)
  OBVIOUS
<1>2. /\ Safe /\ StackType /\ depth[t] # 0 /\ stack[t] # <<>> /\ Top(t) = top(t)
      /\ Top(t).k \in Classes /\ Top(t).fn = fn
      /\ fn = "Init" /\ p \in PastSuper => Ready(t, Top(t).k)
  BY Knows
<1>3. FrGoto(t, x) /\ x.fn = fn /\ x.k = Top(t).k /\ x.pc = pc
  BY <1>1, <1>2, GotoShape, GotoWithShape DEF Frame
<1>4. ExcAt(t, x)'
  BY <1>3 DEF ExcAt
<1>5. QED BY <1>2, <1>3, <1>4, OwnGoto DEF Plain

LEMMA PlainCall ==
    ASSUME NEW t \in Threads, Moving(t), NEW fn, NEW p, At(t, fn, p), fn # "Verify",
           NEW pc \in Places, NEW c \in Frames, Call(t, pc, c), pc # "verified",
           fn = "Init" /\ pc \in PastSuper => p \in PastSuper,
           \/ c.fn = "Init" /\ c.pc = "enter"
           \/ c.fn = "Default" /\ c.pc = "supers",
           exc'[t] = "none"
    PROVE  Own(t)'
<1>1. PICK x : x = Frame(fn, Top(t).k, pc, Top(t).todo)
  OBVIOUS
<1>2. /\ Safe /\ StackType /\ depth[t] # 0 /\ stack[t] # <<>> /\ Top(t) = top(t)
      /\ Top(t).k \in Classes /\ Top(t).fn = fn
      /\ fn = "Init" /\ p \in PastSuper => Ready(t, Top(t).k)
  BY Knows
<1>3. FrCall(t, x, c) /\ x.fn = fn /\ x.k = Top(t).k /\ x.pc = pc
  BY <1>1, <1>2, CallShape DEF Frame
<1>4. QED BY <1>2, <1>3, OwnCall DEF Plain

LEMMA PlainReturn ==
    ASSUME NEW t \in Threads, Moving(t), NEW fn, NEW p, At(t, fn, p), fn # "Verify",
           NEW v \in BOOLEAN, Return(t, v), v <=> exc'[t] = "none",
           NEW k, k = Top(t).k, v /\ fn = "Init" => Returned(t, k)'
    PROVE  Own(t)'
<1>1. /\ Safe /\ StackType /\ depth[t] # 0 /\ stack[t] # <<>> /\ Top(t) = top(t) /\ Top(t).fn = fn
  BY Knows
<1>2. FrReturn(t) /\ ret' = [ret EXCEPT ![t] = v]
  BY <1>1, ReturnShape
<1>3. QED BY <1>1, <1>2, OwnReturn

LEMMA CheckGotoOwn ==
    ASSUME NEW t \in Threads, Moving(t), NEW p, At(t, "Verify", p), p # "lock",
           NEW pc \in Places \ {"lock"}, NEW todo \in Todos,
           \/ Goto(t, pc) /\ todo = Top(t).todo
           \/ GotoWith(t, pc, todo),
           UNCHANGED owner,
           NEW x, x = Frame("Verify", Top(t).k, pc, todo), FoundAt(t, x)', ExcAt(t, x)'
    PROVE  Own(t)'
<1>1. /\ Safe /\ StackType /\ depth[t] # 0 /\ stack[t] # <<>> /\ Top(t) = top(t)
      /\ Top(t).k \in Classes /\ Top(t).fn = "Verify" /\ Top(t).pc = p
  BY Knows
<1>2. FrGoto(t, x) /\ x.fn = "Verify" /\ x.k = top(t).k /\ x.pc = pc
  BY <1>1, GotoShape, GotoWithShape DEF Frame
<1>3. Keeper(t) => owner'[top(t).k] = t
  BY <1>1, KeeperLock
<1>4. QED BY <1>1, <1>2, <1>3, OwnVerifyGoto

-----------------------------------------------------------------------------
\* InitializeClass, action by action.
LEMMA EnterOwn ==
    ASSUME NEW t \in Threads, Moving(t), InitEnter(t)
    PROVE  Own(t)'
<1>1. At(t, "Init", "enter") /\ exc' = exc /\ UNCHANGED <<status, clinitTid>>
  BY DEF InitEnter, cvars
<1>2. Top(t).k \in Classes /\ Top(t).todo \in Todos /\ exc[t] = "none"
  BY <1>1, Knows DEF ExcAt
<1>3. CASE IsInitialized(Top(t).k) /\ Return(t, TRUE)
  <2>1. PICK k : k = Top(t).k
    OBVIOUS
  <2>2. Returned(t, k)'
    BY <1>1, <1>3, <2>1 DEF Returned, IsInitialized
  <2>3. QED BY <1>1, <1>2, <1>3, <2>1, <2>2, PlainReturn
<1>4. CASE Goto(t, "lock")
  BY <1>1, <1>2, <1>4, PlainGoto DEF Places, PastSuper
<1>5. QED BY <1>3, <1>4 DEF InitEnter

LEMMA ClaimOwn ==
    ASSUME NEW t \in Threads, Moving(t), NEW p \in {"lock", "verified"}, At(t, "Init", p),
           Claim(t, Top(t).k), exc[t] = "none"
    PROVE  Own(t)'
<1>1. PICK k : k = Top(t).k
  OBVIOUS
<1>2. /\ k \in Classes /\ Top(t).todo \in Todos
      /\ \A x : exc' = [exc EXCEPT ![t] = x] => exc'[t] = x
  BY <1>1, Knows
<1>3. CASE IsInitialized(k) /\ Return(t, TRUE) /\ UNCHANGED <<cvars, exc>>
  BY <1>1, <1>3, PlainReturn DEF Returned, IsInitialized, cvars
<1>4. CASE status[k] = "kInitializing" /\ clinitTid[k] = t /\ Return(t, TRUE) /\ UNCHANGED <<cvars, exc>>
  BY <1>1, <1>4, PlainReturn DEF Returned, cvars
<1>5. CASE Goto(t, "waiting") /\ UNCHANGED exc
  BY <1>2, <1>5, PlainGoto DEF Places, PastSuper
<1>6. CASE Throw(t, "LinkageError") /\ Return(t, FALSE)
  <2>1. exc'[t] # "none"
    BY <1>2, <1>6 DEF Throw
  <2>2. QED BY <1>1, <1>6, <2>1, PlainReturn
<1>7. CASE Goto(t, "super") /\ UNCHANGED exc
  BY <1>2, <1>7, PlainGoto DEF Places, PastSuper, AfterClaim
<1>8. QED BY <1>1, <1>3, <1>4, <1>5, <1>6, <1>7 DEF Claim

LEMMA LockOwn ==
    ASSUME NEW t \in Threads, Moving(t), InitLock(t)
    PROVE  Own(t)'
<1>1. At(t, "Init", "lock")
  BY DEF InitLock
<1>2. PICK k : k = Top(t).k
  OBVIOUS
<1>3. /\ Safe /\ StackType /\ depth[t] # 0 /\ stack[t] # <<>> /\ Top(t) = top(t) /\ Top(t).fn = "Init"
      /\ k \in Classes /\ Top(t).todo \in Todos /\ exc[t] = "none"
      /\ \A x : exc' = [exc EXCEPT ![t] = x] => exc'[t] = x
  BY <1>1, <1>2, Knows DEF ExcAt
<1>4. CASE Throw(t, EarlierFailure(TRUE)) /\ Return(t, FALSE)
  <2>1. exc'[t] # "none"
    BY <1>3, <1>4 DEF Throw, EarlierFailure
  <2>2. QED BY <1>1, <1>2, <1>4, <2>1, PlainReturn
<1>5. CASE owner' = [owner EXCEPT ![k] = t] /\ Call(t, "verified", VerifyFrame(k)) /\ UNCHANGED exc
  <2>1. PICK x, c : x = Frame("Init", k, "verified", Top(t).todo) /\ c = VerifyFrame(k)
    OBVIOUS
  <2>2. /\ x.fn = "Init" /\ x.k = k /\ x.pc = "verified" /\ c \in Frames
        /\ c.fn = "Verify" /\ c.pc = "lock" /\ c.todo = <<>>
    BY <1>3, <2>1 DEF Frame, VerifyFrame, Frames, Places, Todos
  <2>3. FrCall(t, x, c)
    BY <1>2, <1>3, <1>5, <2>1, <2>2, CallShape DEF Places
  <2>4. /\ Low(t) /\ depth'[t] = depth[t] + 1 /\ Slots(t)' = Slots(t) \union {depth[t] + 1}
        /\ fr'[t][depth[t]] = x /\ fr'[t][depth[t] + 1] = c /\ top(t)' = c
        /\ depth[t] \in Slots(t) /\ depth[t] \in Nat \ {0} /\ top(t) = fr[t][depth[t]]
        /\ \A h \in Slots(t) : h # depth[t] =>
               fr[t][h].fn # "Verify" /\ ~(fr[t][h].fn = "Init" /\ fr[t][h].pc = "verified")
    BY <1>3, <2>3, Lows, Below
  <2>5. \A h \in Slots(t)' : ReadyAt(t, h)'
    BY <1>3, <2>2, <2>4, ReadyKeep DEF PastSuper
  <2>6. owner'[k] = t
    BY <1>3, <1>5 DEF Safe, TypeOK
  <2>7. LockOf(t)'
    <3>1. \A h \in Slots(t)' : fr'[t][h].fn = "Init" /\ fr'[t][h].pc = "verified" => fr'[t][h] = x
      BY <2>2, <2>4 DEF Low
    <3>2. QED BY <2>2, <2>6, <3>1 DEF LockOf
  <2>8. FoundOf(t)'
    <3>1. \A h \in Slots(t)' : fr'[t][h].fn = "Verify" => fr'[t][h].pc = "lock"
      BY <2>2, <2>4 DEF Low
    <3>2. QED BY <3>1 DEF FoundOf, FoundAt
  <2>9. SeenOf(t)' /\ ExcOf(t)' /\ Answered(t, top(t))'
    BY <1>3, <1>5, <2>2, <2>4 DEF SeenOf, SeenAt, ExcOf, ExcAt, Answered
  <2>10. QED BY <2>5, <2>7, <2>8, <2>9 DEF Own, ReadyOf
<1>6. CASE Claim(t, k)
  BY <1>1, <1>2, <1>3, <1>6, ClaimOwn
<1>7. QED BY <1>2, <1>4, <1>5, <1>6 DEF InitLock

LEMMA VerifiedOwn ==
    ASSUME NEW t \in Threads, Moving(t), InitVerified(t)
    PROVE  Own(t)'
<1>1. At(t, "Init", "verified")
  BY DEF InitVerified
<1>2. PICK k : k = Top(t).k
  OBVIOUS
<1>3. /\ k \in Classes /\ status[k] \in Statuses /\ (IsErroneous(k) <=> exc[t] # "none")
      /\ \A x : exc' = [exc EXCEPT ![t] = x] => exc'[t] = x
  BY <1>1, <1>2, Knows DEF ExcAt, Safe, TypeOK
<1>4. CASE /\ IsErroneous(k) /\ Return(t, FALSE)
           /\ IF exc[t] = "none" THEN Throw(t, EarlierFailure(TRUE)) ELSE UNCHANGED exc
  <2>1. exc'[t] # "none"
    BY <1>3, <1>4
  <2>2. QED BY <1>1, <1>2, <1>4, <2>1, PlainReturn
<1>5. CASE IsVerified(k) /\ Claim(t, k)
  <2>1. ~IsErroneous(k)
    BY <1>5 DEF IsVerified, IsErroneous, Rank
  <2>2. QED BY <1>1, <1>2, <1>3, <1>5, <2>1, ClaimOwn
<1>6. QED BY <1>2, <1>4, <1>5 DEF InitVerified

LEMMA WaitingOwn ==
    ASSUME NEW t \in Threads, Moving(t), WaitForInitializeClass(t)
    PROVE  Own(t)'
<1>1. At(t, "Init", "waiting") /\ UNCHANGED <<status, clinitTid>>
  BY DEF WaitForInitializeClass, cvars
<1>2. PICK k : k = Top(t).k
  OBVIOUS
<1>3. /\ Safe /\ StackType /\ depth[t] # 0 /\ Top(t) = top(t) /\ Top(t).fn = "Init" /\ Top(t).pc = "waiting"
      /\ k \in Classes /\ exc[t] = "none"
      /\ \A x : exc' = [exc EXCEPT ![t] = x] => exc'[t] = x
  BY <1>1, <1>2, Knows DEF ExcAt
<1>4. CASE UNCHANGED <<stack, ret, exc>>
  <2>1. PICK x : x = top(t)
    OBVIOUS
  <2>2. FrGoto(t, x)
    BY <1>3, <1>4, <2>1 DEF FrGoto, depth, fr, top
  <2>3. ExcAt(t, x)'
    BY <1>3, <1>4, <2>1 DEF ExcAt
  <2>4. QED BY <1>2, <1>3, <2>1, <2>2, <2>3, OwnGoto DEF Plain, PastSuper
<1>5. CASE Throw(t, "NoClassDefFoundError") /\ Return(t, FALSE)
  <2>1. exc'[t] # "none"
    BY <1>3, <1>5 DEF Throw
  <2>2. QED BY <1>1, <1>2, <1>5, <2>1, PlainReturn
<1>6. CASE IsInitialized(k) /\ Return(t, TRUE) /\ UNCHANGED exc
  <2>1. Returned(t, k)'
    BY <1>1, <1>6 DEF Returned, IsInitialized
  <2>2. QED BY <1>1, <1>2, <1>3, <1>6, <2>1, PlainReturn
<1>7. QED BY <1>2, <1>4, <1>5, <1>6 DEF WaitForInitializeClass

LEMMA SuperOwn ==
    ASSUME NEW t \in Threads, Moving(t), InitSuper(t)
    PROVE  Own(t)'
<1>1. At(t, "Init", "super") /\ exc' = exc
  BY DEF InitSuper
<1>2. Top(t).k \in Classes /\ exc[t] = "none"
  BY <1>1, Knows DEF ExcAt
<1>3. CASE Super[Top(t).k] # NoClass /\ Call(t, "superDone", InitFrame(Super[Top(t).k]))
  <2>1. InitFrame(Super[Top(t).k]) \in Frames
    BY <1>2, <1>3, InitAssumption DEF InitFrame, Frame, Frames, Places, Todos
  <2>2. QED BY <1>1, <1>2, <1>3, <2>1, PlainCall DEF Places, AfterClaim, PastSuper, InitFrame, Frame
<1>4. CASE /\ ~(Top(t).k \notin Interfaces /\ Super[Top(t).k] # NoClass /\ ~IsInitialized(Super[Top(t).k]))
           /\ GotoWith(t, "ifaces", IF Top(t).k \in Interfaces THEN <<>> ELSE Direct[Top(t).k])
  <2>1. (IF Top(t).k \in Interfaces THEN <<>> ELSE Direct[Top(t).k]) \in Todos
    BY <1>2, InitAssumption DEF Todos
  <2>2. Ready(t, Top(t).k)
    BY <1>2, <1>4, InitAssumption DEF Ready
  <2>3. QED BY <1>1, <1>2, <1>4, <2>1, <2>2, PlainGoto DEF Places, AfterClaim
<1>5. QED BY <1>3, <1>4 DEF InitSuper

LEMMA ParentFailOwn ==
    ASSUME NEW t \in Threads, Moving(t), NEW p, At(t, "Init", p),
           FailFromParent(t, Top(t).k), exc[t] # "none"
    PROVE  Own(t)'
<1>1. PICK k : k = Top(t).k
  OBVIOUS
<1>2. Return(t, FALSE) /\ exc' = exc
  BY DEF FailFromParent
<1>3. QED BY <1>1, <1>2, PlainReturn

LEMMA SuperDoneOwn ==
    ASSUME NEW t \in Threads, Moving(t), InitSuperDone(t)
    PROVE  Own(t)'
<1>1. At(t, "Init", "superDone")
  BY DEF InitSuperDone
<1>2. PICK k : k = Top(t).k
  OBVIOUS
<1>3. /\ Safe /\ depth[t] # 0 /\ Top(t) = top(t) /\ k \in Classes
      /\ Top(t).fn = "Init" /\ Top(t).pc = "superDone"
      /\ ret[t] <=> exc[t] = "none"
      /\ ret[t] => Returned(t, Super[k])
      /\ Super[k] # NoClass
  BY <1>1, <1>2, Knows DEF ExcAt, Answered, FrameOK
<1>4. CASE ret[t] /\ GotoWith(t, "ifaces", Direct[k]) /\ UNCHANGED exc
  <2>1. Direct[k] \in Todos
    BY <1>3, InitAssumption DEF Todos
  <2>2. Ready(t, k)
    <3>1. Super[k] \in Classes /\ Super[k] # k
      <4>1. Super[k] \in Classes /\ Super[k] \in Above(k) /\ k \notin Above(k)
        BY <1>3, InitAssumption, AboveFacts DEF Parents
      <4>2. QED BY <4>1
    <3>2. CASE IsInitialized(Super[k])
      BY <3>2 DEF Ready
    <3>3. CASE status[Super[k]] = "kInitializing" /\ clinitTid[Super[k]] = t
      <4>1. \E h \in Slots(t) : Claimed(fr[t][h]) /\ fr[t][h].k = Super[k]
        BY <1>3, <3>1, <3>3 DEF Safe, Core, ClaimsOK
      <4>2. fr[t][depth[t]].k = k
        BY <1>2, <1>3 DEF top
      <4>3. QED BY <3>1, <4>1, <4>2 DEF Ready
    <3>4. QED BY <1>3, <1>4, <3>2, <3>3 DEF Returned
  <2>3. QED BY <1>1, <1>2, <1>3, <1>4, <2>1, <2>2, PlainGoto DEF Places, AfterClaim
<1>5. CASE ~ret[t] /\ FailFromParent(t, k)
  BY <1>1, <1>2, <1>3, <1>5, ParentFailOwn
<1>6. QED BY <1>2, <1>4, <1>5 DEF InitSuperDone

LEMMA IfacesOwn ==
    ASSUME NEW t \in Threads, Moving(t), InitIfaces(t)
    PROVE  Own(t)'
<1> DEFINE todo == Top(t).todo
<1>1. At(t, "Init", "ifaces") /\ exc' = exc
  BY DEF InitIfaces
<1>2. Top(t).k \in Classes /\ todo \in Todos /\ todo \in Seq(Interfaces) /\ exc[t] = "none"
  BY <1>1, Knows DEF ExcAt, FrameOK
<1>3. CASE Goto(t, "statics")
  BY <1>1, <1>2, <1>3, PlainGoto DEF Places, AfterClaim, PastSuper
<1>4. CASE todo # <<>> /\ GotoWith(t, "ifaces", Tail(todo))
  <2>1. Tail(todo) \in Todos
    BY <1>2, <1>4, InitAssumption DEF Todos
  <2>2. QED BY <1>1, <1>2, <1>4, <2>1, PlainGoto DEF Places, AfterClaim, PastSuper
<1>5. CASE todo # <<>> /\ Call(t, "ifaceDone", DefaultFrame(Head(todo)))
  <2>1. DefaultFrame(Head(todo)) \in Frames
    <3>1. Head(todo) \in Interfaces /\ Head(todo) \in Classes /\ Direct[Head(todo)] \in Todos
      BY <1>2, <1>5, InitAssumption DEF Todos
    <3>2. QED BY <3>1 DEF DefaultFrame, Frame, Frames, Places
  <2>2. QED BY <1>1, <1>2, <1>5, <2>1, PlainCall DEF Places, AfterClaim, PastSuper, DefaultFrame, Frame
<1>6. QED BY <1>3, <1>4, <1>5 DEF InitIfaces

LEMMA IfaceDoneOwn ==
    ASSUME NEW t \in Threads, Moving(t), InitIfaceDone(t)
    PROVE  Own(t)'
<1> DEFINE todo == Top(t).todo
<1>1. At(t, "Init", "ifaceDone")
  BY DEF InitIfaceDone
<1>2. Top(t).k \in Classes /\ todo \in Seq(Interfaces) /\ todo # <<>> /\ (ret[t] <=> exc[t] = "none")
  BY <1>1, Knows DEF ExcAt, FrameOK
<1>3. CASE ret[t] /\ GotoWith(t, "ifaces", Tail(todo)) /\ UNCHANGED exc
  <2>1. Tail(todo) \in Todos
    BY <1>2, InitAssumption DEF Todos
  <2>2. QED BY <1>1, <1>2, <1>3, <2>1, PlainGoto DEF Places, AfterClaim, PastSuper
<1>4. CASE ~ret[t] /\ FailFromParent(t, Top(t).k)
  BY <1>1, <1>2, <1>4, ParentFailOwn
<1>5. QED BY <1>3, <1>4 DEF InitIfaceDone

LEMMA StaticsOwn ==
    ASSUME NEW t \in Threads, Moving(t), InitStatics(t)
    PROVE  Own(t)'
<1>1. At(t, "Init", "statics")
  BY DEF InitStatics
<1>2. Top(t).k \in Classes /\ Top(t).todo \in Todos /\ exc[t] = "none"
  BY <1>1, Knows DEF ExcAt
<1>3. CASE GotoWith(t, "clinit", Touches[Top(t).k])
  <2>1. Touches[Top(t).k] \in Todos
    BY <1>2, InitAssumption DEF Todos
  <2>2. QED BY <1>1, <1>3, <2>1, PlainGoto DEF Places, AfterClaim, PastSuper
<1>4. CASE Goto(t, "finish")
  BY <1>1, <1>2, <1>4, PlainGoto DEF Places, AfterClaim, PastSuper
<1>5. QED BY <1>3, <1>4 DEF InitStatics

LEMMA ClinitOwn ==
    ASSUME NEW t \in Threads, Moving(t), Clinit(t)
    PROVE  Own(t)'
<1> DEFINE todo == Top(t).todo
<1>1. At(t, "Init", "clinit")
  BY DEF Clinit
<1>2. /\ Safe /\ StackType /\ depth[t] # 0 /\ stack[t] # <<>> /\ Top(t) = top(t) /\ Top(t).fn = "Init"
      /\ Top(t).pc = "clinit" /\ Top(t).k \in Classes /\ todo \in Todos /\ todo \in Seq(Classes)
      /\ Ready(t, Top(t).k)
  BY <1>1, Knows DEF FrameOK, PastSuper
<1>3. CASE /\ todo # <<>> /\ exc[t] = "none" /\ UNCHANGED exc
           /\ stack' = [stack EXCEPT ![t] = <<InitFrame(Head(todo))>> \o MovedWith(t, "clinit", Tail(todo))]
  <2>1. PICK x, c : x = Frame("Init", Top(t).k, "clinit", Tail(todo)) /\ c = InitFrame(Head(todo))
    OBVIOUS
  <2>2. x \in Frames /\ c \in Frames /\ x.fn = "Init" /\ x.k = Top(t).k /\ x.pc = "clinit"
        /\ c.fn = "Init" /\ c.pc = "enter"
    <3>1. Head(todo) \in Classes /\ Tail(todo) \in Todos
      BY <1>2, <1>3 DEF Todos
    <3>2. QED BY <1>2, <2>1, <3>1 DEF Frame, InitFrame, Frames, Places, AfterClaim, Todos
  <2>3. stack' = [stack EXCEPT ![t] = <<c>> \o (<<x>> \o Tail(stack[t]))]
    BY <1>2, <1>3, <2>1 DEF MovedWith
  <2>4. FrCall(t, x, c)
    BY <1>2, <2>2, <2>3, Calls
  <2>5. QED BY <1>2, <1>3, <2>2, <2>4, OwnCall DEF Plain
<1>4. CASE Goto(t, "finish")
  BY <1>1, <1>2, <1>4, PlainGoto DEF Places, AfterClaim, PastSuper
<1>5. CASE UNCHANGED <<stack, ret>>
  <2>1. PICK x : x = top(t)
    OBVIOUS
  <2>2. FrGoto(t, x)
    BY <1>2, <1>5, <2>1 DEF FrGoto, depth, fr, top
  <2>3. ExcAt(t, x)'
    BY <1>2, <2>1 DEF ExcAt
  <2>4. QED BY <1>2, <2>1, <2>2, <2>3, OwnGoto DEF Plain
<1>6. QED BY <1>3, <1>4, <1>5 DEF Clinit

LEMMA FinishOwn ==
    ASSUME NEW t \in Threads, Moving(t), InitFinish(t)
    PROVE  Own(t)'
<1>1. At(t, "Init", "finish")
  BY DEF InitFinish
<1>2. PICK k : k = Top(t).k
  OBVIOUS
<1>3. /\ k \in Classes /\ \A x : exc' = [exc EXCEPT ![t] = x] => exc'[t] = x
      /\ status \in [Classes -> Statuses]
  BY <1>1, <1>2, Knows DEF Safe, TypeOK
<1>4. CASE exc[t] = "none"
  <2>1. Return(t, TRUE) /\ exc' = exc /\ SetStatus(k, "kInitialized")
    BY <1>2, <1>4 DEF InitFinish
  <2>2. Returned(t, k)'
    BY <1>3, <2>1 DEF SetStatus, Returned, IsInitialized
  <2>3. QED BY <1>1, <1>2, <1>4, <2>1, <2>2, PlainReturn
<1>5. CASE exc[t] # "none"
  <2>1. Return(t, FALSE) /\ Throw(t, "ExceptionInInitializerError")
    BY <1>5 DEF InitFinish
  <2>2. exc'[t] # "none"
    BY <1>3, <2>1 DEF Throw
  <2>3. QED BY <1>1, <1>2, <2>1, <2>2, PlainReturn
<1>6. QED BY <1>4, <1>5

-----------------------------------------------------------------------------
\* InitializeDefaultInterfaceRecursive.
LEMMA DefaultSupersOwn ==
    ASSUME NEW t \in Threads, Moving(t), DefaultSupers(t)
    PROVE  Own(t)'
<1> DEFINE todo == Top(t).todo
<1>1. At(t, "Default", "supers") /\ exc' = exc
  BY DEF DefaultSupers
<1>2. /\ Safe /\ StackType /\ depth[t] # 0 /\ stack[t] # <<>> /\ Top(t) = top(t)
      /\ Top(t).fn = "Default" /\ Top(t).k \in Classes /\ todo \in Todos /\ todo \in Seq(Interfaces)
      /\ exc[t] = "none"
  BY <1>1, Knows DEF ExcAt, FrameOK
<1>3. CASE Top(t).k \in HasDefault /\ Call(t, "mark", InitFrame(Top(t).k))
  <2>1. InitFrame(Top(t).k) \in Frames
    BY <1>2 DEF InitFrame, Frame, Frames, Places, Todos
  <2>2. InitFrame(Top(t).k).fn = "Init" /\ InitFrame(Top(t).k).pc = "enter"
    BY DEF InitFrame, Frame
  <2>3. "mark" \in Places /\ exc'[t] = "none"
    BY <1>1, <1>2 DEF Places
  <2>4. QED BY <1>1, <1>3, <2>1, <2>2, <2>3, PlainCall
<1>4. CASE /\ Top(t).k \notin HasDefault
           /\ stack' = [stack EXCEPT ![t] = Moved(t, "mark")] /\ ret' = [ret EXCEPT ![t] = TRUE]
  <2>1. PICK x : x = Frame("Default", Top(t).k, "mark", todo)
    OBVIOUS
  <2>2. x \in Frames /\ [Top(t) EXCEPT !.pc = "mark"] = x /\ x.fn = "Default" /\ x.k = Top(t).k /\ x.pc = "mark"
    <3>1. Top(t) \in Frames
      BY <1>2, Below
    <3>2. QED BY <1>2, <2>1, <3>1 DEF Frame, Frames, Places
  <2>3. FrGoto(t, x)
    BY <1>2, <1>4, <2>2, Gotos DEF Moved
  <2>4. ret'[t] = TRUE
    BY <1>2, <1>4 DEF Safe, TypeOK
  <2>5. ExcAt(t, x)'
    BY <1>1, <1>2, <2>2, <2>4 DEF ExcAt
  <2>6. QED BY <1>2, <1>4, <2>2, <2>3, <2>5, OwnGoto DEF Plain
<1>5. CASE todo # <<>> /\ GotoWith(t, "supers", Tail(todo))
  <2>1. Tail(todo) \in Todos
    BY <1>2, <1>5, InitAssumption DEF Todos
  <2>2. QED BY <1>1, <1>2, <1>5, <2>1, PlainGoto DEF Places
<1>6. CASE todo # <<>> /\ Call(t, "superDone", DefaultFrame(Head(todo)))
  <2>1. DefaultFrame(Head(todo)) \in Frames
    <3>1. Head(todo) \in Interfaces /\ Head(todo) \in Classes /\ Direct[Head(todo)] \in Todos
      BY <1>2, <1>6, InitAssumption DEF Todos
    <3>2. QED BY <3>1 DEF DefaultFrame, Frame, Frames, Places
  <2>2. QED BY <1>1, <1>2, <1>6, <2>1, PlainCall DEF Places, AfterClaim, DefaultFrame, Frame
<1>7. QED BY <1>3, <1>4, <1>5, <1>6 DEF DefaultSupers

LEMMA DefaultSuperDoneOwn ==
    ASSUME NEW t \in Threads, Moving(t), DefaultSuperDone(t)
    PROVE  Own(t)'
<1>1. At(t, "Default", "superDone") /\ exc' = exc
  BY DEF DefaultSuperDone
<1>2. PICK k : k = Top(t).k
  OBVIOUS
<1>3. Top(t).todo \in Seq(Interfaces) /\ Top(t).todo # <<>> /\ (ret[t] <=> exc[t] = "none")
  BY <1>1, Knows DEF ExcAt, FrameOK
<1>4. CASE ret[t] /\ GotoWith(t, "supers", Tail(Top(t).todo))
  <2>1. Tail(Top(t).todo) \in Todos
    BY <1>3, InitAssumption DEF Todos
  <2>2. QED BY <1>1, <1>3, <1>4, <2>1, PlainGoto DEF Places
<1>5. CASE ~ret[t] /\ Return(t, FALSE)
  BY <1>1, <1>2, <1>3, <1>5, PlainReturn
<1>6. QED BY <1>4, <1>5 DEF DefaultSuperDone

LEMMA DefaultMarkOwn ==
    ASSUME NEW t \in Threads, Moving(t), DefaultMark(t)
    PROVE  Own(t)'
<1>1. At(t, "Default", "mark") /\ exc' = exc /\ Return(t, ret[t])
  BY DEF DefaultMark
<1>2. PICK k, v : k = Top(t).k /\ v = ret[t]
  OBVIOUS
<1>3. v \in BOOLEAN /\ (v <=> exc[t] = "none")
  BY <1>1, <1>2, Knows DEF ExcAt
<1>4. QED BY <1>1, <1>2, <1>3, PlainReturn

-----------------------------------------------------------------------------
\* VerifyClass.
LEMMA VerifyLockOwn ==
    ASSUME NEW t \in Threads, Moving(t), VerifyLock(t)
    PROVE  Own(t)'
<1>1. At(t, "Verify", "lock")
  BY DEF VerifyLock
<1>2. PICK k : k = Top(t).k
  OBVIOUS
<1>3. /\ Safe /\ StackType /\ depth[t] # 0 /\ stack[t] # <<>> /\ Top(t) = top(t) /\ Top(t).fn = "Verify"
      /\ k \in Classes /\ exc[t] = "none" /\ status[k] \in Statuses
      /\ \A x : exc' = [exc EXCEPT ![t] = x] => exc'[t] = x
      /\ owner \in [Classes -> Threads \union {NoThread}]
  <2>1. /\ Safe /\ StackType /\ depth[t] # 0 /\ stack[t] # <<>> /\ Top(t) = top(t) /\ Top(t).fn = "Verify"
        /\ k \in Classes /\ Top(t).pc = "lock" /\ ExcAt(t, Top(t))
        /\ \A x : exc' = [exc EXCEPT ![t] = x] => exc'[t] = x
    BY <1>1, <1>2, Knows
  <2>4. exc[t] = "none"
    BY <2>1 DEF ExcAt
  <2>2. status[k] \in Statuses /\ owner \in [Classes -> Threads \union {NoThread}]
    BY <2>1 DEF Safe, TypeOK
  <2>3. QED BY <2>1, <2>2, <2>4
<1>4. Relock(t, k) => \A j \in Classes \ {k} : owner'[j] = owner[j]
  BY <1>3 DEF Relock
<1>5. Relock(t, k) /\ Keeper(t) => owner'[k] = t
  <2>1. ASSUME Keeper(t) PROVE KeepsLock(t, k)
    <3> DEFINE h == depth[t] - 1
    <3>1. depth[t] \in Nat \ {0} /\ top(t) = fr[t][depth[t]]
      BY <1>3, Below
    <3>2. h \in Slots(t) /\ h # depth[t] /\ h + 1 = depth[t] /\ fr[t][h].fn = "Init" /\ fr[t][h].pc = "verified"
      BY <2>1, <3>1 DEF Keeper
    <3>3. fr[t][h].k = k
      BY <1>2, <1>3, <3>1, <3>2, Below
    <3>4. \E i \in DOMAIN stack[t] : stack[t][i] = fr[t][h]
      BY <1>3, <3>2, FrType DEF Slots
    <3>5. QED BY <3>2, <3>3, <3>4 DEF KeepsLock
  <2>2. QED BY <1>3, <2>1 DEF Relock
<1>6. CASE Wait(t, k) /\ GotoWith(t, "lock", <<status[k]>>) /\ UNCHANGED <<cvars, exc>>
  <2>1. PICK x : x = Frame("Verify", k, "lock", <<status[k]>>)
    OBVIOUS
  <2>2. x.fn = "Verify" /\ x.k = top(t).k /\ x.pc = "lock" /\ x.todo = <<status'[x.k]>> /\ status'[x.k] \in Statuses
    BY <1>2, <1>3, <1>6, <2>1 DEF Frame, cvars
  <2>3. FrGoto(t, x)
    <3>1. "lock" \in Places /\ <<status[k]>> \in Todos
      BY <1>3 DEF Places, Todos
    <3>2. QED BY <1>2, <1>3, <1>6, <2>1, <3>1, GotoWithShape
  <2>4. \A j \in Classes \ {top(t).k} : owner'[j] = owner[j]
    BY <1>2, <1>3, <1>6 DEF Wait
  <2>5. FoundAt(t, x)' /\ ExcAt(t, x)'
    BY <1>3, <1>6, <2>2 DEF FoundAt, ExcAt
  <2>6. x.todo # <<>> => Head(x.todo) = status'[x.k]
    BY <2>2
  <2>7. QED BY <1>3, <2>2, <2>3, <2>4, <2>5, <2>6, OwnVerifyGoto
<1>7. CASE IsErroneous(k) /\ Throw(t, EarlierFailure(FALSE)) /\ Return(t, FALSE) /\ Relock(t, k) /\ UNCHANGED cvars
  <2>1. exc'[t] # "none"
    BY <1>3, <1>7 DEF Throw, EarlierFailure
  <2>2. IsErroneous(k)' /\ Done(k)'
    BY <1>7 DEF IsErroneous, Done, cvars
  <2>3. FrReturn(t) /\ ret' = [ret EXCEPT ![t] = FALSE]
    BY <1>3, <1>7, ReturnShape
  <2>4. QED BY <1>2, <1>3, <1>4, <1>5, <1>7, <2>1, <2>2, <2>3, OwnVerifyReturn
<1>8. CASE IsVerified(k) /\ Return(t, TRUE) /\ Relock(t, k) /\ UNCHANGED <<status, exc>>
  <2>1. ~IsErroneous(k)' /\ Done(k)'
    BY <1>3, <1>8 DEF IsErroneous, IsVerified, Done, Rank
  <2>2. FrReturn(t) /\ ret' = [ret EXCEPT ![t] = TRUE]
    BY <1>3, <1>8, ReturnShape
  <2>3. QED BY <1>2, <1>3, <1>4, <1>5, <1>8, <2>1, <2>2, OwnVerifyReturn
<1>9. CASE GotoWith(t, "super", <<>>) /\ Relock(t, k) /\ UNCHANGED exc
  <2>1. PICK x : x = Frame("Verify", k, "super", <<>>)
    OBVIOUS
  <2>2. x.fn = "Verify" /\ x.k = top(t).k /\ x.pc = "super"
    BY <1>2, <1>3, <2>1 DEF Frame
  <2>3. FrGoto(t, x)
    <3>1. "super" \in Places /\ <<>> \in Todos
      BY DEF Places, AfterClaim, Todos
    <3>2. QED BY <1>2, <1>3, <1>9, <2>1, <3>1, GotoWithShape
  <2>4. FoundAt(t, x)' /\ ExcAt(t, x)'
    BY <1>3, <1>9, <2>2 DEF FoundAt, ExcAt
  <2>5. QED BY <1>2, <1>3, <1>4, <1>5, <1>9, <2>2, <2>3, <2>4, OwnVerifyGoto
<1>10. QED BY <1>2, <1>6, <1>7, <1>8, <1>9 DEF VerifyLock

\* The call of VerifyClass for a supertype s, or its outcome without a call.
LEMMA AttemptOwn ==
    ASSUME NEW t \in Threads, Moving(t), NEW p, At(t, "Verify", p), p # "lock",
           NEW s \in Classes, NEW after \in {"superDone", "ifaceDone"}, Attempt(t, s, after),
           after = "superDone" => s = Super[Top(t).k],
           after = "ifaceDone" => s = Head(Top(t).todo) /\ p = "ifaces",
           UNCHANGED <<owner, exc, status>>, exc[t] = "none"
    PROVE  Own(t)'
<1>1. PICK x : x = Frame("Verify", Top(t).k, after, Top(t).todo)
  OBVIOUS
<1>2. /\ Safe /\ StackType /\ depth[t] # 0 /\ stack[t] # <<>> /\ Top(t) = top(t) /\ Top(t).fn = "Verify"
      /\ Top(t).pc = p /\ Top(t).k \in Classes /\ Top(t).todo \in Todos /\ FoundAt(t, Top(t))
      /\ status[s] \in Statuses
  BY Knows DEF Safe, TypeOK
<1>3. x.fn = "Verify" /\ x.k = Top(t).k /\ x.pc = after /\ x.todo = Top(t).todo
  BY <1>1 DEF Frame
<1>4. FoundAt(t, x)'
  <2>1. after = "ifaceDone" /\ Super[x.k] # NoClass => Found(t, Super[x.k])
    BY <1>2, <1>3 DEF FoundAt
  <2>2. Super[x.k] # NoClass => Super[x.k] \in Classes
    BY <1>2, <1>3, InitAssumption
  <2>3. \A c \in Classes : Found(t, c) => Found(t, c)'
    BY <1>2, FoundKeep
  <2>4. QED BY <1>3, <2>1, <2>2, <2>3 DEF FoundAt
<1>5. CASE Call(t, after, VerifyFrame(s))
  <2>1. PICK c : c = VerifyFrame(s)
    OBVIOUS
  <2>2. c \in Frames /\ c.fn = "Verify" /\ c.pc = "lock" /\ c.todo = <<>>
    BY <2>1 DEF VerifyFrame, Frame, Frames, Places, Todos
  <2>3. FrCall(t, x, c)
    BY <1>1, <1>2, <1>5, <2>1, <2>2, CallShape DEF Places, AfterClaim
  <2>4. QED BY <1>2, <1>3, <1>4, <2>2, <2>3, OwnVerifyCall
<1>6. CASE Goto(t, after) /\ (IsVerified(s) \/ IsErroneous(s))
  <2>1. Done(s)'
    BY <1>6 DEF Done, IsVerified, IsErroneous
  <2>2. ExcAt(t, x)'
    BY <1>3, <2>1 DEF ExcAt, Done, IsVerified, IsErroneous
  <2>3. after \in Places \ {"lock"}
    BY DEF Places, AfterClaim
  <2>4. QED BY <1>1, <1>2, <1>4, <1>6, <2>2, <2>3, CheckGotoOwn
<1>7. QED BY <1>5, <1>6 DEF Attempt

LEMMA VerifySuperOwn ==
    ASSUME NEW t \in Threads, Moving(t), VerifySuper(t)
    PROVE  Own(t)'
<1>1. At(t, "Verify", "super") /\ UNCHANGED <<owner, exc, status>>
  BY DEF VerifySuper, cvars
<1>2. PICK k : k = Top(t).k
  OBVIOUS
<1>3. k \in Classes /\ Top(t).todo \in Todos /\ exc[t] = "none"
  BY <1>1, <1>2, Knows DEF ExcAt
<1>4. CASE Super[k] = NoClass /\ Goto(t, "superOk")
  <2>1. PICK x : x = Frame("Verify", k, "superOk", Top(t).todo)
    OBVIOUS
  <2>2. x.fn = "Verify" /\ x.k = k /\ x.pc = "superOk"
    BY <2>1 DEF Frame
  <2>3. FoundAt(t, x)' /\ ExcAt(t, x)'
    BY <1>1, <1>3, <1>4, <2>2 DEF FoundAt, ExcAt
  <2>4. QED BY <1>1, <1>2, <1>3, <1>4, <2>1, <2>3, VerifyPlaces, CheckGotoOwn
<1>5. CASE Super[k] # NoClass /\ Attempt(t, Super[k], "superDone")
  <2>1. Super[k] \in Classes
    BY <1>3, <1>5, InitAssumption
  <2>2. QED BY <1>1, <1>2, <1>3, <1>5, <2>1, AttemptOwn
<1>6. QED BY <1>2, <1>4, <1>5 DEF VerifySuper

LEMMA VerifySuperDoneOwn ==
    ASSUME NEW t \in Threads, Moving(t), VerifySuperDone(t)
    PROVE  Own(t)'
<1>1. At(t, "Verify", "superDone") /\ UNCHANGED <<owner, exc, status>>
  BY DEF VerifySuperDone, cvars
<1>2. PICK k : k = Top(t).k
  OBVIOUS
<1>3. /\ depth[t] # 0 /\ Top(t) = top(t) /\ Top(t).fn = "Verify"
      /\ k \in Classes /\ Top(t).todo \in Todos /\ Super[k] # NoClass
      /\ Done(Super[k]) /\ (~IsErroneous(Super[k]) => exc[t] = "none")
  BY <1>1, <1>2, Knows DEF ExcAt, FrameOK
<1>4. Super[k] \in Classes /\ status[Super[k]] \in Statuses
  BY <1>3, InitAssumption DEF Moving, Safe, TypeOK
<1>5. CASE (IsVerified(Super[k]) \/ ShouldVerifyAtRuntime(Super[k])) /\ Goto(t, "superOk")
  <2>1. PICK x : x = Frame("Verify", k, "superOk", Top(t).todo)
    OBVIOUS
  <2>2. x.fn = "Verify" /\ x.k = k /\ x.pc = "superOk"
    BY <2>1 DEF Frame
  <2>3. IsVerified(Super[k]) /\ ~IsErroneous(Super[k])
    BY <1>3, <1>4, <1>5 DEF Done, IsVerified, IsErroneous, ShouldVerifyAtRuntime, Statuses, Rank
  <2>4. Found(t, Super[k])
    BY <1>4, <2>3 DEF Found, Moving, AttemptedOK
  <2>5. Found(t, Super[k])'
    BY <1>3, <1>4, <2>4, FoundKeep
  <2>6. FoundAt(t, x)' /\ ExcAt(t, x)'
    BY <1>1, <1>3, <2>2, <2>3, <2>5 DEF FoundAt, ExcAt
  <2>7. QED BY <1>1, <1>2, <1>3, <1>5, <2>1, <2>6, VerifyPlaces, CheckGotoOwn
<1>6. CASE Goto(t, "reject")
  <2>1. PICK x : x = Frame("Verify", k, "reject", Top(t).todo)
    OBVIOUS
  <2>2. x.fn = "Verify" /\ x.k = k /\ x.pc = "reject"
    BY <2>1 DEF Frame
  <2>3. FoundAt(t, x)' /\ ExcAt(t, x)'
    BY <2>2 DEF FoundAt, ExcAt
  <2>4. QED BY <1>1, <1>2, <1>3, <1>6, <2>1, <2>3, VerifyPlaces, CheckGotoOwn
<1>7. QED BY <1>2, <1>5, <1>6 DEF VerifySuperDone

LEMMA VerifySuperOkOwn ==
    ASSUME NEW t \in Threads, Moving(t), VerifySuperOk(t)
    PROVE  Own(t)'
<1>1. At(t, "Verify", "superOk") /\ UNCHANGED <<owner, exc, status>>
  BY DEF VerifySuperOk, cvars
<1>2. PICK k : k = Top(t).k
  OBVIOUS
<1>3. /\ Safe /\ depth[t] # 0 /\ Top(t) = top(t) /\ Top(t).fn = "Verify" /\ k \in Classes /\ exc[t] = "none"
      /\ Super[k] # NoClass => Super[k] \in Classes /\ Found(t, Super[k])
  <2>1. /\ Safe /\ depth[t] # 0 /\ Top(t) = top(t) /\ Top(t).fn = "Verify" /\ k \in Classes /\ exc[t] = "none"
        /\ Super[k] # NoClass => Found(t, Super[k])
    BY <1>1, <1>2, Knows DEF ExcAt, FoundAt
  <2>2. QED BY <2>1, InitAssumption
<1>4. PICK todo : todo \in Todos /\ GotoWith(t, "ifaces", todo)
  <2>1. SetToSeq({i \in IfSet[k] : i \in HasDefault}) \in Todos
    <3>1. IfSet[k] \subseteq Classes /\ IfSet[k] = Above(k) \intersect Interfaces
      BY <1>3 DEF IfSet, Above
    <3>2. {i \in IfSet[k] : i \in HasDefault} \subseteq Classes
      BY <3>1
    <3>3. SetToSeq({i \in IfSet[k] : i \in HasDefault}) \in Seq({i \in IfSet[k] : i \in HasDefault})
      BY <3>2, FS_Subset, InitAssumption, SetToSeqType
    <3>4. QED BY <3>2, <3>3, TodoTypes
  <2>2. <<>> \in Todos
    BY DEF Todos
  <2>3. QED BY <1>2, <2>1, <2>2 DEF VerifySuperOk
<1>5. PICK x : x = Frame("Verify", k, "ifaces", todo)
  OBVIOUS
<1>6. x.fn = "Verify" /\ x.k = k /\ x.pc = "ifaces"
  BY <1>5 DEF Frame
<1>7. FoundAt(t, x)' /\ ExcAt(t, x)'
  BY <1>1, <1>3, <1>6, FoundKeep DEF FoundAt, ExcAt
<1>8. QED BY <1>1, <1>2, <1>3, <1>4, <1>5, <1>7, VerifyPlaces, CheckGotoOwn

LEMMA VerifyIfacesOwn ==
    ASSUME NEW t \in Threads, Moving(t), VerifyIfaces(t)
    PROVE  Own(t)'
<1>1. At(t, "Verify", "ifaces") /\ UNCHANGED <<owner, exc, status>>
  BY DEF VerifyIfaces, cvars
<1>2. PICK k, todo : k = Top(t).k /\ todo = Top(t).todo
  OBVIOUS
<1>3. /\ Safe /\ depth[t] # 0 /\ Top(t) = top(t) /\ Top(t).fn = "Verify" /\ k \in Classes /\ exc[t] = "none"
      /\ Super[k] # NoClass => Super[k] \in Classes /\ Found(t, Super[k])
      /\ todo \in Todos /\ todo \in Seq(IfSet[k]) /\ IfSet[k] \subseteq Classes
  <2>1. /\ Safe /\ depth[t] # 0 /\ Top(t) = top(t) /\ Top(t).fn = "Verify" /\ k \in Classes /\ exc[t] = "none"
        /\ todo \in Todos /\ todo \in Seq(IfSet[k])
        /\ Super[k] # NoClass => Found(t, Super[k])
    BY <1>1, <1>2, Knows DEF ExcAt, FoundAt, FrameOK
  <2>2. IfSet[k] \subseteq Classes
    BY <2>1 DEF IfSet, Above
  <2>3. QED BY <2>1, <2>2, InitAssumption
<1>4. CASE todo = <<>> /\ Goto(t, "verify")
  <2>1. PICK x : x = Frame("Verify", k, "verify", todo)
    OBVIOUS
  <2>2. x.fn = "Verify" /\ x.k = k /\ x.pc = "verify" /\ x.todo = todo
    BY <2>1 DEF Frame
  <2>3. FoundAt(t, x)' /\ ExcAt(t, x)'
    BY <1>1, <1>3, <1>4, <2>2, FoundKeep DEF FoundAt, ExcAt
  <2>4. QED BY <1>1, <1>2, <1>3, <1>4, <2>1, <2>3, VerifyPlaces, CheckGotoOwn
<1>5. CASE todo # <<>> /\ GotoWith(t, "ifaces", Tail(todo))
  <2>1. Tail(todo) \in Todos
    BY <1>3, <1>5, TailType, TodoTypes
  <2>2. PICK x : x = Frame("Verify", k, "ifaces", Tail(todo))
    OBVIOUS
  <2>3. x.fn = "Verify" /\ x.k = k /\ x.pc = "ifaces"
    BY <2>2 DEF Frame
  <2>4. FoundAt(t, x)' /\ ExcAt(t, x)'
    BY <1>1, <1>3, <2>3, FoundKeep DEF FoundAt, ExcAt
  <2>5. QED BY <1>1, <1>2, <1>3, <1>5, <2>1, <2>2, <2>4, VerifyPlaces, CheckGotoOwn
<1>6. CASE todo # <<>> /\ Attempt(t, Head(todo), "ifaceDone")
  <2>1. Head(todo) \in Classes
    BY <1>3, <1>6, TailType
  <2>2. QED BY <1>1, <1>2, <1>3, <1>6, <2>1, AttemptOwn
<1>7. QED BY <1>2, <1>4, <1>5, <1>6 DEF VerifyIfaces

LEMMA VerifyIfaceDoneOwn ==
    ASSUME NEW t \in Threads, Moving(t), VerifyIfaceDone(t)
    PROVE  Own(t)'
<1>1. At(t, "Verify", "ifaceDone") /\ UNCHANGED <<owner, exc, status>>
  BY DEF VerifyIfaceDone, cvars
<1>2. PICK k, todo : k = Top(t).k /\ todo = Top(t).todo
  OBVIOUS
<1>3. /\ Safe /\ depth[t] # 0 /\ Top(t) = top(t) /\ Top(t).fn = "Verify" /\ k \in Classes
      /\ Super[k] # NoClass => Super[k] \in Classes /\ Found(t, Super[k])
      /\ todo \in Todos /\ Head(todo) \in Classes
      /\ ~IsErroneous(Head(todo)) => exc[t] = "none"
  <2>1. /\ Safe /\ depth[t] # 0 /\ Top(t) = top(t) /\ Top(t).fn = "Verify" /\ k \in Classes
        /\ todo \in Todos /\ todo \in Seq(IfSet[k]) /\ todo # <<>>
        /\ Super[k] # NoClass => Found(t, Super[k])
        /\ ~IsErroneous(Head(todo)) => exc[t] = "none"
    BY <1>1, <1>2, Knows DEF ExcAt, FoundAt, FrameOK
  <2>2. IfSet[k] \subseteq Classes
    BY <2>1 DEF IfSet, Above
  <2>3. QED BY <2>1, <2>2, InitAssumption, TailType
<1>4. CASE IsVerified(Head(todo)) /\ Goto(t, "ifaceOk")
  <2>1. PICK x : x = Frame("Verify", k, "ifaceOk", todo)
    OBVIOUS
  <2>2. x.fn = "Verify" /\ x.k = k /\ x.pc = "ifaceOk" /\ x.todo = todo
    BY <2>1 DEF Frame
  <2>3. ~IsErroneous(Head(todo))
    BY <1>4 DEF IsVerified, IsErroneous, Rank
  <2>4. Found(t, Head(todo))
    BY <1>3, <1>4, <2>3 DEF Found, Moving, AttemptedOK
  <2>5. Found(t, Head(todo))' /\ (Super[k] # NoClass => Found(t, Super[k])')
    BY <1>3, <2>4, FoundKeep
  <2>6. FoundAt(t, x)' /\ ExcAt(t, x)'
    BY <1>1, <1>3, <2>2, <2>3, <2>5 DEF FoundAt, ExcAt
  <2>7. QED BY <1>1, <1>2, <1>3, <1>4, <2>1, <2>6, VerifyPlaces, CheckGotoOwn
<1>5. CASE Goto(t, "reject")
  <2>1. PICK x : x = Frame("Verify", k, "reject", todo)
    OBVIOUS
  <2>2. x.fn = "Verify" /\ x.k = k /\ x.pc = "reject"
    BY <2>1 DEF Frame
  <2>3. FoundAt(t, x)' /\ ExcAt(t, x)'
    BY <2>2 DEF FoundAt, ExcAt
  <2>4. QED BY <1>1, <1>2, <1>3, <1>5, <2>1, <2>3, VerifyPlaces, CheckGotoOwn
<1>6. QED BY <1>2, <1>4, <1>5 DEF VerifyIfaceDone

LEMMA VerifyIfaceOkOwn ==
    ASSUME NEW t \in Threads, Moving(t), VerifyIfaceOk(t)
    PROVE  Own(t)'
<1>1. At(t, "Verify", "ifaceOk") /\ UNCHANGED <<owner, exc, status>>
  BY DEF VerifyIfaceOk, cvars
<1>2. PICK k, todo : k = Top(t).k /\ todo = Top(t).todo
  OBVIOUS
<1>3. /\ Safe /\ depth[t] # 0 /\ Top(t) = top(t) /\ Top(t).fn = "Verify" /\ k \in Classes /\ exc[t] = "none"
      /\ todo \in Seq(IfSet[k]) /\ todo # <<>>
      /\ Super[k] # NoClass => Super[k] \in Classes /\ Found(t, Super[k])
      /\ Found(t, Head(todo))
  BY <1>1, <1>2, Knows, InitAssumption DEF ExcAt, FoundAt, FrameOK
<1>4. IfSet[k] \subseteq Classes /\ Head(todo) \in Classes
  <2>1. IfSet[k] \subseteq Classes
    BY <1>3 DEF IfSet, Above
  <2>2. QED BY <1>3, <2>1, TailType
<1>5. CASE GotoWith(t, "ifaces", Tail(todo))
  <2>1. Tail(todo) \in Todos
    BY <1>3, <1>4, TailType, TodoTypes
  <2>2. PICK x : x = Frame("Verify", k, "ifaces", Tail(todo))
    OBVIOUS
  <2>3. x.fn = "Verify" /\ x.k = k /\ x.pc = "ifaces"
    BY <2>2 DEF Frame
  <2>4. FoundAt(t, x)' /\ ExcAt(t, x)'
    BY <1>1, <1>3, <2>3, FoundKeep DEF FoundAt, ExcAt
  <2>5. QED BY <1>1, <1>2, <1>3, <1>5, <2>1, <2>2, <2>4, VerifyPlaces, CheckGotoOwn
<1>6. CASE GotoWith(t, "verify", <<Head(todo)>>)
  <2>1. <<Head(todo)>> \in Todos
    BY <1>4 DEF Todos
  <2>2. PICK x : x = Frame("Verify", k, "verify", <<Head(todo)>>)
    OBVIOUS
  <2>3. x.fn = "Verify" /\ x.k = k /\ x.pc = "verify" /\ x.todo[1] = Head(todo)
    BY <2>2 DEF Frame
  <2>4. Found(t, Head(todo))' /\ (Super[k] # NoClass => Found(t, Super[k])')
    BY <1>3, <1>4, FoundKeep
  <2>5. FoundAt(t, x)' /\ ExcAt(t, x)'
    BY <1>1, <1>3, <2>3, <2>4 DEF FoundAt, ExcAt
  <2>6. QED BY <1>1, <1>2, <1>3, <1>6, <2>1, <2>2, <2>5, VerifyPlaces, CheckGotoOwn
<1>7. QED BY <1>2, <1>5, <1>6 DEF VerifyIfaceOk

LEMMA RejectOwn ==
    ASSUME NEW t \in Threads, Moving(t), VerifyReject(t)
    PROVE  Own(t)'
<1>1. At(t, "Verify", "reject")
  BY DEF VerifyReject
<1>2. PICK k : k = Top(t).k
  OBVIOUS
<1>3. /\ Safe /\ StackType /\ depth[t] # 0 /\ stack[t] # <<>> /\ Top(t) = top(t) /\ Top(t).fn = "Verify"
      /\ Top(t).pc = "reject" /\ k \in Classes
      /\ \A x : exc' = [exc EXCEPT ![t] = x] => exc'[t] = x
  BY <1>1, <1>2, Knows
<1>4. status' = [status EXCEPT ![k] = "kErrorResolved"] /\ Throw(t, "VerifyError") /\ Return(t, FALSE)
      /\ UNCHANGED owner
  BY <1>2 DEF VerifyReject, SetStatus
<1>5. exc'[t] # "none"
  BY <1>3, <1>4 DEF Throw
<1>6. status'[k] = "kErrorResolved"
  BY <1>3, <1>4 DEF Safe, TypeOK
<1>7. Done(k)' /\ IsErroneous(k)'
  BY <1>6 DEF Done, IsErroneous
<1>8. FrReturn(t) /\ ret' = [ret EXCEPT ![t] = FALSE]
  BY <1>3, <1>4, ReturnShape
<1>9. Keeper(t) => owner'[k] = t
  BY <1>2, <1>3, <1>4, KeeperLock
<1>10. QED BY <1>2, <1>3, <1>4, <1>5, <1>7, <1>8, <1>9, OwnVerifyReturn

LEMMA PerformOwn ==
    ASSUME NEW t \in Threads, Moving(t), PerformClassVerification(t)
    PROVE  Own(t)'
<1>1. At(t, "Verify", "verify") /\ UNCHANGED <<owner, exc, status>>
  BY DEF PerformClassVerification, cvars
<1>2. PICK k, todo : k = Top(t).k /\ todo = Top(t).todo
  OBVIOUS
<1>3. /\ Safe /\ depth[t] # 0 /\ Top(t) = top(t) /\ Top(t).fn = "Verify" /\ k \in Classes /\ exc[t] = "none"
      /\ Super[k] # NoClass => Found(t, Super[k])
      /\ todo # <<>> => Found(t, todo[1])
      /\ todo = <<>> \/ \E i \in Interfaces : todo = <<i>>
  BY <1>1, <1>2, Knows DEF ExcAt, FoundAt, FrameOK
<1>4. PICK how \in Outcomes : GotoWith(t, "finish", <<how>> \o todo)
  BY <1>2 DEF PerformClassVerification, Outcomes
<1>5. /\ todo = <<>> => <<how>> \o todo = <<how>>
      /\ \A i : todo = <<i>> => <<how>> \o todo = <<how, i>>
  <2>1. <<how>> \in Seq(Outcomes)
    OBVIOUS
  <2>2. <<how>> \o <<>> = <<how>>
    BY <2>1
  <2>3. QED BY <2>2, ConcatPair
<1>6. <<how>> \o todo \in Todos
  BY <1>3, <1>5, TodoTypes, InitAssumption
<1>7. PICK x : x = Frame("Verify", k, "finish", <<how>> \o todo)
  OBVIOUS
<1>8. x.fn = "Verify" /\ x.k = k /\ x.pc = "finish" /\ x.todo = <<how>> \o todo
  BY <1>7 DEF Frame
<1>9. Len(x.todo) = 2 => x.todo[2] \in Classes /\ Found(t, x.todo[2])
  BY <1>3, <1>5, <1>8, InitAssumption
<1>10. FoundAt(t, x)' /\ ExcAt(t, x)'
  BY <1>1, <1>3, <1>8, <1>9, InitAssumption, FoundKeep DEF FoundAt, ExcAt
<1>11. QED BY <1>1, <1>2, <1>3, <1>4, <1>6, <1>7, <1>10, VerifyPlaces, CheckGotoOwn

LEMMA VerifyFinishOwn ==
    ASSUME NEW t \in Threads, Moving(t), VerifyFinish(t)
    PROVE  Own(t)'
<1>1. At(t, "Verify", "finish") /\ UNCHANGED owner
  BY DEF VerifyFinish
<1>2. PICK k : k = Top(t).k
  OBVIOUS
<1>3. /\ Safe /\ StackType /\ depth[t] # 0 /\ stack[t] # <<>> /\ Top(t) = top(t) /\ Top(t).fn = "Verify"
      /\ Top(t).pc = "finish" /\ k \in Classes /\ ExcAt(t, Top(t))
      /\ \A x : exc' = [exc EXCEPT ![t] = x] => exc'[t] = x
  BY <1>1, <1>2, Knows
<1>4. Keeper(t) => owner'[k] = t
  BY <1>1, <1>2, <1>3, KeeperLock
<1>5. exc[t] = "none"
  BY <1>3 DEF ExcAt
<1>6. \A s : SetStatus(k, s) => status'[k] = s
  BY <1>3 DEF SetStatus, Safe, TypeOK
<1>7. CASE SetStatus(k, "kErrorResolved") /\ Throw(t, "VerifyError") /\ Return(t, FALSE)
  <2>1. exc'[t] # "none"
    BY <1>3, <1>7 DEF Throw
  <2>2. Done(k)' /\ IsErroneous(k)'
    BY <1>6, <1>7 DEF Done, IsErroneous
  <2>3. FrReturn(t) /\ ret' = [ret EXCEPT ![t] = FALSE]
    BY <1>3, <1>7, ReturnShape
  <2>4. QED BY <1>1, <1>2, <1>3, <1>4, <2>1, <2>2, <2>3, OwnVerifyReturn
<1>8. CASE SetStatus(k, "kVerified") /\ Return(t, TRUE) /\ UNCHANGED exc
  <2>1. Done(k)' /\ ~IsErroneous(k)'
    BY <1>6, <1>8 DEF Done, IsErroneous, IsVerified, Rank
  <2>2. FrReturn(t) /\ ret' = [ret EXCEPT ![t] = TRUE]
    BY <1>3, <1>8, ReturnShape
  <2>3. QED BY <1>1, <1>2, <1>3, <1>4, <1>5, <1>8, <2>1, <2>2, OwnVerifyReturn
<1>9. CASE UNCHANGED <<stack, ret, exc>>
  <2>1. PICK x : x = top(t)
    OBVIOUS
  <2>2. FrGoto(t, x)
    BY <1>3, <1>9, <2>1 DEF FrGoto, depth, fr, top
  <2>3. ExcAt(t, x)'
    BY <1>3, <1>5, <1>9, <2>1 DEF ExcAt
  <2>4. FoundAt(t, x)'
    BY <1>1, <1>2, <1>3, <2>1, Knows, FoundKeep
  <2>5. QED BY <1>1, <1>2, <1>3, <1>4, <2>1, <2>2, <2>3, <2>4, OwnVerifyGoto
<1>10. QED BY <1>2, <1>7, <1>8, <1>9 DEF VerifyFinish

-----------------------------------------------------------------------------
\* Every step keeps the invariant.
LEMMA StepOwn ==
    ASSUME NEW t \in Threads, Moving(t), Step(t)
    PROVE  Own(t)'
BY EnterOwn, LockOwn, VerifiedOwn, WaitingOwn, SuperOwn, SuperDoneOwn, IfacesOwn, IfaceDoneOwn, StaticsOwn,
   ClinitOwn, FinishOwn, DefaultSupersOwn, DefaultSuperDoneOwn, DefaultMarkOwn, VerifyLockOwn, VerifySuperOwn,
   VerifySuperDoneOwn, VerifySuperOkOwn, VerifyIfacesOwn, VerifyIfaceDoneOwn, VerifyIfaceOkOwn, RejectOwn,
   PerformOwn, VerifyFinishOwn, Zenon DEF Step

LEMMA StepAbort ==
    ASSUME NEW t \in Threads, Moving(t), Step(t)
    PROVE  AbortOK'
<1>1. ~aborted
  BY DEF Step, At, InitEnter, InitLock, InitVerified, WaitForInitializeClass, InitSuper, InitSuperDone,
         InitIfaces, InitIfaceDone, InitStatics, Clinit, InitFinish, DefaultSupers, DefaultSuperDone,
         DefaultMark, VerifyLock, VerifySuper, VerifySuperDone, VerifySuperOk, VerifyIfaces,
         VerifyIfaceDone, VerifyIfaceOk, VerifyReject, PerformClassVerification, VerifyFinish
<1>2. CASE VerifyFinish(t)
  <2>1. At(t, "Verify", "finish") /\ UNCHANGED clinitTid
    BY <1>2 DEF VerifyFinish
  <2>2. PICK s : s = Supertype(Top(t))
    OBVIOUS
  <2>3. CASE /\ UNCHANGED <<status, attempted, stack>> /\ s # NoClass /\ ~IsVerified(s)
    <3>1. FoundAt(t, Top(t)) /\ Top(t).fn = "Verify" /\ Top(t).pc = "finish" /\ Top(t).k \in Classes
          /\ stack[t] # <<>> /\ FrameOK(Top(t))
      BY <2>1, Knows
    <3>2. Found(t, s) /\ s \in Classes
      <4>1. Top(t).todo \in {<<how>> : how \in Outcomes} \/ \E how \in Outcomes, i \in Interfaces : Top(t).todo = <<how, i>>
        BY <3>1 DEF FrameOK
      <4>2. QED BY <2>2, <2>3, <3>1, <4>1, InitAssumption DEF FoundAt, Supertype
    <3>3. IsErroneous(s) /\ attempted[s] /\ clinitTid[s] # t
      BY <2>3, <3>2 DEF Found, Moving, AttemptedOK, Done
    <3>4. stack' = stack /\ status' = status /\ attempted' = attempted /\ clinitTid' = clinitTid
      BY <2>1, <2>3
    <3>5. SuperFailedMeanwhile
      BY <2>2, <2>3, <3>1, <3>3 DEF SuperFailedMeanwhile
    <3>6. SuperFailedMeanwhile'
      BY <3>4, <3>5 DEF SuperFailedMeanwhile, Supertype, Top, IsErroneous
    <3>7. QED BY <3>6 DEF AbortOK
  <2>4. CASE UNCHANGED aborted
    BY <1>1, <2>4 DEF AbortOK
  <2>5. QED BY <1>2, <2>2, <2>3, <2>4 DEF VerifyFinish
<1>3. CASE UNCHANGED aborted
  BY <1>1, <1>3 DEF AbortOK
<1>4. Step(t) => VerifyFinish(t) \/ UNCHANGED aborted
  BY DEF Step, InitEnter, InitLock, InitVerified, WaitForInitializeClass, InitSuper, InitSuperDone,
         InitIfaces, InitIfaceDone, InitStatics, Clinit, InitFinish, DefaultSupers, DefaultSuperDone,
         DefaultMark, VerifyLock, VerifySuper, VerifySuperDone, VerifySuperOk, VerifyIfaces,
         VerifyIfaceDone, VerifyIfaceOk, VerifyReject, PerformClassVerification, Claim, FailFromParent
<1>5. QED BY <1>2, <1>3, <1>4

\* A thread that is at none of its frames' places has moved nothing.
LEMMA OwnStill ==
    ASSUME NEW t \in Threads, Own(t), UNCHANGED <<status, clinitTid, attempted, owner, stack, exc, ret>>
    PROVE  Own(t)'
<1>1. /\ depth' = depth /\ fr' = fr /\ Slots(t)' = Slots(t) /\ top(t)' = top(t)
  BY DEF depth, fr, Slots, top
<1>2. ReadyOf(t)'
  BY <1>1 DEF Own, ReadyOf, ReadyAt, Answered, Returned, IsInitialized
<1>3. LockOf(t)'
  BY <1>1 DEF Own, LockOf
<1>4. ExcOf(t)'
  BY <1>1 DEF Own, ExcOf, ExcAt, Done, IsVerified, IsErroneous
<1>5. SeenOf(t)'
  BY <1>1 DEF Own, SeenOf, SeenAt, IsErroneous
<1>6. FoundOf(t)'
  BY <1>1 DEF Own, FoundOf, FoundAt, Found, IsErroneous
<1>7. QED BY <1>2, <1>3, <1>4, <1>5, <1>6 DEF Own

LEMMA EnsureFrames ==
    ASSUME Safe, NEW t \in Threads, NEW k, EnsureInitialized(t, k)
    PROVE  /\ depth'[t] = 1 /\ Slots(t)' = {1} /\ fr'[t][1] = InitFrame(k) /\ top(t)' = InitFrame(k)
           /\ Slots(t) = {}
<1>1. stack'[t] = <<InitFrame(k)>> /\ stack[t] = <<>>
  BY DEF EnsureInitialized, Safe, TypeOK
<1> HIDE DEF InitFrame
<1>2. PICK x : x = InitFrame(k)
  OBVIOUS
<1>3. stack'[t] = <<x>>
  BY <1>1, <1>2
<1>4. depth'[t] = 1
  BY <1>3 DEF depth
<1>5. fr'[t][1] = x
  <2>1. fr'[t] = [h \in 1..Len(<<x>>) |-> <<x>>[Len(<<x>>) + 1 - h]]
    BY <1>3 DEF fr
  <2>2. QED BY <2>1
<1>6. depth[t] = 0
  BY <1>1 DEF depth
<1>7. fr'[t][1] = InitFrame(k) /\ top(t)' = InitFrame(k)
  BY <1>2, <1>4, <1>5 DEF top
<1>8. Slots(t)' = {1} /\ Slots(t) = {}
  BY <1>4, <1>6 DEF Slots
<1>9. QED BY <1>4, <1>7, <1>8

LEMMA EnsureOwn ==
    ASSUME Safe, NEW t \in Threads, NEW k, EnsureInitialized(t, k)
    PROVE  Own(t)'
<1>1. PICK x : x = InitFrame(k)
  OBVIOUS
<1>2. x.fn = "Init" /\ x.pc = "enter"
  BY <1>1 DEF InitFrame, Frame
<1>3. depth'[t] = 1 /\ Slots(t)' = {1} /\ fr'[t][1] = x /\ top(t)' = x
  BY <1>1, EnsureFrames
<1>4. exc'[t] = "none"
  BY DEF EnsureInitialized, Throw, Safe, TypeOK
<1>5. ReadyOf(t)'
  BY <1>2, <1>3 DEF ReadyOf, ReadyAt, Answered, PastSuper
<1>6. LockOf(t)' /\ SeenOf(t)' /\ FoundOf(t)'
  BY <1>2, <1>3 DEF LockOf, SeenOf, SeenAt, FoundOf, FoundAt
<1>7. ExcOf(t)'
  BY <1>2, <1>3, <1>4 DEF ExcOf, ExcAt
<1>8. QED BY <1>5, <1>6, <1>7 DEF Own

LEMMA InvInit ==
    ASSUME Init
    PROVE  Inv
<1>1. \A t \in Threads : depth[t] = 0 /\ Slots(t) = {}
  BY DEF Init, depth, Slots
<1>2. \A t \in Threads : ret[t] = TRUE /\ exc[t] = "none"
  BY DEF Init
<1>3. ASSUME NEW t \in Threads PROVE Own(t)
  BY <1>1, <1>2 DEF Own, ReadyOf, LockOf, ExcOf, SeenOf, FoundOf
<1>4. AttemptedOK
  BY DEF Init, AttemptedOK, IsVerified, Rank
<1>5. AbortOK
  BY DEF Init, AbortOK
<1>6. QED BY <1>3, <1>4, <1>5, SafeInit DEF Inv

LEMMA InvNext ==
    ASSUME Inv, [Next]_vars
    PROVE  Inv'
<1>1. Safe /\ Safe'
  BY SafeNext DEF Inv
<1>2. CASE UNCHANGED <<cvars, owner, stack, exc, ret, calls, aborted, started>>
  <2>1. UNCHANGED <<status, clinitTid, attempted, owner, stack, exc, ret, aborted>>
    BY <1>2 DEF cvars
  <2>2. \A t \in Threads : Own(t)'
    BY <2>1, OwnStill DEF Inv
  <2>3. AttemptedOK'
    BY <2>1 DEF Inv, AttemptedOK, Done, IsVerified, IsErroneous
  <2>4. AbortOK'
    BY <2>1 DEF Inv, AbortOK, SuperFailedMeanwhile, Supertype, Top, IsErroneous
  <2>5. QED BY <1>1, <2>2, <2>3, <2>4 DEF Inv
<1>3. ASSUME NEW t \in Threads, Step(t) PROVE Inv'
  <2>1. \A k \in Classes : Evolves(t, k)
    BY <1>1, <1>3, StepEvolves DEF Inv, Own
  <2>2. Moving(t) /\ Alone(t)
    BY <1>1, <1>3, <2>1, Untouched DEF Moving, Inv
  <2>3. \A u \in Threads \ {t} : Own(u)'
    BY <1>1, <2>1, <2>2, OthersKeep DEF Inv
  <2>4. Own(t)' /\ AbortOK'
    BY <1>3, <2>2, StepOwn, StepAbort
  <2>5. AttemptedOK'
    BY <1>1, <2>1, AttemptedKeep DEF Inv
  <2>6. QED BY <1>1, <2>3, <2>4, <2>5 DEF Inv
<1>4. ASSUME NEW t \in Threads, NEW k \in Roots, EnsureInitialized(t, k) PROVE Inv'
  <2>1. UNCHANGED <<status, clinitTid, attempted, owner, aborted>> /\ ~aborted
    BY <1>4 DEF EnsureInitialized, cvars
  <2>2. Alone(t)
    BY <1>1, <1>4 DEF Alone, EnsureInitialized, Throw, Safe, TypeOK
  <2>3. \A j \in Classes : Evolves(t, j)
    BY <1>1, <2>1, QuietEvolves
  <2>4. \A u \in Threads \ {t} : Own(u)'
    BY <1>1, <2>2, <2>3, OthersKeep DEF Inv
  <2>5. AttemptedOK'
    BY <1>1, <2>3, AttemptedKeep DEF Inv
  <2>6. QED BY <1>1, <1>4, <2>1, <2>4, <2>5, EnsureOwn DEF Inv, AbortOK
<1>5. ASSUME NEW t \in Threads, WakeEarly(t) PROVE Inv'
  BY <1>2, <1>5 DEF WakeEarly
<1>6. CASE UNCHANGED vars
  BY <1>2, <1>6 DEF vars, cvars
<1>7. QED BY <1>3, <1>4, <1>5, <1>6 DEF Next, Ended

\* Inv is inductive: it holds in every state of every behaviour.
THEOREM InvAlways == Spec => []Inv
BY InvInit, InvNext, PTL DEF Spec

\* No CHECK or LOG(FATAL) on the way of InitializeClass and VerifyClass ever
\* fails, but for the CHECK_EQ at the end of VerifyClass, and that one only when
\* a supertype verified by this thread failed afterwards at another thread's hands.
THEOREM ChecksHoldAlways == Spec => []ChecksHold
<1>1. ASSUME Inv, ~aborted PROVE PendingAsExpected
  <2>1. ASSUME NEW t \in Threads, NEW fn, NEW p, At(t, fn, p)
        PROVE  /\ Top(t) = top(t) /\ depth[t] \in Slots(t) /\ top(t) = fr[t][depth[t]]
               /\ Top(t).fn = fn /\ Top(t).pc = p /\ ExcAt(t, Top(t)) /\ SeenAt(Top(t))
    <3>1. depth[t] # 0 /\ Top(t) = top(t) /\ Top(t).fn = fn /\ Top(t).pc = p
      BY <1>1, <2>1, Running DEF Inv
    <3>2. depth[t] \in Slots(t) /\ top(t) = fr[t][depth[t]]
      BY <1>1, <3>1, Below DEF Inv
    <3>3. QED BY <1>1, <3>1, <3>2 DEF Inv, Own, ExcOf, SeenOf
  <2>2. ASSUME NEW t \in Threads, At(t, "Init", "verified")
        PROVE  \/ IsErroneous(Top(t).k) /\ exc[t] # "none"
               \/ IsVerified(Top(t).k) /\ exc[t] = "none"
    BY <2>1, <2>2 DEF ExcAt, Done
  <2>3. ASSUME NEW t \in Threads, At(t, "Init", "waiting")
        PROVE  status[Top(t).k] \in {"kInitializing", "kInitialized", "kErrorResolved"}
    BY <1>1, <2>1, <2>3 DEF Inv, Safe, Core, WaitOK, Over
  <2>4. ASSUME NEW t \in Threads, At(t, "Verify", "lock"), Top(t).todo # <<>>
        PROVE  IsErroneous(Top(t).k) \/ Rank[status[Top(t).k]] >= Rank[Head(Top(t).todo)]
    <3> HIDE DEF Rank
    <3>1. QED BY <2>1, <2>4 DEF SeenAt
  <2>5. \A t \in Threads : At(t, "Init", "lock") => exc[t] = "none"
    BY <2>1 DEF ExcAt
  <2>6. ASSUME NEW t \in Threads,
               At(t, "Init", "superDone") \/ At(t, "Init", "ifaceDone") \/ At(t, "Default", "mark") \/ stack[t] = <<>>
        PROVE  ret[t] = (exc[t] = "none")
    <3>1. ret[t] \in BOOLEAN
      BY <1>1 DEF Inv, Safe, TypeOK
    <3>2. CASE stack[t] = <<>>
      <4>1. depth[t] = 0
        BY <3>2 DEF depth
      <4>2. QED BY <1>1, <3>1, <4>1 DEF Inv, Own, ExcOf
    <3>3. CASE At(t, "Init", "superDone") \/ At(t, "Init", "ifaceDone") \/ At(t, "Default", "mark")
      BY <2>1, <3>1, <3>3 DEF ExcAt
    <3>4. QED BY <2>6, <3>2, <3>3
  <2>7. QED BY <2>2, <2>3, <2>4, <2>5, <2>6 DEF PendingAsExpected
<1>2. Inv => ChecksHold
  BY <1>1 DEF ChecksHold, Inv, AbortOK
<1>3. QED BY <1>2, InvAlways, PTL

-----------------------------------------------------------------------------
\* The refinement.  The phase of a class is its status, and whether a frame on
\* some stack is in its <clinit>: most steps leave the latter alone.

InClinit(f) == f.fn = "Init" /\ f.pc \in {"clinit", "finish"}
Runs(k) == \E u \in Threads : \E h \in Slots(u) : InClinit(fr[u][h]) /\ fr[u][h].k = k
RunsKept == \A k \in Classes : Runs(k)' <=> Runs(k)

LEMMA RunsGoto ==
    ASSUME StackType, StackType', NEW t \in Threads, stack[t] # <<>>, NEW x,
           stack' = [stack EXCEPT ![t] = <<x>> \o Tail(stack[t])],
           x.k = Top(t).k, InClinit(x) <=> InClinit(Top(t))
    PROVE  RunsKept
<1>1. x \in Frames
  <2>1. stack'[t] = <<x>> \o Tail(stack[t]) /\ stack'[t] \in Seq(Frames) /\ Tail(stack[t]) \in Seq(Frames)
    BY DEF StackType
  <2>2. stack'[t][1] = x /\ 1 \in 1..Len(stack'[t])
    BY <2>1
  <2>3. QED BY <2>1, <2>2
<1>2. FrGoto(t, x)
  BY <1>1, Gotos
<1>3. depth[t] # 0 /\ Top(t) = fr[t][depth[t]]
  BY FrType DEF Top
<1>4. /\ \A u \in Threads : Slots(u)' = Slots(u)
      /\ fr'[t][depth[t]] = x
      /\ \A u \in Threads : \A h \in Slots(u) :
             ~(u = t /\ h = depth[t]) => fr'[u][h] = fr[u][h]
  BY <1>2, <1>3, GotoSlots
<1>5. \A u \in Threads : \A h \in Slots(u) :
          (InClinit(fr'[u][h]) <=> InClinit(fr[u][h])) /\ fr'[u][h].k = fr[u][h].k
  <2> HIDE DEF InClinit
  <2>1. QED BY <1>3, <1>4
<1>6. QED BY <1>4, <1>5 DEF RunsKept, Runs, InClinit

LEMMA RunsCall ==
    ASSUME StackType, StackType', NEW t \in Threads, stack[t] # <<>>, NEW x, NEW c,
           stack' = [stack EXCEPT ![t] = <<c>> \o (<<x>> \o Tail(stack[t]))],
           x.k = Top(t).k, InClinit(x) <=> InClinit(Top(t)), ~InClinit(c)
    PROVE  RunsKept
<1>1. x \in Frames /\ c \in Frames
  <2>1. /\ stack'[t] = <<c>> \o (<<x>> \o Tail(stack[t])) /\ stack'[t] \in Seq(Frames)
        /\ Tail(stack[t]) \in Seq(Frames)
    BY DEF StackType
  <2>2. stack'[t][1] = c /\ stack'[t][2] = x /\ 1 \in 1..Len(stack'[t]) /\ 2 \in 1..Len(stack'[t])
    BY <2>1
  <2>3. QED BY <2>1, <2>2
<1>2. FrCall(t, x, c)
  BY <1>1, Calls
<1>3. depth[t] # 0 /\ Top(t) = fr[t][depth[t]]
  BY FrType DEF Top
<1> DEFINE d == depth[t]
<1>4. /\ Slots(t)' = Slots(t) \union {d + 1} /\ \A u \in Threads : u # t => Slots(u)' = Slots(u)
      /\ fr'[t][d] = x /\ fr'[t][d + 1] = c
      /\ \A u \in Threads : \A h \in Slots(u) : ~(u = t /\ h = d) => fr'[u][h] = fr[u][h]
  BY <1>2, <1>3, CallSlots
<1>5. \A u \in Threads : \A h \in Slots(u) :
          (InClinit(fr'[u][h]) <=> InClinit(fr[u][h])) /\ fr'[u][h].k = fr[u][h].k
  <2> HIDE DEF InClinit
  <2>1. QED BY <1>3, <1>4
<1>6. QED BY <1>4, <1>5 DEF RunsKept, Runs, InClinit

LEMMA RunsReturn ==
    ASSUME StackType, NEW t \in Threads, stack[t] # <<>>, stack' = [stack EXCEPT ![t] = Tail(@)],
           NEW j, ~InClinit(Top(t)) \/ Top(t).k = j
    PROVE  \A k \in Classes : k # j \/ ~InClinit(Top(t)) => (Runs(k)' <=> Runs(k))
<1>1. FrReturn(t)
  BY Returns
<1>2. depth[t] # 0 /\ Top(t) = fr[t][depth[t]]
  BY FrType DEF Top
<1>3. /\ Slots(t)' = Slots(t) \ {depth[t]} /\ \A u \in Threads : u # t => Slots(u)' = Slots(u)
      /\ \A u \in Threads : \A h \in Slots(u)' : h \in Slots(u) /\ fr'[u][h] = fr[u][h]
  BY <1>1, <1>2, ReturnSlots
<1>4. \A u \in Threads : \A h \in Slots(u) : h \in Slots(u)' \/ (u = t /\ h = depth[t])
  BY <1>3
<1>5. \A k \in Classes : Runs(k)' => Runs(k)
  BY <1>3 DEF Runs, InClinit
<1>6. \A k \in Classes : k # j \/ ~InClinit(Top(t)) => (Runs(k) => Runs(k)')
  BY <1>2, <1>3, <1>4 DEF Runs, InClinit
<1>7. QED BY <1>5, <1>6

\* Only the entry into <clinit> and the end of InitializeClass say otherwise.
LEMMA StepRuns ==
    ASSUME Safe, Safe', NEW t \in Threads, Step(t), ~InitStatics(t), ~InitFinish(t)
    PROVE  RunsKept
<1>1. StackType /\ StackType'
  BY DEF Safe, TypeOK, StackType
<1>2. ASSUME NEW fn, NEW p, At(t, fn, p)
      PROVE stack[t] # <<>> /\ Top(t) \in Frames /\ Top(t).fn = fn /\ Top(t).pc = p
  BY <1>2, Running
<1>3. ASSUME NEW fn, NEW p, At(t, fn, p), NEW pc, NEW todo,
             GotoWith(t, pc, todo), fn = "Init" => (pc \in {"clinit", "finish"} <=> p \in {"clinit", "finish"})
      PROVE RunsKept
  <2> DEFINE x == Frame(Top(t).fn, Top(t).k, pc, todo)
  <2>1. x.k = Top(t).k /\ (InClinit(x) <=> InClinit(Top(t)))
    BY <1>2, <1>3 DEF Frame, InClinit
  <2>2. stack' = [stack EXCEPT ![t] = <<x>> \o Tail(stack[t])] /\ stack[t] # <<>>
    BY <1>2, <1>3 DEF GotoWith, MovedWith
  <2> HIDE DEF x
  <2>3. QED BY <1>1, <2>1, <2>2, RunsGoto
<1>4. ASSUME NEW fn, NEW p, At(t, fn, p), NEW pc, stack' = [stack EXCEPT ![t] = Moved(t, pc)],
             fn = "Init" => (pc \in {"clinit", "finish"} <=> p \in {"clinit", "finish"})
      PROVE RunsKept
  <2> DEFINE x == [Top(t) EXCEPT !.pc = pc]
  <2>1. x.k = Top(t).k /\ (InClinit(x) <=> InClinit(Top(t)))
    BY <1>2, <1>4 DEF InClinit, Frames
  <2>2. stack' = [stack EXCEPT ![t] = <<x>> \o Tail(stack[t])] /\ stack[t] # <<>>
    BY <1>2, <1>4 DEF Moved
  <2> HIDE DEF x
  <2>3. QED BY <1>1, <2>1, <2>2, RunsGoto
<1>5. ASSUME NEW fn, NEW p, At(t, fn, p), NEW pc, NEW c, Call(t, pc, c), ~InClinit(c),
             fn = "Init" => (pc \in {"clinit", "finish"} <=> p \in {"clinit", "finish"})
      PROVE RunsKept
  <2> DEFINE x == [Top(t) EXCEPT !.pc = pc]
  <2>1. x.k = Top(t).k /\ (InClinit(x) <=> InClinit(Top(t)))
    BY <1>2, <1>5 DEF InClinit, Frames
  <2>2. stack' = [stack EXCEPT ![t] = <<c>> \o (<<x>> \o Tail(stack[t]))] /\ stack[t] # <<>>
    BY <1>2, <1>5 DEF Call, Moved
  <2> HIDE DEF x
  <2>3. QED BY <1>1, <1>5, <2>1, <2>2, RunsCall
<1>6. ASSUME NEW fn, NEW p, At(t, fn, p), stack' = [stack EXCEPT ![t] = Tail(@)], fn = "Init" => p \notin {"clinit", "finish"}
      PROVE RunsKept
  <2>1. ~InClinit(Top(t)) /\ stack[t] # <<>>
    BY <1>2, <1>6 DEF InClinit
  <2>2. \A k \in Classes : Runs(k)' <=> Runs(k)
    BY <1>1, <1>6, <2>1, RunsReturn
  <2>3. QED BY <2>2 DEF RunsKept
<1>7. ASSUME stack' = stack PROVE RunsKept
  BY <1>7 DEF RunsKept, Runs, Slots, depth, fr
<1>9. \A k : ~InClinit(InitFrame(k)) /\ ~InClinit(VerifyFrame(k)) /\ ~InClinit(DefaultFrame(k))
  BY DEF InClinit, InitFrame, VerifyFrame, DefaultFrame, Frame
<1>10. ASSUME NEW p \in {"lock", "verified"}, At(t, "Init", p), NEW k, Claim(t, k) PROVE RunsKept
  <2>1. p \notin {"clinit", "finish"}
    BY <1>10
  <2>2. \/ \E pc \in {"waiting", "super"} : Goto(t, pc)
        \/ stack' = [stack EXCEPT ![t] = Tail(@)]
    BY <1>10 DEF Claim, Return
  <2>3. QED BY <1>4, <1>6, <1>10, <2>1, <2>2 DEF Goto
<1>11. ASSUME NEW p \in {"superDone", "ifaceDone"}, At(t, "Init", p), NEW k, FailFromParent(t, k) PROVE RunsKept
  BY <1>6, <1>11 DEF FailFromParent, Return
<1>12. ASSUME NEW p, At(t, "Verify", p), NEW s, NEW after, Attempt(t, s, after) PROVE RunsKept
  BY <1>4, <1>5, <1>9, <1>12 DEF Attempt, Goto
<1> HIDE DEF InClinit
<1>13. CASE InitEnter(t)
  BY <1>4, <1>6, <1>13 DEF InitEnter, Goto, Return
<1>14. CASE InitLock(t)
  <2>1. At(t, "Init", "lock")
    BY <1>14 DEF InitLock
  <2>2. \/ stack' = [stack EXCEPT ![t] = Tail(@)]
        \/ \E c, k : c = VerifyFrame(k) /\ Call(t, "verified", c)
        \/ \E k : Claim(t, k)
    BY <1>14 DEF InitLock, Return
  <2>3. ASSUME NEW c, NEW k, c = VerifyFrame(k), Call(t, "verified", c) PROVE RunsKept
    BY <1>5, <1>9, <2>1, <2>3
  <2>4. QED BY <1>6, <1>10, <2>1, <2>2, <2>3
<1>15. CASE InitVerified(t)
  BY <1>6, <1>10, <1>15 DEF InitVerified, Return
<1>16. CASE WaitForInitializeClass(t)
  BY <1>6, <1>7, <1>16 DEF WaitForInitializeClass, Return
<1>17. CASE InitSuper(t)
  BY <1>3, <1>5, <1>9, <1>17 DEF InitSuper
<1>18. CASE InitSuperDone(t)
  BY <1>3, <1>11, <1>18 DEF InitSuperDone
<1>19. CASE InitIfaces(t)
  BY <1>3, <1>4, <1>5, <1>9, <1>19 DEF InitIfaces, Goto
<1>20. CASE InitIfaceDone(t)
  BY <1>3, <1>11, <1>20 DEF InitIfaceDone
<1>21. CASE Clinit(t)
  <2>1. At(t, "Init", "clinit")
    BY <1>21 DEF Clinit
  <2>2. ASSUME NEW k, NEW todo,
               stack' = [stack EXCEPT ![t] = <<InitFrame(k)>> \o MovedWith(t, "clinit", todo)]
        PROVE RunsKept
    <3> DEFINE x == Frame(Top(t).fn, Top(t).k, "clinit", todo)
               c == InitFrame(k)
    <3>1. x.k = Top(t).k /\ InClinit(x) /\ InClinit(Top(t)) /\ ~InClinit(c)
      BY <1>2, <1>9, <2>1 DEF Frame, InClinit
    <3>2. stack' = [stack EXCEPT ![t] = <<c>> \o (<<x>> \o Tail(stack[t]))] /\ stack[t] # <<>>
      BY <1>2, <2>1, <2>2 DEF MovedWith
    <3> HIDE DEF x, c
    <3>3. QED BY <1>1, <3>1, <3>2, RunsCall
  <2>3. QED BY <1>4, <1>7, <1>21, <2>1, <2>2 DEF Clinit, Goto
<1>22. CASE DefaultSupers(t)
  BY <1>3, <1>4, <1>5, <1>9, <1>22 DEF DefaultSupers
<1>23. CASE DefaultSuperDone(t)
  BY <1>3, <1>6, <1>23 DEF DefaultSuperDone, Return
<1>24. CASE DefaultMark(t)
  BY <1>6, <1>24 DEF DefaultMark, Return
<1>25. CASE VerifyLock(t)
  <2>1. At(t, "Verify", "lock")
    BY <1>25 DEF VerifyLock
  <2>2. \/ stack' = [stack EXCEPT ![t] = Tail(@)]
        \/ \E pc, todo : GotoWith(t, pc, todo)
    BY <1>25 DEF VerifyLock, Return
  <2>3. ASSUME NEW pc, NEW todo, GotoWith(t, pc, todo) PROVE RunsKept
    BY <1>3, <2>1, <2>3
  <2>4. QED BY <1>6, <2>1, <2>2, <2>3
<1>26. CASE VerifySuper(t)
  BY <1>4, <1>12, <1>26 DEF VerifySuper, Goto
<1>27. CASE VerifySuperDone(t)
  <2>1. At(t, "Verify", "superDone") /\ \E pc : stack' = [stack EXCEPT ![t] = Moved(t, pc)]
    BY <1>27 DEF VerifySuperDone, Goto
  <2>2. PICK pc : stack' = [stack EXCEPT ![t] = Moved(t, pc)]
    BY <2>1
  <2>3. "Verify" # "Init"
    OBVIOUS
  <2>4. QED BY <1>4, <2>1, <2>2, <2>3, Zenon
<1>28. CASE VerifySuperOk(t)
  BY <1>3, <1>28 DEF VerifySuperOk
<1>29. CASE VerifyIfaces(t)
  BY <1>3, <1>4, <1>12, <1>29 DEF VerifyIfaces, Goto
<1>30. CASE VerifyIfaceDone(t)
  <2>1. At(t, "Verify", "ifaceDone") /\ \E pc : stack' = [stack EXCEPT ![t] = Moved(t, pc)]
    BY <1>30 DEF VerifyIfaceDone, Goto
  <2>2. PICK pc : stack' = [stack EXCEPT ![t] = Moved(t, pc)]
    BY <2>1
  <2>3. "Verify" # "Init"
    OBVIOUS
  <2>4. QED BY <1>4, <2>1, <2>2, <2>3, Zenon
<1>31. CASE VerifyIfaceOk(t)
  BY <1>3, <1>31 DEF VerifyIfaceOk
<1>32. CASE VerifyReject(t)
  BY <1>6, <1>32 DEF VerifyReject, Return
<1>33. CASE PerformClassVerification(t)
  BY <1>3, <1>33 DEF PerformClassVerification
<1>34. CASE VerifyFinish(t)
  BY <1>6, <1>7, <1>34 DEF VerifyFinish, Return
<1>35. QED
  BY <1>13, <1>14, <1>15, <1>16, <1>17, <1>18, <1>19, <1>20, <1>21, <1>22, <1>23, <1>24, <1>25, <1>26,
     <1>27, <1>28, <1>29, <1>30, <1>31, <1>32, <1>33, <1>34, Zenon DEF Step

\* A class is done only when InitializeClass ends.
LEMMA OnlyFinish ==
    ASSUME Safe, Safe', NEW t \in Threads, Step(t), NEW k \in Classes,
           status[k] # "kInitialized", status'[k] = "kInitialized"
    PROVE  InitFinish(t)
<1>1. status \in [Classes -> Statuses]
  BY DEF Safe, TypeOK
<1>2. ASSUME NEW j, NEW s, SetStatus(j, s) PROVE s = "kInitialized"
  BY <1>1, <1>2 DEF SetStatus
<1>3. ~UNCHANGED status
  OBVIOUS
<1>4. ASSUME NEW j PROVE ~Claim(t, j) /\ ~FailFromParent(t, j)
  BY <1>2, <1>3 DEF Claim, FailFromParent, cvars
<1>5. ~InitLock(t) /\ ~InitVerified(t) /\ ~WaitForInitializeClass(t) /\ ~InitSuperDone(t) /\ ~InitIfaceDone(t)
  BY <1>3, <1>4 DEF InitLock, InitVerified, WaitForInitializeClass, InitSuperDone, InitIfaceDone, cvars
<1>6. ~VerifyLock(t) /\ ~VerifyReject(t) /\ ~VerifyFinish(t) /\ ~DefaultMark(t)
  <2>1. ~VerifyLock(t)
    <3>1. ASSUME NEW j, SetStatus(j, IF status[j] = "kResolved" THEN "kVerifying" ELSE "kVerifyingAtRuntime")
          PROVE FALSE
      BY <1>2, <3>1
    <3>2. QED BY <1>3, <3>1 DEF VerifyLock, cvars
  <2>2. QED BY <1>2, <1>3, <2>1 DEF VerifyReject, VerifyFinish, DefaultMark
<1>7. InitEnter(t) \/ InitSuper(t) \/ InitIfaces(t) \/ InitStatics(t) \/ Clinit(t) \/ DefaultSupers(t)
       \/ DefaultSuperDone(t) \/ VerifySuper(t) \/ VerifySuperDone(t) \/ VerifySuperOk(t)
       \/ VerifyIfaces(t) \/ VerifyIfaceDone(t) \/ VerifyIfaceOk(t) \/ PerformClassVerification(t)
       => UNCHANGED status
  BY DEF InitEnter, InitSuper, InitIfaces, InitStatics, Clinit, DefaultSupers, DefaultSuperDone, VerifySuper,
     VerifySuperDone, VerifySuperOk, VerifyIfaces, VerifyIfaceDone, VerifyIfaceOk, PerformClassVerification, cvars
<1>8. QED BY <1>3, <1>5, <1>6, <1>7, Zenon DEF Step

\* The phase of a class, from its status and the stacks.
PhaseOK == \A k \in Classes :
    /\ status[k] = "kErrorResolved" => Phase(k) = "failed"
    /\ status[k] = "kInitialized" => Phase(k) = "done"
    /\ status[k] = "kInitializing" /\ Runs(k) => Phase(k) = "clinit"
    /\ status[k] = "kInitializing" /\ ~Runs(k) => Phase(k) = "claimed"
    /\ status[k] \notin Over => Phase(k) = "fresh"

LEMMA PhaseIs ==
    ASSUME Safe
    PROVE  PhaseOK
<1> SUFFICES ASSUME NEW k \in Classes
             PROVE  /\ status[k] = "kErrorResolved" => Phase(k) = "failed"
                    /\ status[k] = "kInitialized" => Phase(k) = "done"
                    /\ status[k] = "kInitializing" /\ Runs(k) => Phase(k) = "clinit"
                    /\ status[k] = "kInitializing" /\ ~Runs(k) => Phase(k) = "claimed"
                    /\ status[k] \notin Over => Phase(k) = "fresh"
  BY DEF PhaseOK
<1>1. (\E t \in Threads : Doing(t, k, {"clinit", "finish"})) <=> Runs(k)
  <2>1. StackType
    BY DEF Safe, TypeOK, StackType
  <2>2. \A t \in Threads : Doing(t, k, {"clinit", "finish"}) <=>
            \E h \in Slots(t) : fr[t][h].fn = "Init" /\ fr[t][h].k = k /\ fr[t][h].pc \in {"clinit", "finish"}
    BY <2>1, FrameOf
  <2>3. QED BY <2>2 DEF Runs, InClinit
<1>2. CASE status[k] = "kErrorResolved"
  BY <1>2 DEF Phase, IsErroneous, IsInitialized, Over
<1>3. CASE status[k] = "kInitialized"
  BY <1>3 DEF Phase, IsErroneous, IsInitialized, Over
<1>4. CASE status[k] = "kInitializing"
  BY <1>1, <1>4 DEF Phase, IsErroneous, IsInitialized, Over
<1>5. CASE status[k] \notin Over
  BY <1>5 DEF Phase, IsErroneous, IsInitialized, Over
<1>6. QED BY <1>2, <1>3, <1>4, <1>5 DEF Over

LEMMA SamePhase ==
    ASSUME PhaseOK, PhaseOK', Safe, NEW k \in Classes, status'[k] = status[k], Runs(k)' <=> Runs(k)
    PROVE  Phase(k)' = Phase(k)
<1>1. CASE status[k] \in Over
  BY <1>1 DEF PhaseOK, Over
<1>2. CASE status[k] \notin Over
  BY <1>2 DEF PhaseOK, Over
<1>3. QED BY <1>1, <1>2

\* One class changes its phase, the others keep theirs.
LEMMA PhaseMoves ==
    ASSUME NEW j \in Classes, NEW p, Phase(j)' = p, \A k \in Classes : k # j => Phase(k)' = Phase(k)
    PROVE  [k \in Classes |-> Phase(k)]' = [[k \in Classes |-> Phase(k)] EXCEPT ![j] = p]
OBVIOUS

LEMMA StaticsMaps ==
    ASSUME Inv, Safe', PhaseOK, PhaseOK', NEW t \in Threads, InitStatics(t), NEW j, j = Top(t).k
    PROVE  Jls!Next
<1>1. At(t, "Init", "statics") /\ UNCHANGED <<status, clinitTid>>
  BY DEF InitStatics, cvars
<1>2. /\ depth[t] # 0 /\ depth[t] \in Slots(t) /\ Top(t) = top(t) /\ top(t) = fr[t][depth[t]] /\ j \in Classes
      /\ Top(t).fn = "Init" /\ Top(t).pc = "statics" /\ stack[t] # <<>> /\ StackType
  BY <1>1, Running, Below DEF Inv
<1>3. status[j] = "kInitializing" /\ clinitTid[j] = t /\ Claimed(Top(t))
  BY <1>2 DEF Inv, Safe, Core, ClaimsOK, Claimed, AfterClaim
<1>4. ~Runs(j)
  <2>1. SUFFICES ASSUME NEW u \in Threads, NEW h \in Slots(u), InClinit(fr[u][h]), fr[u][h].k = j
                 PROVE FALSE
    BY DEF Runs
  <2>2. Claimed(fr[u][h])
    BY <2>1 DEF InClinit, Claimed, AfterClaim
  <2>3. u = t
    BY <1>3, <2>1, <2>2 DEF Inv, Safe, Core, ClaimsOK
  <2>4. h = depth[t]
    BY <1>2, <1>3, <2>1, <2>2, <2>3 DEF Inv, Safe, Core, ClaimsOK
  <2>5. QED BY <1>2, <2>1, <2>3, <2>4 DEF InClinit
<1>5. PICK x : x.k = j /\ InClinit(x) /\ x \in Frames /\ stack' = [stack EXCEPT ![t] = <<x>> \o Tail(stack[t])]
  <2>1. StackType'
    BY DEF Safe, TypeOK, StackType
  <2>2. \/ GotoWith(t, "clinit", Touches[j])
        \/ Goto(t, "finish")
    BY DEF InitStatics
  <2>3. Top(t) \in Frames
    BY <1>1, Running DEF Inv
  <2>4. PICK x : x.k = j /\ InClinit(x) /\ stack' = [stack EXCEPT ![t] = <<x>> \o Tail(stack[t])]
    <3>1. CASE GotoWith(t, "clinit", Touches[j])
      <4>1. stack' = [stack EXCEPT ![t] = <<Frame(Top(t).fn, j, "clinit", Touches[j])>> \o Tail(stack[t])]
        BY <3>1 DEF GotoWith, MovedWith
      <4>2. InClinit(Frame(Top(t).fn, j, "clinit", Touches[j])) /\ Frame(Top(t).fn, j, "clinit", Touches[j]).k = j
        BY <1>2 DEF Frame, InClinit
      <4>3. QED BY <4>1, <4>2
    <3>2. CASE Goto(t, "finish")
      <4>1. stack' = [stack EXCEPT ![t] = <<[Top(t) EXCEPT !.pc = "finish"]>> \o Tail(stack[t])]
        BY <3>2 DEF Goto, Moved
      <4>2. InClinit([Top(t) EXCEPT !.pc = "finish"]) /\ [Top(t) EXCEPT !.pc = "finish"].k = j
        BY <1>2, <2>3 DEF Frames, InClinit
      <4>3. QED BY <4>1, <4>2
    <3>3. QED BY <2>2, <3>1, <3>2
  <2>5. stack'[t] = <<x>> \o Tail(stack[t]) /\ stack'[t] \in Seq(Frames) /\ Tail(stack[t]) \in Seq(Frames)
    BY <1>2, <2>1, <2>4 DEF StackType
  <2>6. stack'[t][1] = x /\ 1 \in 1..Len(stack'[t])
    BY <2>5
  <2>7. x \in Frames
    BY <2>5, <2>6
  <2>8. QED BY <2>4, <2>7
<1>6. FrGoto(t, x)
  BY <1>2, <1>5, Gotos
<1>7. /\ \A u \in Threads : Slots(u)' = Slots(u)
      /\ fr'[t][depth[t]] = x
      /\ \A u \in Threads : \A h \in Slots(u) : ~(u = t /\ h = depth[t]) => fr'[u][h] = fr[u][h]
  BY <1>2, <1>6, GotoSlots
<1>8. Runs(j)'
  BY <1>2, <1>5, <1>7 DEF Runs, InClinit
<1>9. ASSUME NEW k \in Classes, k # j PROVE Runs(k)' <=> Runs(k)
  BY <1>2, <1>5, <1>7, <1>9 DEF Runs, InClinit
<1>10. Phase(j) = "claimed" /\ Phase(j)' = "clinit" /\ \A k \in Classes : k # j => Phase(k)' = Phase(k)
  <2>1. Phase(j) = "claimed"
    BY <1>2, <1>3, <1>4 DEF PhaseOK
  <2>2. Phase(j)' = "clinit"
    BY <1>1, <1>2, <1>3, <1>8 DEF PhaseOK
  <2>3. QED BY <1>1, <1>9, <2>1, <2>2, SamePhase DEF Inv
<1>11. Super[j] = NoClass \/ Phase(Super[j]) = "done" \/ clinitTid[Super[j]] = t
  <2>1. ReadyAt(t, depth[t])
    BY <1>2 DEF Inv, Own, ReadyOf
  <2>2. Super[j] # NoClass => Super[j] \in Classes
    BY <1>2, InitAssumption
  <2>3. ASSUME Super[j] # NoClass PROVE IsInitialized(Super[j]) \/ clinitTid[Super[j]] = t
    BY <1>2, <2>1, <2>3 DEF ReadyAt, PastSuper, Inv, Safe, Core, ClaimsOK
  <2>4. QED BY <2>2, <2>3 DEF PhaseOK, IsInitialized
<1>12. Jls!SuperReady(t, j)
  BY <1>2, <1>11, InitAssumption DEF Jls!SuperReady
<1>13. Jls!Run(t, j)
  BY <1>1, <1>2, <1>3, <1>10, <1>12, PhaseMoves DEF Jls!Run
<1>14. QED BY <1>2, <1>13 DEF Jls!Next

LEMMA FinishMaps ==
    ASSUME Inv, Safe', PhaseOK, PhaseOK', NEW t \in Threads, InitFinish(t), NEW j, j = Top(t).k
    PROVE  Jls!Next
<1>1. /\ At(t, "Init", "finish") /\ UNCHANGED clinitTid /\ stack' = [stack EXCEPT ![t] = Tail(@)]
      /\ status' = [status EXCEPT ![j] = IF exc[t] = "none" THEN "kInitialized" ELSE "kErrorResolved"]
  BY DEF InitFinish, SetStatus, Return
<1>2. /\ depth[t] # 0 /\ depth[t] \in Slots(t) /\ Top(t) = top(t) /\ top(t) = fr[t][depth[t]] /\ j \in Classes
      /\ Top(t).fn = "Init" /\ Top(t).pc = "finish" /\ stack[t] # <<>> /\ StackType
  BY <1>1, Running, Below DEF Inv
<1>3. status[j] = "kInitializing" /\ clinitTid[j] = t
  BY <1>2 DEF Inv, Safe, Core, ClaimsOK, Claimed, AfterClaim
<1>4. Runs(j)
  BY <1>2 DEF Runs, InClinit
<1>5. \A k \in Classes : k # j => (Runs(k)' <=> Runs(k))
  BY <1>1, <1>2, RunsReturn
<1>6. /\ status'[j] \in {"kInitialized", "kErrorResolved"}
      /\ \A k \in Classes : k # j => status'[k] = status[k]
  BY <1>1, <1>2 DEF Inv, Safe, TypeOK
<1>7. Phase(j) = "clinit" /\ Phase(j)' \in {"done", "failed"} /\ \A k \in Classes : k # j => Phase(k)' = Phase(k)
  <2>1. Phase(j) = "clinit"
    BY <1>2, <1>3, <1>4 DEF PhaseOK
  <2>2. Phase(j)' \in {"done", "failed"}
    BY <1>2, <1>6 DEF PhaseOK
  <2>3. QED BY <1>5, <1>6, <2>1, <2>2, SamePhase DEF Inv
<1>8. CASE Phase(j)' = "done"
  <2>1. Jls!Finish(t, j)
    BY <1>1, <1>2, <1>3, <1>7, <1>8, PhaseMoves DEF Jls!Finish
  <2>2. QED BY <1>2, <2>1 DEF Jls!Next
<1>9. CASE Phase(j)' = "failed"
  <2>1. Jls!Fail(t, j)
    BY <1>1, <1>2, <1>3, <1>7, <1>9, PhaseMoves DEF Jls!Fail
  <2>2. QED BY <1>2, <2>1 DEF Jls!Next
<1>10. QED BY <1>7, <1>8, <1>9

\* The other steps: the status of the class at hand says it all.
LEMMA OtherMaps ==
    ASSUME Inv, Safe', PhaseOK, PhaseOK', NEW t \in Threads, Step(t), ~InitStatics(t), ~InitFinish(t),
           NEW j, j = top(t).k
    PROVE  [Jls!Next]_(Jls!vars)
<1>1. /\ \A k \in Classes : Evolves(t, k)
      /\ \A k \in Classes : Runs(k)' <=> Runs(k)
      /\ status \in [Classes -> Statuses] /\ status' \in [Classes -> Statuses]
      /\ clinitTid \in [Classes -> Threads \union {NoThread}]
      /\ clinitTid' \in [Classes -> Threads \union {NoThread}]
  BY StepEvolves, StepRuns DEF Inv, Own, RunsKept, Safe, TypeOK
<1>2. ASSUME NEW k \in Classes, status'[k] = status[k]
      PROVE Phase(k)' = Phase(k) /\ clinitTid'[k] = clinitTid[k]
  <2>1. Phase(k)' = Phase(k)
    BY <1>1, <1>2, SamePhase DEF Inv
  <2>2. QED BY <1>1, <1>2, <2>1 DEF Evolves
<1>3. CASE \A k \in Classes : status'[k] = status[k]
  <2>1. \A k \in Classes : Phase(k)' = Phase(k)
    BY <1>2, <1>3
  <2>2. [k \in Classes |-> Phase(k)]' = [k \in Classes |-> Phase(k)]
    BY <2>1
  <2>3. \A k \in Classes : clinitTid'[k] = clinitTid[k]
    BY <1>2, <1>3
  <2>4. clinitTid' = clinitTid
    BY <1>1, <2>3
  <2>5. QED BY <2>2, <2>4 DEF Jls!vars
<1>4. ASSUME j \in Classes, status'[j] # status[j]
      PROVE [Jls!Next]_(Jls!vars)
  <2>1. \A k \in Classes : k # j => status'[k] = status[k]
    BY <1>1 DEF Evolves
  <2>2. \A k \in Classes : k # j => Phase(k)' = Phase(k) /\ clinitTid'[k] = clinitTid[k]
    BY <1>2, <2>1
  <2>3. Advance(status[j], status'[j])
    BY <1>1, <1>4 DEF Evolves
  <2>4. CASE status'[j] \notin Over
    <3>1. Phase(j) = "fresh" /\ Phase(j)' = "fresh" /\ clinitTid'[j] = clinitTid[j]
      BY <1>1, <1>4, <2>3, <2>4 DEF Advance, Over, PhaseOK, Evolves
    <3>2. \A k \in Classes : Phase(k)' = Phase(k)
      BY <2>2, <3>1
    <3>3. clinitTid' = clinitTid
      BY <1>1, <2>2, <3>1
    <3>4. [k \in Classes |-> Phase(k)]' = [k \in Classes |-> Phase(k)]
      BY <3>2
    <3>5. QED BY <3>3, <3>4 DEF Jls!vars
  <2>5. CASE status'[j] = "kInitializing"
    <3>1. status[j] = "kVerified"
      BY <1>4, <2>3, <2>5 DEF Advance
    <3>2. ~Runs(j)
      <4>1. ASSUME NEW u \in Threads, NEW h \in Slots(u), InClinit(fr[u][h]) PROVE fr[u][h].k # j
        BY <3>1, <4>1 DEF InClinit, Inv, Safe, Core, ClaimsOK, Claimed, AfterClaim
      <4>2. QED BY <4>1 DEF Runs
    <3>3. Phase(j) = "fresh" /\ Phase(j)' = "claimed"
      BY <1>1, <1>4, <2>5, <3>1, <3>2 DEF PhaseOK, Over
    <3>4. clinitTid'[j] = t
      <4>1. clinitTid[j] = NoThread
        BY <1>4, <3>1, InitAssumption DEF Inv, Safe, Core, ClaimsOK, Over
      <4>2. clinitTid'[j] \in Threads
        BY <1>4, <2>5 DEF Safe, TypeOK
      <4>3. QED BY <1>1, <1>4, <4>1, <4>2, InitAssumption DEF Evolves
    <3>5. clinitTid' = [clinitTid EXCEPT ![j] = t]
      BY <1>1, <2>2, <3>4 DEF Inv, Safe, TypeOK
    <3>6. Jls!Claim(t, j)
      BY <1>4, <2>2, <3>3, <3>5, PhaseMoves DEF Jls!Claim
    <3>7. QED BY <1>4, <3>6 DEF Jls!Next
  <2>6. CASE status'[j] = "kErrorResolved"
    <3>1. Phase(j)' = "failed" /\ clinitTid'[j] = clinitTid[j]
      BY <1>1, <1>4, <2>6 DEF PhaseOK, Evolves
    <3>2. Phase(j) = "fresh" \/ (Phase(j) \in {"claimed", "clinit"} /\ clinitTid[j] = t)
      <4>1. CASE status[j] = "kInitializing"
        BY <1>1, <1>4, <4>1 DEF PhaseOK, Evolves
      <4>2. CASE status[j] # "kInitializing"
        <5>1. status[j] \notin Over
          BY <1>4, <2>3, <2>6, <4>2 DEF Advance, Over
        <5>2. QED BY <1>4, <5>1 DEF PhaseOK
      <4>3. QED BY <4>1, <4>2
    <3>3. clinitTid' = clinitTid
      BY <1>1, <2>2, <3>1
    <3>4. Jls!Fail(t, j)
      BY <1>4, <2>2, <3>1, <3>2, <3>3, PhaseMoves DEF Jls!Fail
    <3>5. QED BY <1>4, <3>4 DEF Jls!Next
  <2>7. status'[j] # "kInitialized"
    <3>1. SUFFICES ASSUME status'[j] = "kInitialized" PROVE FALSE
      OBVIOUS
    <3>2. InitFinish(t)
      BY <1>4, <3>1, OnlyFinish DEF Inv
    <3>3. QED BY <3>2
  <2>8. QED BY <2>4, <2>5, <2>6, <2>7 DEF Over
<1>5. QED
  <2>1. j \in Classes \/ \A k \in Classes : status'[k] = status[k]
    BY <1>1 DEF Evolves
  <2>2. j \in Classes /\ status'[j] = status[j] => \A k \in Classes : status'[k] = status[k]
    BY <1>1 DEF Evolves
  <2>3. QED BY <1>3, <1>4, <2>1, <2>2

\* InitializeClass implements the initialisation procedure of the language: a
\* class is claimed by one thread, <clinit> is started by that thread, once, and
\* only when the superclass is done or in its own hands, and the class then ends
\* for good, initialised or erroneous; whoever asks, waits or is woken early.
THEOREM ImplementsJlsAlways == Spec => ImplementsJls
<1>1. Safe => PhaseOK
  BY PhaseIs
<1>2. Init /\ PhaseOK => Jls!Init
  <2>1. SUFFICES ASSUME Init, PhaseOK PROVE Jls!Init
    OBVIOUS
  <2>2. \A k \in Classes : status[k] \notin Over
    BY <2>1 DEF Init, Over
  <2>3. \A k \in Classes : Phase(k) = "fresh"
    BY <2>1, <2>2 DEF PhaseOK
  <2>4. clinitTid = [k \in Classes |-> NoThread]
    BY <2>1 DEF Init
  <2>5. QED BY <2>3, <2>4 DEF Jls!Init
<1>3. Inv /\ Safe' /\ PhaseOK /\ PhaseOK' /\ [Next]_vars => [Jls!Next]_(Jls!vars)
  <2>1. SUFFICES ASSUME Inv, Safe', PhaseOK, PhaseOK', [Next]_vars PROVE [Jls!Next]_(Jls!vars)
    OBVIOUS
  <2>2. ASSUME UNCHANGED <<status, clinitTid>>, RunsKept PROVE [Jls!Next]_(Jls!vars)
    <3>1. \A k \in Classes : Phase(k)' = Phase(k)
      BY <2>1, <2>2, SamePhase DEF Inv, RunsKept
    <3>2. [k \in Classes |-> Phase(k)]' = [k \in Classes |-> Phase(k)]
      BY <3>1
    <3>3. QED BY <2>2, <3>2 DEF Jls!vars
  <2>3. ASSUME stack' = stack PROVE RunsKept
    BY <2>3 DEF RunsKept, Runs, Slots, depth, fr
  <2>4. CASE UNCHANGED vars
    BY <2>2, <2>3, <2>4 DEF vars, cvars
  <2>5. ASSUME NEW t \in Threads, Step(t) PROVE [Jls!Next]_(Jls!vars)
    <3>1. (\E j : j = Top(t).k) /\ \E j : j = top(t).k
      OBVIOUS
    <3>2. QED BY <2>1, <2>5, <3>1, StaticsMaps, FinishMaps, OtherMaps
  <2>6. ASSUME NEW t \in Threads, WakeEarly(t) PROVE [Jls!Next]_(Jls!vars)
    BY <2>2, <2>3, <2>6 DEF WakeEarly, cvars
  <2>7. ASSUME NEW t \in Threads, NEW k \in Roots, EnsureInitialized(t, k) PROVE [Jls!Next]_(Jls!vars)
    <3>1. UNCHANGED <<status, clinitTid>>
      BY <2>7 DEF EnsureInitialized, cvars
    <3>2. PICK x : x = InitFrame(k)
      OBVIOUS
    <3>3. ~InClinit(x)
      BY <3>2 DEF InitFrame, Frame, InClinit
    <3>4. Slots(t) = {} /\ Slots(t)' = {1} /\ fr'[t][1] = x
      BY <2>1, <2>7, <3>2, EnsureFrames DEF Inv
    <3>5. \A u \in Threads : u # t => stack'[u] = stack[u]
      BY <2>1, <2>7 DEF EnsureInitialized, Inv, Safe, TypeOK
    <3>6. \A u \in Threads : u # t => Slots(u)' = Slots(u) /\ fr'[u] = fr[u]
      BY <3>5, SameFrames
    <3>7. RunsKept
      BY <3>3, <3>4, <3>6 DEF RunsKept, Runs, InClinit
    <3>8. QED BY <2>2, <3>1, <3>7
  <2>8. QED BY <2>1, <2>4, <2>5, <2>6, <2>7 DEF Next, Ended
<1>4. Inv => Safe
  BY DEF Inv
<1>5. QED BY <1>1, <1>2, <1>3, <1>4, InvAlways, PTL DEF Spec, ImplementsJls, Jls!Spec

-----------------------------------------------------------------------------
\* The supertypes come first, when no class needs itself (NoCircle).

\* The default methods of interface i, and of those above it, may be used; a
\* class may run, or be done.
IfaceReady(i) == \A s \in ({i} \union IfSet[i]) \intersect HasDefault : IsInitialized(s)
SupersDone(k) == \A s \in (IfSet[k] \intersect HasDefault) \union ({Super[k]} \ {NoClass}) : IsInitialized(s)

\* A frame that has called for the first interface of its list.
Asks(f) == \/ f.fn = "Init" /\ f.pc = "ifaceDone"
           \/ f.fn = "Default" /\ f.pc = "superDone"
\* What is left of the list of a frame, and what of it is ready.
LeftAt(f) ==
    /\ f.fn = "Init" /\ f.pc \in {"ifaces", "ifaceDone"} => Range(f.todo) \subseteq Range(Direct[f.k])
    /\ f.fn = "Init" /\ f.pc = "clinit" => Range(f.todo) \subseteq Range(Touches[f.k])
    /\ f.fn = "Default" => Range(f.todo) \subseteq Range(Direct[f.k])
PassedAt(f) ==
    /\ f.fn = "Init" /\ f.k \notin Interfaces =>
           /\ f.pc \in PastSuper /\ Super[f.k] # NoClass => IsInitialized(Super[f.k])
           /\ f.pc \in {"ifaces", "ifaceDone"} =>
                  \A i \in Range(Direct[f.k]) \ Range(f.todo) : IfaceReady(i)
           /\ f.pc \in {"statics", "clinit", "finish"} => \A i \in Range(Direct[f.k]) : IfaceReady(i)
    /\ f.fn = "Default" =>
           /\ \A i \in Range(Direct[f.k]) \ Range(f.todo) : IfaceReady(i)
           /\ f.pc = "mark" => \A i \in Range(Direct[f.k]) : IfaceReady(i)
\* What a frame needs is below it, unless it is the same class not yet claimed.
OrderOf(t) == \A g, h \in Slots(t) : g < h =>
    \/ fr[t][h].k \in Needs(fr[t][g].k)
    \/ fr[t][h].k = fr[t][g].k /\ ~Claimed(fr[t][g])
\* A call of InitializeDefaultInterfaceRecursive that returned true.
ReplyOf(t) == depth[t] # 0 /\ ret[t] /\ Asks(top(t)) => IfaceReady(Head(top(t).todo))

Helped(t) == /\ \A h \in Slots(t) : LeftAt(fr[t][h]) /\ PassedAt(fr[t][h])
             /\ OrderOf(t) /\ ReplyOf(t)
Marked == /\ \A k \in Classes \ Interfaces : IsInitialized(k) => SupersDone(k)
          /\ \A i \in Interfaces : recInit[i] => IfaceReady(i)
First == Marked /\ \A t \in Threads : Helped(t)

\* What is needed is needed further down, and supertypes are needed.
LEMMA NeedsFacts ==
    ASSUME NEW k \in Classes
    PROVE  /\ Uses(k) \subseteq Needs(k) /\ Needs(k) \subseteq Classes
           /\ \A a \in Needs(k) : Needs(a) \subseteq Needs(k)
           /\ Above(k) \subseteq Needs(k)
<1>1. \A c \in Classes : Uses(c) \subseteq Classes /\ Parents(c) \subseteq Uses(c)
  <2> TAKE c \in Classes
  <2>1. Range(Direct[c]) \subseteq Interfaces /\ Range(Touches[c]) \subseteq Classes
    BY InitAssumption DEF Range
  <2>2. QED BY <2>1, InitAssumption DEF Uses, Parents
<1>2. Uses(k) \subseteq Needs(k) /\ Needs(k) \subseteq Classes
  BY <1>1 DEF Needs
<1>3. ASSUME NEW a \in Needs(k), NEW b \in Needs(a) PROVE b \in Needs(k)
  BY <1>3 DEF Needs
<1>4. ASSUME NEW a \in Above(k) PROVE a \in Needs(k)
  <2>1. ASSUME NEW S \in SUBSET Classes, Uses(k) \subseteq S, \A c \in S : Uses(c) \subseteq S
        PROVE a \in S
    <3>1. Parents(k) \subseteq S /\ \A c \in S : Parents(c) \subseteq S
      BY <2>1, <1>1
    <3>2. QED BY <3>1, <1>4 DEF Above
  <2>2. QED BY <2>1, <1>4 DEF Needs, Above
<1>5. QED BY <1>2, <1>3, <1>4

\* What is above k is a parent of k or above a parent.
LEMMA AboveSplit ==
    ASSUME NEW k \in Classes, NEW a \in Above(k)
    PROVE  a \in Parents(k) \/ \E p \in Parents(k) : a \in Above(p)
<1>1. PICK S : S = Parents(k) \union UNION {Above(p) : p \in Parents(k)}
  OBVIOUS
<1>2. Parents(k) \subseteq Classes
  BY AboveFacts
<1>3. \A c \in Classes : Parents(c) \subseteq Above(c) /\ Above(c) \subseteq Classes
                         /\ \A b \in Above(c) : Above(b) \subseteq Above(c)
  BY AboveFacts
<1>4. S \in SUBSET Classes
  BY <1>1, <1>2, <1>3
<1>5. ASSUME NEW c \in S PROVE Parents(c) \subseteq S
  <2>1. c \in Classes /\ Parents(c) \subseteq Above(c)
    BY <1>3, <1>4
  <2>2. CASE c \in Parents(k)
    BY <1>1, <2>1, <2>2
  <2>3. CASE c \notin Parents(k)
    <3>1. PICK p \in Parents(k) : c \in Above(p)
      BY <1>1, <2>3
    <3>2. Above(c) \subseteq Above(p)
      BY <1>2, <1>3, <3>1
    <3>3. QED BY <1>1, <2>1, <3>2
  <2>4. QED BY <2>2, <2>3
<1>6. a \in S
  BY <1>1, <1>4, <1>5 DEF Above
<1>7. QED BY <1>1, <1>6

\* An interface is ready when those it extends are, and itself if it counts.
LEMMA ReadyJoin ==
    ASSUME NEW k \in Interfaces, \A i \in Range(Direct[k]) : IfaceReady(i),
           k \in HasDefault => IsInitialized(k)
    PROVE  IfaceReady(k)
<1>1. k \in Classes /\ Parents(k) = Range(Direct[k])
  BY InitAssumption DEF Parents
<1>2. Parents(k) \subseteq Classes
  BY <1>1, AboveFacts
<1>3. ASSUME NEW s \in IfSet[k] \intersect HasDefault PROVE IsInitialized(s)
  <2>1. s \in Above(k) /\ s \in Interfaces
    BY <1>1 DEF IfSet
  <2>2. CASE s \in Parents(k)
    BY <1>1, <1>3, <2>2 DEF IfaceReady
  <2>3. CASE s \notin Parents(k)
    <3>1. PICK p \in Parents(k) : s \in Above(p)
      BY <1>1, <2>1, <2>3, AboveSplit
    <3>2. s \in IfSet[p]
      BY <1>2, <2>1, <3>1 DEF IfSet
    <3>3. QED BY <1>1, <1>3, <3>1, <3>2 DEF IfaceReady
  <2>4. QED BY <2>2, <2>3
<1>4. QED BY <1>3 DEF IfaceReady

\* A class may run when its superclass is done and its interfaces are ready.
LEMMA SupersJoin ==
    ASSUME NEW k \in Classes \ Interfaces, Marked, \A i \in Range(Direct[k]) : IfaceReady(i),
           Super[k] # NoClass => IsInitialized(Super[k])
    PROVE  SupersDone(k)
<1>1. Parents(k) = Range(Direct[k]) \union ({Super[k]} \ {NoClass}) /\ Parents(k) \subseteq Classes
  BY AboveFacts DEF Parents
<1>2. Super[k] # NoClass => Super[k] \in Classes \ Interfaces
  BY InitAssumption
<1>3. Super[k] # NoClass => SupersDone(Super[k])
  BY <1>2 DEF Marked
<1>4. ASSUME NEW s \in IfSet[k] \intersect HasDefault PROVE IsInitialized(s)
  <2>1. s \in Above(k) /\ s \in Interfaces
    BY DEF IfSet
  <2>2. CASE s \in Parents(k)
    BY <1>1, <1>2, <1>4, <2>1, <2>2 DEF IfaceReady
  <2>3. CASE s \notin Parents(k)
    <3>1. PICK p \in Parents(k) : s \in Above(p)
      BY <2>1, <2>3, AboveSplit
    <3>2. s \in IfSet[p]
      BY <1>1, <2>1, <3>1 DEF IfSet
    <3>3. CASE p \in Range(Direct[k])
      BY <1>4, <3>2, <3>3 DEF IfaceReady
    <3>4. CASE p = Super[k] /\ Super[k] # NoClass
      BY <1>3, <1>4, <3>2, <3>4 DEF SupersDone
    <3>5. QED BY <1>1, <3>3, <3>4
  <2>4. QED BY <2>2, <2>3
<1>5. QED BY <1>4 DEF SupersDone

\* The parts of a list that is gone through.
LEMMA ListParts ==
    ASSUME NEW S, NEW s \in Seq(S), s # <<>>
    PROVE  /\ Head(s) \in Range(s) /\ Range(Tail(s)) \subseteq Range(s)
           /\ Range(s) \subseteq {Head(s)} \union Range(Tail(s))
<1>1. Len(s) \in Nat \ {0} /\ DOMAIN s = 1..Len(s) /\ Head(s) = s[1] /\ 1 \in DOMAIN s
  OBVIOUS
<1>2. DOMAIN Tail(s) = 1..(Len(s) - 1) /\ \A n \in DOMAIN Tail(s) : n + 1 \in DOMAIN s /\ Tail(s)[n] = s[n + 1]
  BY <1>1
<1>3. \A n \in DOMAIN s : n # 1 => n - 1 \in DOMAIN Tail(s) /\ Tail(s)[n - 1] = s[n]
  BY <1>1, <1>2
<1>4. Head(s) \in Range(s) /\ Range(Tail(s)) \subseteq Range(s)
  BY <1>1, <1>2 DEF Range
<1>5. ASSUME NEW n \in DOMAIN s PROVE s[n] \in {Head(s)} \union Range(Tail(s))
  BY <1>1, <1>3 DEF Range
<1>6. QED BY <1>4, <1>5 DEF Range

\* Nobody claims, further down his stack, a class that what he is at needs.
LEMMA NotBelow ==
    ASSUME NoCircle, Safe, NEW t \in Threads, OrderOf(t), NEW g \in Slots(t), NEW h \in Slots(t), g < h,
           fr[t][g].k = fr[t][h].k \/ fr[t][g].k \in Needs(fr[t][h].k)
    PROVE  ~Claimed(fr[t][g])
<1>1. fr[t][g].k \in Classes /\ fr[t][h].k \in Classes
  BY FrType DEF Safe, TypeOK, StackType, Slots, Frames
<1>2. SUFFICES ASSUME Claimed(fr[t][g]) PROVE FALSE
  OBVIOUS
<1>3. fr[t][h].k \in Needs(fr[t][g].k)
  BY <1>2 DEF OrderOf
<1>4. fr[t][g].k \in Needs(fr[t][g].k)
  BY <1>1, <1>3, NeedsFacts
<1>5. QED BY <1>1, <1>4 DEF NoCircle

\* So a class a call answers for is done, not in the caller's own hands.
LEMMA Settled ==
    ASSUME NoCircle, Safe, NEW t \in Threads, depth[t] # 0, OrderOf(t), NEW c \in Classes, Returned(t, c),
           c \in Needs(top(t).k) \/ (c = top(t).k /\ ~Claimed(top(t)))
    PROVE  IsInitialized(c)
<1>1. depth[t] \in Nat \ {0} /\ depth[t] \in Slots(t) /\ top(t) = fr[t][depth[t]] /\ top(t).k \in Classes
  BY Below
<1>2. SUFFICES ASSUME status[c] = "kInitializing", clinitTid[c] = t PROVE FALSE
  BY DEF Returned
<1>3. PICK h \in Slots(t) : Claimed(fr[t][h]) /\ fr[t][h].k = c
  BY <1>2 DEF Safe, Core, ClaimsOK
<1>4. CASE h = depth[t]
  BY <1>1, <1>3, <1>4 DEF NoCircle
<1>5. CASE h # depth[t]
  <2>1. h < depth[t]
    BY <1>1, <1>5 DEF Slots
  <2>2. QED BY <1>1, <1>3, <2>1, NotBelow
<1>6. QED BY <1>4, <1>5

\* What is ready stays ready, whatever a thread does.
LEMMA PassedKeep ==
    ASSUME \A k \in Classes : IsInitialized(k) => IsInitialized(k)'
    PROVE  /\ \A i : IfaceReady(i) => IfaceReady(i)'
           /\ \A k \in Classes : SupersDone(k) => SupersDone(k)'
           /\ \A f : f.k \in Classes /\ PassedAt(f) => PassedAt(f)'
<1>1. HasDefault \subseteq Classes /\ \A k \in Classes : Super[k] # NoClass => Super[k] \in Classes
  BY InitAssumption
<1>2. ASSUME NEW i, IfaceReady(i) PROVE IfaceReady(i)'
  BY <1>1, <1>2 DEF IfaceReady
<1>3. ASSUME NEW k \in Classes, SupersDone(k) PROVE SupersDone(k)'
  BY <1>1, <1>3 DEF SupersDone
<1>4. ASSUME NEW f, f.k \in Classes, PassedAt(f) PROVE PassedAt(f)'
  BY <1>1, <1>2, <1>4 DEF PassedAt
<1>5. QED BY <1>2, <1>3, <1>4

\* The moves of a thread: the top frame goes on as x, calls c, or returns.
LEMMA FirstGoto ==
    ASSUME NEW t \in Threads, Moving(t), depth[t] # 0, Helped(t), NEW x, FrGoto(t, x),
           x.k = top(t).k, LeftAt(x), PassedAt(x), ~Asks(x)
    PROVE  Helped(t)'
<1>1. /\ Low(t) /\ depth'[t] = depth[t] /\ Slots(t)' = Slots(t) /\ fr'[t][depth[t]] = x /\ top(t)' = x
      /\ depth[t] \in Nat \ {0} /\ depth[t] \in Slots(t) /\ top(t) = fr[t][depth[t]]
      /\ \A h \in Slots(t) : fr[t][h].k \in Classes
  BY Lows, Below DEF Moving
<1>2. \A k \in Classes : IsInitialized(k) => IsInitialized(k)'
  BY Steady DEF Moving
<1>3. \A f : f.k \in Classes /\ PassedAt(f) => PassedAt(f)'
  BY <1>2, PassedKeep
<1>4. \A h \in Slots(t)' : LeftAt(fr'[t][h]) /\ fr'[t][h].k \in Classes /\ PassedAt(fr'[t][h])
  BY <1>1 DEF Low, Helped
<1>5. ASSUME NEW h \in Slots(t)' PROVE LeftAt(fr[t][h])' /\ PassedAt(fr[t][h])'
  <2>1. PICK f : f = fr'[t][h]
    OBVIOUS
  <2>2. LeftAt(f) /\ PassedAt(f)'
    BY <1>3, <1>4, <2>1
  <2>3. QED BY <2>1, <2>2 DEF LeftAt, PassedAt
<1>6. OrderOf(t)'
  <2>1. ASSUME NEW g \in Slots(t), NEW h \in Slots(t), g < h
        PROVE fr'[t][g] = fr[t][g] /\ fr'[t][h].k = fr[t][h].k
    BY <1>1, <2>1 DEF Low, Slots
  <2>2. QED BY <1>1, <2>1 DEF Helped, OrderOf, Claimed
<1>7. ReplyOf(t)'
  BY <1>1 DEF ReplyOf, Asks
<1>8. QED BY <1>5, <1>6, <1>7 DEF Helped

LEMMA FirstCall ==
    ASSUME NEW t \in Threads, Moving(t), depth[t] # 0, Helped(t), NEW x, NEW c, FrCall(t, x, c),
           x.k = top(t).k, LeftAt(x), PassedAt(x), c.k \in Classes, LeftAt(c), PassedAt(c), ~Asks(c),
           c.k \in Needs(x.k) \/ (c.k = x.k /\ ~Claimed(x))
    PROVE  Helped(t)'
<1>1. /\ Low(t) /\ depth'[t] = depth[t] + 1 /\ Slots(t)' = Slots(t) \union {depth[t] + 1}
      /\ fr'[t][depth[t]] = x /\ fr'[t][depth[t] + 1] = c /\ top(t)' = c
      /\ depth[t] \in Nat \ {0} /\ depth[t] \in Slots(t) /\ top(t) = fr[t][depth[t]]
      /\ \A h \in Slots(t) : fr[t][h].k \in Classes
  BY Lows, Below DEF Moving
<1>2. \A k \in Classes : IsInitialized(k) => IsInitialized(k)'
  BY Steady DEF Moving
<1>3. \A f : f.k \in Classes /\ PassedAt(f) => PassedAt(f)'
  BY <1>2, PassedKeep
<1>4. \A h \in Slots(t)' : LeftAt(fr'[t][h]) /\ fr'[t][h].k \in Classes /\ PassedAt(fr'[t][h])
  BY <1>1 DEF Low, Helped
<1>5. ASSUME NEW h \in Slots(t)' PROVE LeftAt(fr[t][h])' /\ PassedAt(fr[t][h])'
  <2>1. PICK f : f = fr'[t][h]
    OBVIOUS
  <2>2. LeftAt(f) /\ PassedAt(f)'
    BY <1>3, <1>4, <2>1
  <2>3. QED BY <2>1, <2>2 DEF LeftAt, PassedAt
<1>6. ASSUME NEW g \in Slots(t)', NEW h \in Slots(t)', g < h
      PROVE  fr'[t][h].k \in Needs(fr'[t][g].k) \/ (fr'[t][h].k = fr'[t][g].k /\ ~Claimed(fr'[t][g]))
  <2>1. g \in Slots(t)
    BY <1>1, <1>6 DEF Slots
  <2>2. CASE h \in Slots(t)
    <3>1. fr'[t][g] = fr[t][g] /\ fr'[t][h].k = fr[t][h].k
      BY <1>1, <1>6, <2>1, <2>2 DEF Low, Slots
    <3>2. QED BY <1>6, <2>1, <2>2, <3>1 DEF Helped, OrderOf
  <2>3. CASE h \notin Slots(t)
    <3>1. fr'[t][h] = c
      BY <1>1, <2>3
    <3>2. CASE g = depth[t]
      BY <1>1, <3>1, <3>2
    <3>3. CASE g # depth[t]
      <4>1. g < depth[t] /\ fr'[t][g] = fr[t][g]
        BY <1>1, <2>1, <3>3 DEF Low, Slots
      <4>2. \/ x.k \in Needs(fr[t][g].k)
            \/ x.k = fr[t][g].k /\ ~Claimed(fr[t][g])
        BY <1>1, <2>1, <4>1 DEF Helped, OrderOf
      <4>3. fr[t][g].k \in Classes
        BY <1>1, <2>1
      <4>4. \A a \in Needs(fr[t][g].k) : Needs(a) \subseteq Needs(fr[t][g].k)
        BY <4>3, NeedsFacts
      <4>5. QED BY <3>1, <4>1, <4>2, <4>4
    <3>4. QED BY <3>2, <3>3
  <2>4. QED BY <2>2, <2>3
<1>7. OrderOf(t)'
  BY <1>6 DEF OrderOf, Claimed
<1>8. ReplyOf(t)'
  BY <1>1 DEF ReplyOf, Asks
<1>9. QED BY <1>5, <1>7, <1>8 DEF Helped

LEMMA FirstReturn ==
    ASSUME NEW t \in Threads, Moving(t), depth[t] # 0, Helped(t), FrReturn(t),
           NEW v \in BOOLEAN, ret' = [ret EXCEPT ![t] = v],
           v /\ top(t).fn = "Default" => IfaceReady(top(t).k)
    PROVE  Helped(t)'
<1>1. /\ Low(t) /\ depth'[t] = depth[t] - 1 /\ Slots(t)' = Slots(t) \ {depth[t]}
      /\ (depth'[t] # 0 => top(t)' = fr[t][depth[t] - 1])
      /\ depth[t] \in Nat \ {0} /\ depth[t] \in Slots(t) /\ top(t) = fr[t][depth[t]]
      /\ \A h \in Slots(t) : fr[t][h].k \in Classes
  BY Lows, Below DEF Moving
<1>2. \A k \in Classes : IsInitialized(k) => IsInitialized(k)'
  BY Steady DEF Moving
<1>3. (\A f : f.k \in Classes /\ PassedAt(f) => PassedAt(f)') /\ (\A i : IfaceReady(i) => IfaceReady(i)')
  BY <1>2, PassedKeep
<1>4. \A h \in Slots(t)' : h \in Slots(t) /\ fr'[t][h] = fr[t][h]
  BY <1>1 DEF Low
<1>5. ASSUME NEW h \in Slots(t)' PROVE LeftAt(fr[t][h])' /\ PassedAt(fr[t][h])'
  <2>1. PICK f : f = fr'[t][h]
    OBVIOUS
  <2>2. LeftAt(f) /\ PassedAt(f)'
    BY <1>1, <1>3, <1>4, <2>1 DEF Helped
  <2>3. QED BY <2>1, <2>2 DEF LeftAt, PassedAt
<1>6. OrderOf(t)'
  BY <1>4 DEF Helped, OrderOf, Claimed
<1>7. PICK i, f : f = fr[t][depth[t] - 1] /\ i = Head(f.todo)
  OBVIOUS
<1>8. ASSUME depth'[t] # 0, ret'[t], Asks(f) PROVE IfaceReady(i)'
  <2>1. depth[t] - 1 \in Slots(t) /\ depth[t] - 1 # depth[t] /\ (depth[t] - 1) + 1 = depth[t]
    BY <1>1, <1>8 DEF Slots
  <2>2. CalledBy(top(t), f)
    BY <1>1, <1>7, <2>1 DEF Moving, Safe, Core, CallsOK
  <2>3. top(t).fn = "Default" /\ top(t).k = i
    BY <1>7, <1>8, <2>2 DEF Asks, CalledBy
  <2>4. v
    BY <1>8 DEF Moving, Safe, TypeOK
  <2>5. QED BY <1>3, <2>3, <2>4
<1>9. ReplyOf(t)'
  BY <1>1, <1>7, <1>8 DEF ReplyOf, Asks, IfaceReady, IsInitialized
<1>10. QED BY <1>5, <1>6, <1>9 DEF Helped

\* The same for the moves as the actions write them.
LEMMA FirstKnows ==
    ASSUME NEW t \in Threads, Moving(t), Helped(t), NEW fn, NEW p, At(t, fn, p)
    PROVE  /\ Safe /\ StackType /\ depth[t] # 0 /\ stack[t] # <<>> /\ Top(t) = top(t)
           /\ Top(t).k \in Classes /\ FrameOK(Top(t)) /\ Top(t).todo \in Todos
           /\ Top(t).fn = fn /\ Top(t).pc = p
           /\ LeftAt(Top(t)) /\ PassedAt(Top(t)) /\ OrderOf(t) /\ (ret[t] => Answered(t, Top(t)))
           /\ ret[t] /\ Asks(Top(t)) => IfaceReady(Head(Top(t).todo))
           /\ ret[t] \in BOOLEAN
<1>1. /\ Safe /\ StackType /\ depth[t] # 0 /\ stack[t] # <<>> /\ Top(t) = top(t)
      /\ Top(t).k \in Classes /\ FrameOK(Top(t)) /\ Top(t).todo \in Todos
      /\ Top(t).fn = fn /\ Top(t).pc = p /\ (ret[t] => Answered(t, Top(t))) /\ ret[t] \in BOOLEAN
  BY Knows
<1>2. depth[t] \in Slots(t) /\ top(t) = fr[t][depth[t]]
  BY <1>1, Below
<1>3. QED BY <1>1, <1>2 DEF Helped, ReplyOf

\* The frames on a stack that is one again after the step are frames.
LEMMA Pushed ==
    ASSUME StackType, StackType', NEW t \in Threads, stack[t] # <<>>, NEW x,
           stack' = [stack EXCEPT ![t] = <<x>> \o Tail(stack[t])]
    PROVE  x \in Frames
<1>1. PICK S : S = Frames \union {x}
  OBVIOUS
<1>2. Tail(stack[t]) \in Seq(S)
  BY <1>1 DEF StackType
<1>3. x \in S
  BY <1>1
<1>4. <<x>> \o Tail(stack[t]) \in Seq(S) /\ (<<x>> \o Tail(stack[t]))[1] = x /\ Len(<<x>> \o Tail(stack[t])) >= 1
  BY <1>2, <1>3
<1>5. <<x>> \o Tail(stack[t]) \in Seq(Frames)
  BY DEF StackType
<1>6. QED BY <1>4, <1>5

LEMMA PushedTwo ==
    ASSUME StackType, StackType', NEW t \in Threads, stack[t] # <<>>, NEW x, NEW c,
           stack' = [stack EXCEPT ![t] = <<c>> \o (<<x>> \o Tail(stack[t]))]
    PROVE  x \in Frames /\ c \in Frames
<1>1. PICK S : S = Frames \union {x, c}
  OBVIOUS
<1>2. Tail(stack[t]) \in Seq(S) /\ x \in S /\ c \in S
  BY <1>1 DEF StackType
<1>3. PICK r : r = <<x>> \o Tail(stack[t])
  OBVIOUS
<1>4. r \in Seq(S) /\ r[1] = x /\ Len(r) >= 1
  BY <1>2, <1>3
<1>5. <<c>> \o r \in Seq(S) /\ (<<c>> \o r)[1] = c /\ (<<c>> \o r)[2] = x /\ Len(<<c>> \o r) >= 2
  BY <1>2, <1>4
<1>6. <<c>> \o r \in Seq(Frames)
  BY <1>3 DEF StackType
<1>7. QED BY <1>5, <1>6

LEMMA HelpGoto ==
    ASSUME NEW t \in Threads, Moving(t), Helped(t), NEW fn, NEW p, At(t, fn, p), NEW pc, NEW todo,
           \/ Goto(t, pc) /\ todo = Top(t).todo
           \/ GotoWith(t, pc, todo)
           \/ stack' = [stack EXCEPT ![t] = Moved(t, pc)] /\ todo = Top(t).todo,
           LeftAt(Frame(fn, Top(t).k, pc, todo)), PassedAt(Frame(fn, Top(t).k, pc, todo)),
           ~Asks(Frame(fn, Top(t).k, pc, todo))
    PROVE  Helped(t)'
<1>1. PICK x : x = Frame(fn, Top(t).k, pc, todo)
  OBVIOUS
<1>2. /\ Safe /\ StackType /\ depth[t] # 0 /\ stack[t] # <<>> /\ Top(t) = top(t) /\ Top(t).fn = fn
      /\ Top(t) \in Frames
  BY FirstKnows, Below
<1>3. StackType'
  BY DEF Moving, Safe, TypeOK, StackType
<1>4. ASSUME todo = Top(t).todo PROVE [Top(t) EXCEPT !.pc = pc] = x
  BY <1>1, <1>2, <1>4 DEF Frame, Frames
<1>5. stack' = [stack EXCEPT ![t] = <<x>> \o Tail(stack[t])]
  BY <1>1, <1>2, <1>4 DEF Goto, Moved, GotoWith, MovedWith
<1>6. FrGoto(t, x)
  BY <1>2, <1>3, <1>5, Pushed, Gotos
<1>7. x.k = top(t).k
  BY <1>1, <1>2 DEF Frame
<1>8. QED BY <1>1, <1>2, <1>6, <1>7, FirstGoto

LEMMA HelpCall ==
    ASSUME NEW t \in Threads, Moving(t), Helped(t), NEW fn, NEW p, At(t, fn, p), NEW pc, NEW c, Call(t, pc, c),
           LeftAt(Frame(fn, Top(t).k, pc, Top(t).todo)), PassedAt(Frame(fn, Top(t).k, pc, Top(t).todo)),
           LeftAt(c), PassedAt(c), ~Asks(c),
           \/ c.k \in Needs(Top(t).k)
           \/ c.k = Top(t).k /\ ~(fn = "Init" /\ pc \in AfterClaim)
    PROVE  Helped(t)'
<1>1. PICK x : x = Frame(fn, Top(t).k, pc, Top(t).todo)
  OBVIOUS
<1>2. /\ Safe /\ StackType /\ depth[t] # 0 /\ stack[t] # <<>> /\ Top(t) = top(t) /\ Top(t).fn = fn
      /\ Top(t) \in Frames
  BY FirstKnows, Below
<1>3. StackType'
  BY DEF Moving, Safe, TypeOK, StackType
<1>4. [Top(t) EXCEPT !.pc = pc] = x
  BY <1>1, <1>2 DEF Frame, Frames
<1>5. stack' = [stack EXCEPT ![t] = <<c>> \o (<<x>> \o Tail(stack[t]))]
  BY <1>4 DEF Call, Moved
<1>6. x \in Frames /\ c \in Frames
  BY <1>2, <1>3, <1>5, PushedTwo
<1>7. FrCall(t, x, c) /\ c.k \in Classes
  BY <1>2, <1>5, <1>6, Calls DEF Frames
<1>8. x.k = top(t).k /\ x.fn = fn /\ x.pc = pc
  BY <1>1, <1>2 DEF Frame
<1>9. QED BY <1>1, <1>2, <1>7, <1>8, FirstCall DEF Claimed

LEMMA HelpReturn ==
    ASSUME NEW t \in Threads, Moving(t), Helped(t), NEW fn, NEW p, At(t, fn, p),
           NEW v \in BOOLEAN, Return(t, v), v /\ fn = "Default" => IfaceReady(Top(t).k)
    PROVE  Helped(t)'
<1>1. /\ Safe /\ StackType /\ depth[t] # 0 /\ stack[t] # <<>> /\ Top(t) = top(t) /\ Top(t).fn = fn
  BY FirstKnows
<1>2. FrReturn(t) /\ ret' = [ret EXCEPT ![t] = v]
  BY <1>1, ReturnShape
<1>3. QED BY <1>1, <1>2, FirstReturn

LEMMA HelpStay ==
    ASSUME NEW t \in Threads, Moving(t), Helped(t), NEW fn, NEW p, At(t, fn, p), UNCHANGED stack,
           ~Asks(Top(t))
    PROVE  Helped(t)'
<1>1. PICK x : x = top(t)
  OBVIOUS
<1>2. depth[t] # 0 /\ Top(t) = x /\ LeftAt(x) /\ PassedAt(x)
  BY <1>1, FirstKnows
<1>3. FrGoto(t, x)
  BY <1>1 DEF FrGoto, depth, fr, top
<1>4. QED BY <1>1, <1>2, <1>3, FirstGoto

\* Goes on before the superclass or inside VerifyClass: nothing is claimed of it.
LEMMA HelpQuiet ==
    ASSUME NEW t \in Threads, Moving(t), Helped(t), NEW fn, NEW p, At(t, fn, p), NEW pc, NEW todo,
           \/ Goto(t, pc) /\ todo = Top(t).todo
           \/ GotoWith(t, pc, todo),
           fn = "Verify" \/ (fn = "Init" /\ pc \notin PastSuper)
    PROVE  Helped(t)'
<1>1. PICK x : x = Frame(fn, Top(t).k, pc, todo)
  OBVIOUS
<1>2. x.fn = fn /\ x.pc = pc
  BY <1>1 DEF Frame
<1>3. LeftAt(x) /\ PassedAt(x) /\ ~Asks(x)
  BY <1>2 DEF LeftAt, PassedAt, Asks, PastSuper
<1>4. QED BY <1>1, <1>3, HelpGoto

\* InitializeClass, action by action.
LEMMA EnterFirst ==
    ASSUME NEW t \in Threads, Moving(t), Helped(t), InitEnter(t)
    PROVE  Helped(t)'
<1>1. At(t, "Init", "enter")
  BY DEF InitEnter
<1>2. CASE Return(t, TRUE)
  <2>1. PICK v \in BOOLEAN : Return(t, v)
    BY <1>2, Zenon DEF Return
  <2>2. QED BY <1>1, <2>1, HelpReturn
<1>3. CASE Goto(t, "lock")
  BY <1>1, <1>3, HelpQuiet DEF PastSuper
<1>4. QED BY <1>2, <1>3 DEF InitEnter

LEMMA ClaimFirst ==
    ASSUME NEW t \in Threads, Moving(t), Helped(t), NEW p, At(t, "Init", p), NEW k, Claim(t, k)
    PROVE  Helped(t)'
<1>1. CASE Return(t, TRUE) \/ Return(t, FALSE)
  <2>1. PICK v \in BOOLEAN : Return(t, v)
    BY <1>1, Zenon DEF Return
  <2>2. QED BY <2>1, HelpReturn
<1>2. CASE Goto(t, "waiting") \/ Goto(t, "super")
  BY <1>2, HelpQuiet DEF PastSuper
<1>3. QED BY <1>1, <1>2 DEF Claim

LEMMA LockFirst ==
    ASSUME NEW t \in Threads, Moving(t), Helped(t), InitLock(t) \/ InitVerified(t)
    PROVE  Helped(t)'
<1>1. PICK p : At(t, "Init", p)
  BY DEF InitLock, InitVerified
<1>2. PICK k : k = Top(t).k
  OBVIOUS
<1>3. CASE Return(t, FALSE)
  BY <1>1, <1>3, HelpReturn
<1>4. CASE Claim(t, k)
  BY <1>1, <1>4, ClaimFirst
<1>5. CASE Call(t, "verified", VerifyFrame(k))
  <2>1. PICK x, c : x = Frame("Init", k, "verified", Top(t).todo) /\ c = VerifyFrame(k)
    OBVIOUS
  <2>2. x.fn = "Init" /\ x.pc = "verified" /\ c.fn = "Verify" /\ c.k = k
    BY <2>1 DEF VerifyFrame, Frame
  <2>3. LeftAt(x) /\ PassedAt(x) /\ LeftAt(c) /\ PassedAt(c) /\ ~Asks(c)
    BY <2>2 DEF LeftAt, PassedAt, Asks, PastSuper
  <2>4. QED BY <1>1, <1>2, <1>5, <2>1, <2>2, <2>3, HelpCall DEF AfterClaim
<1>6. QED BY <1>2, <1>3, <1>4, <1>5 DEF InitLock, InitVerified

LEMMA WaitingFirst ==
    ASSUME NEW t \in Threads, Moving(t), Helped(t), WaitForInitializeClass(t)
    PROVE  Helped(t)'
<1>1. At(t, "Init", "waiting")
  BY DEF WaitForInitializeClass
<1>2. CASE UNCHANGED stack
  BY <1>1, <1>2, HelpStay, FirstKnows DEF Asks
<1>3. CASE Return(t, TRUE) \/ Return(t, FALSE)
  <2>1. PICK v \in BOOLEAN : Return(t, v)
    BY <1>3, Zenon DEF Return
  <2>2. QED BY <1>1, <2>1, HelpReturn
<1>4. QED BY <1>2, <1>3 DEF WaitForInitializeClass

\* The loop over the interfaces begins: the superclass is done.
LEMMA IfacesBegin ==
    ASSUME NEW t \in Threads, Moving(t), Helped(t), NEW p, At(t, "Init", p), NEW k, k = Top(t).k,
           \/ k \in Interfaces /\ GotoWith(t, "ifaces", <<>>)
           \/ /\ GotoWith(t, "ifaces", Direct[k])
              /\ Super[k] # NoClass => IsInitialized(Super[k])
    PROVE  Helped(t)'
<1>1. CASE k \in Interfaces /\ GotoWith(t, "ifaces", <<>>)
  <2>1. PICK x : x = Frame("Init", k, "ifaces", <<>>)
    OBVIOUS
  <2>2. x.fn = "Init" /\ x.k = k /\ x.pc = "ifaces" /\ Range(x.todo) = {}
    BY <2>1 DEF Frame, Range
  <2>3. LeftAt(x) /\ PassedAt(x) /\ ~Asks(x)
    BY <1>1, <2>2 DEF LeftAt, PassedAt, Asks
  <2>4. QED BY <1>1, <2>1, <2>3, HelpGoto
<1>2. CASE GotoWith(t, "ifaces", Direct[k]) /\ (Super[k] # NoClass => IsInitialized(Super[k]))
  <2>1. PICK x : x = Frame("Init", k, "ifaces", Direct[k])
    OBVIOUS
  <2>2. x.fn = "Init" /\ x.k = k /\ x.pc = "ifaces" /\ x.todo = Direct[k]
    BY <2>1 DEF Frame
  <2>3. LeftAt(x) /\ PassedAt(x) /\ ~Asks(x)
    BY <1>2, <2>2 DEF LeftAt, PassedAt, Asks
  <2>4. QED BY <1>2, <2>1, <2>3, HelpGoto
<1>3. QED BY <1>1, <1>2

LEMMA SuperFirst ==
    ASSUME NEW t \in Threads, Moving(t), Helped(t), InitSuper(t)
    PROVE  Helped(t)'
<1>1. At(t, "Init", "super")
  BY DEF InitSuper
<1>2. PICK k : k = Top(t).k
  OBVIOUS
<1>3. k \in Classes
  BY <1>1, <1>2, FirstKnows
<1>4. CASE Super[k] # NoClass /\ Call(t, "superDone", InitFrame(Super[k]))
  <2>1. PICK x, c : x = Frame("Init", k, "superDone", Top(t).todo) /\ c = InitFrame(Super[k])
    OBVIOUS
  <2>2. x.fn = "Init" /\ x.pc = "superDone" /\ c.fn = "Init" /\ c.pc = "enter" /\ c.k = Super[k]
    BY <2>1 DEF InitFrame, Frame
  <2>3. LeftAt(x) /\ PassedAt(x) /\ LeftAt(c) /\ PassedAt(c) /\ ~Asks(c)
    BY <2>2 DEF LeftAt, PassedAt, Asks, PastSuper
  <2>4. Super[k] \in Needs(k)
    BY <1>3, <1>4, NeedsFacts DEF Uses, Parents
  <2>5. QED BY <1>1, <1>2, <1>4, <2>1, <2>2, <2>3, <2>4, HelpCall
<1>5. CASE /\ ~(k \notin Interfaces /\ Super[k] # NoClass /\ ~IsInitialized(Super[k]))
           /\ GotoWith(t, "ifaces", IF k \in Interfaces THEN <<>> ELSE Direct[k])
  BY <1>1, <1>2, <1>5, IfacesBegin
<1>6. QED BY <1>2, <1>4, <1>5 DEF InitSuper

LEMMA ParentFailFirst ==
    ASSUME NEW t \in Threads, Moving(t), Helped(t), NEW p, At(t, "Init", p), NEW k, FailFromParent(t, k)
    PROVE  Helped(t)'
BY HelpReturn DEF FailFromParent

LEMMA SuperDoneFirst ==
    ASSUME NoCircle, NEW t \in Threads, Moving(t), Helped(t), InitSuperDone(t)
    PROVE  Helped(t)'
<1>1. At(t, "Init", "superDone")
  BY DEF InitSuperDone
<1>2. PICK k : k = Top(t).k
  OBVIOUS
<1>3. /\ Safe /\ depth[t] # 0 /\ top(t) = Top(t) /\ k \in Classes /\ OrderOf(t) /\ Super[k] # NoClass
      /\ ret[t] => Returned(t, Super[k])
  BY <1>1, <1>2, FirstKnows DEF Answered, FrameOK
<1>4. Super[k] \in Classes /\ Super[k] \in Needs(k)
  BY <1>3, NeedsFacts, InitAssumption DEF Uses, Parents
<1>5. CASE ret[t] /\ GotoWith(t, "ifaces", Direct[k])
  <2>1. IsInitialized(Super[k])
    BY <1>2, <1>3, <1>4, <1>5, Settled
  <2>2. QED BY <1>1, <1>2, <1>5, <2>1, IfacesBegin
<1>6. CASE FailFromParent(t, k)
  BY <1>1, <1>6, ParentFailFirst
<1>7. QED BY <1>2, <1>5, <1>6 DEF InitSuperDone

\* One interface less to do: it is ready.
LEMMA IfacesNext ==
    ASSUME NEW t \in Threads, Moving(t), Helped(t), NEW p \in {"ifaces", "ifaceDone"}, At(t, "Init", p),
           NEW todo, todo = Top(t).todo, todo # <<>>, IfaceReady(Head(todo)), GotoWith(t, "ifaces", Tail(todo))
    PROVE  Helped(t)'
<1>1. PICK k : k = Top(t).k
  OBVIOUS
<1>2. /\ Top(t).fn = "Init" /\ Top(t).pc = p /\ FrameOK(Top(t)) /\ LeftAt(Top(t)) /\ PassedAt(Top(t))
      /\ k \in Classes
  BY <1>1, FirstKnows
<1>3. todo \in Seq(Interfaces)
  BY <1>2 DEF FrameOK
<1>4. Range(Tail(todo)) \subseteq Range(todo) /\ Range(todo) \subseteq {Head(todo)} \union Range(Tail(todo))
  BY <1>3, ListParts
<1>5. PICK x : x = Frame("Init", k, "ifaces", Tail(todo))
  OBVIOUS
<1>6. x.fn = "Init" /\ x.k = k /\ x.pc = "ifaces" /\ x.todo = Tail(todo)
  BY <1>5 DEF Frame
<1>7. LeftAt(x) /\ ~Asks(x)
  BY <1>1, <1>2, <1>4, <1>6 DEF LeftAt, Asks
<1>8. PassedAt(x)
  BY <1>1, <1>2, <1>4, <1>6 DEF PassedAt, PastSuper
<1>9. QED BY <1>1, <1>5, <1>7, <1>8, HelpGoto

LEMMA IfacesFirst ==
    ASSUME NEW t \in Threads, Moving(t), Marked, Helped(t), InitIfaces(t)
    PROVE  Helped(t)'
<1>1. At(t, "Init", "ifaces")
  BY DEF InitIfaces
<1>2. PICK k, todo : k = Top(t).k /\ todo = Top(t).todo
  OBVIOUS
<1>3. /\ Top(t).fn = "Init" /\ Top(t).pc = "ifaces" /\ FrameOK(Top(t)) /\ LeftAt(Top(t)) /\ PassedAt(Top(t))
      /\ k \in Classes
  BY <1>1, <1>2, FirstKnows
<1>4. todo \in Seq(Interfaces) /\ Range(todo) \subseteq Range(Direct[k])
  BY <1>2, <1>3 DEF FrameOK, LeftAt
<1>5. CASE todo = <<>> /\ Goto(t, "statics")
  <2>1. PICK x : x = Frame("Init", k, "statics", todo)
    OBVIOUS
  <2>2. x.fn = "Init" /\ x.k = k /\ x.pc = "statics"
    BY <2>1 DEF Frame
  <2>3. Range(todo) = {}
    BY <1>5 DEF Range
  <2>4. LeftAt(x) /\ PassedAt(x) /\ ~Asks(x)
    BY <1>2, <1>3, <2>2, <2>3 DEF LeftAt, PassedAt, Asks, PastSuper
  <2>5. QED BY <1>1, <1>2, <1>5, <2>1, <2>4, HelpGoto
<1>6. CASE todo # <<>> /\ recInit[Head(todo)] /\ GotoWith(t, "ifaces", Tail(todo))
  <2>1. Head(todo) \in Interfaces
    BY <1>4, <1>6
  <2>2. IfaceReady(Head(todo))
    BY <1>6, <2>1 DEF Marked
  <2>3. QED BY <1>1, <1>2, <1>6, <2>2, IfacesNext
<1>7. CASE todo # <<>> /\ Call(t, "ifaceDone", DefaultFrame(Head(todo)))
  <2>1. PICK i : i = Head(todo)
    OBVIOUS
  <2>2. i \in Range(Direct[k])
    BY <1>4, <1>7, <2>1, ListParts
  <2>3. PICK x, c : x = Frame("Init", k, "ifaceDone", todo) /\ c = DefaultFrame(i)
    OBVIOUS
  <2>4. /\ x.fn = "Init" /\ x.k = k /\ x.pc = "ifaceDone" /\ x.todo = todo
        /\ c.fn = "Default" /\ c.k = i /\ c.pc = "supers" /\ c.todo = Direct[i]
    BY <2>3 DEF DefaultFrame, Frame
  <2>5. LeftAt(x) /\ PassedAt(x)
    BY <1>2, <1>3, <2>4 DEF LeftAt, PassedAt, PastSuper
  <2>6. LeftAt(c) /\ PassedAt(c) /\ ~Asks(c)
    BY <2>4 DEF LeftAt, PassedAt, Asks
  <2>7. i \in Needs(k)
    BY <1>3, <2>2, NeedsFacts DEF Uses, Parents
  <2>8. QED BY <1>1, <1>2, <1>7, <2>1, <2>3, <2>4, <2>5, <2>6, <2>7, HelpCall
<1>8. QED BY <1>2, <1>5, <1>6, <1>7 DEF InitIfaces

LEMMA IfaceDoneFirst ==
    ASSUME NEW t \in Threads, Moving(t), Helped(t), InitIfaceDone(t)
    PROVE  Helped(t)'
<1>1. At(t, "Init", "ifaceDone")
  BY DEF InitIfaceDone
<1>2. PICK todo : todo = Top(t).todo
  OBVIOUS
<1>3. /\ Top(t).fn = "Init" /\ Top(t).pc = "ifaceDone" /\ FrameOK(Top(t))
      /\ ret[t] /\ Asks(Top(t)) => IfaceReady(Head(todo))
  BY <1>1, <1>2, FirstKnows
<1>4. CASE ret[t] /\ GotoWith(t, "ifaces", Tail(todo))
  <2>1. todo # <<>> /\ IfaceReady(Head(todo))
    BY <1>2, <1>3, <1>4 DEF FrameOK, Asks
  <2>2. QED BY <1>1, <1>2, <1>4, <2>1, IfacesNext
<1>5. CASE FailFromParent(t, Top(t).k)
  BY <1>1, <1>5, ParentFailFirst
<1>6. QED BY <1>2, <1>4, <1>5 DEF InitIfaceDone

\* From the static values on, everything above is ready.
LEMMA LateFirst ==
    ASSUME NEW t \in Threads, Moving(t), Helped(t), NEW p \in {"statics", "clinit", "finish"}, At(t, "Init", p),
           NEW pc \in {"clinit", "finish"}, NEW todo,
           pc = "clinit" => Range(todo) \subseteq Range(Touches[Top(t).k])
    PROVE  LET x == Frame("Init", Top(t).k, pc, todo) IN
           LeftAt(x) /\ PassedAt(x) /\ ~Asks(x) /\ x.fn = "Init" /\ x.pc = pc /\ x.k = Top(t).k
<1>1. PICK k : k = Top(t).k
  OBVIOUS
<1>2. Top(t).fn = "Init" /\ Top(t).pc = p /\ PassedAt(Top(t))
  BY FirstKnows
<1>3. PICK x : x = Frame("Init", k, pc, todo)
  OBVIOUS
<1>4. x.fn = "Init" /\ x.k = k /\ x.pc = pc /\ x.todo = todo
  BY <1>3 DEF Frame
<1>5. LeftAt(x) /\ PassedAt(x) /\ ~Asks(x)
  BY <1>1, <1>2, <1>4 DEF LeftAt, PassedAt, Asks, PastSuper
<1>6. QED BY <1>1, <1>3, <1>4, <1>5

LEMMA StaticsFirst ==
    ASSUME NEW t \in Threads, Moving(t), Helped(t), InitStatics(t)
    PROVE  Helped(t)'
<1>1. At(t, "Init", "statics")
  BY DEF InitStatics
<1>2. CASE GotoWith(t, "clinit", Touches[Top(t).k])
  BY <1>1, <1>2, LateFirst, HelpGoto
<1>3. CASE Goto(t, "finish")
  BY <1>1, <1>3, LateFirst, HelpGoto
<1>4. QED BY <1>2, <1>3 DEF InitStatics

LEMMA ClinitFirst ==
    ASSUME NEW t \in Threads, Moving(t), Helped(t), Clinit(t)
    PROVE  Helped(t)'
<1>1. At(t, "Init", "clinit")
  BY DEF Clinit
<1>2. PICK k, todo : k = Top(t).k /\ todo = Top(t).todo
  OBVIOUS
<1>3. /\ Safe /\ StackType /\ depth[t] # 0 /\ stack[t] # <<>> /\ Top(t) = top(t) /\ Top(t).fn = "Init"
      /\ Top(t).pc = "clinit" /\ k \in Classes /\ FrameOK(Top(t)) /\ LeftAt(Top(t))
  BY <1>1, <1>2, FirstKnows
<1>4. todo \in Seq(Classes) /\ Range(todo) \subseteq Range(Touches[k])
  BY <1>2, <1>3 DEF FrameOK, LeftAt
<1>5. CASE /\ todo # <<>>
           /\ stack' = [stack EXCEPT ![t] = <<InitFrame(Head(todo))>> \o MovedWith(t, "clinit", Tail(todo))]
  <2>1. PICK x, c : x = Frame("Init", k, "clinit", Tail(todo)) /\ c = InitFrame(Head(todo))
    OBVIOUS
  <2>2. Head(todo) \in Range(Touches[k]) /\ Range(Tail(todo)) \subseteq Range(Touches[k])
    BY <1>4, <1>5, ListParts
  <2>3. LeftAt(x) /\ PassedAt(x) /\ x.k = k
    BY <1>1, <1>2, <2>1, <2>2, LateFirst
  <2>4. c.fn = "Init" /\ c.pc = "enter" /\ c.k = Head(todo)
    BY <2>1 DEF InitFrame, Frame
  <2>5. LeftAt(c) /\ PassedAt(c) /\ ~Asks(c)
    BY <2>4 DEF LeftAt, PassedAt, Asks, PastSuper
  <2>6. c.k \in Needs(k) /\ c.k \in Classes
    BY <1>3, <2>2, <2>4, NeedsFacts DEF Uses
  <2>7. stack' = [stack EXCEPT ![t] = <<c>> \o (<<x>> \o Tail(stack[t]))]
    BY <1>2, <1>3, <1>5, <2>1 DEF MovedWith
  <2>8. StackType'
    BY DEF Moving, Safe, TypeOK, StackType
  <2>9. FrCall(t, x, c)
    BY <1>3, <2>7, <2>8, PushedTwo, Calls
  <2>10. QED BY <1>2, <1>3, <2>3, <2>5, <2>6, <2>9, FirstCall
<1>6. CASE Goto(t, "finish")
  BY <1>1, <1>6, LateFirst, HelpGoto
<1>7. CASE UNCHANGED stack
  BY <1>1, <1>3, <1>7, HelpStay DEF Asks
<1>8. QED BY <1>2, <1>5, <1>6, <1>7 DEF Clinit

LEMMA FinishFirst ==
    ASSUME NEW t \in Threads, Moving(t), Helped(t), InitFinish(t)
    PROVE  Helped(t)'
<1>1. At(t, "Init", "finish")
  BY DEF InitFinish
<1>2. PICK v \in BOOLEAN : Return(t, v)
  BY DEF InitFinish
<1>3. QED BY <1>1, <1>2, HelpReturn

\* InitializeDefaultInterfaceRecursive.
\* One superinterface less to do: it is ready.
LEMMA SupersNext ==
    ASSUME NEW t \in Threads, Moving(t), Helped(t), NEW p \in {"supers", "superDone"}, At(t, "Default", p),
           NEW todo, todo = Top(t).todo, todo # <<>>, IfaceReady(Head(todo)), GotoWith(t, "supers", Tail(todo))
    PROVE  Helped(t)'
<1>1. PICK k : k = Top(t).k
  OBVIOUS
<1>2. /\ Top(t).fn = "Default" /\ Top(t).pc = p /\ FrameOK(Top(t)) /\ LeftAt(Top(t)) /\ PassedAt(Top(t))
  BY <1>1, FirstKnows
<1>3. todo \in Seq(Interfaces)
  BY <1>2 DEF FrameOK
<1>4. Range(Tail(todo)) \subseteq Range(todo) /\ Range(todo) \subseteq {Head(todo)} \union Range(Tail(todo))
  BY <1>3, ListParts
<1>5. PICK x : x = Frame("Default", k, "supers", Tail(todo))
  OBVIOUS
<1>6. x.fn = "Default" /\ x.k = k /\ x.pc = "supers" /\ x.todo = Tail(todo)
  BY <1>5 DEF Frame
<1>7. LeftAt(x) /\ ~Asks(x)
  BY <1>1, <1>2, <1>4, <1>6 DEF LeftAt, Asks
<1>8. PassedAt(x)
  BY <1>1, <1>2, <1>4, <1>6 DEF PassedAt
<1>9. QED BY <1>1, <1>5, <1>7, <1>8, HelpGoto

LEMMA DefaultSupersFirst ==
    ASSUME NEW t \in Threads, Moving(t), Marked, Helped(t), DefaultSupers(t)
    PROVE  Helped(t)'
<1>1. At(t, "Default", "supers")
  BY DEF DefaultSupers
<1>2. PICK k, todo : k = Top(t).k /\ todo = Top(t).todo
  OBVIOUS
<1>3. /\ Top(t).fn = "Default" /\ Top(t).pc = "supers" /\ FrameOK(Top(t)) /\ LeftAt(Top(t)) /\ PassedAt(Top(t))
      /\ k \in Classes
  BY <1>1, <1>2, FirstKnows
<1>4. todo \in Seq(Interfaces) /\ Range(todo) \subseteq Range(Direct[k])
  BY <1>2, <1>3 DEF FrameOK, LeftAt
<1>5. PICK x : x = Frame("Default", k, "mark", todo)
  OBVIOUS
<1>6. x.fn = "Default" /\ x.k = k /\ x.pc = "mark" /\ x.todo = todo
  BY <1>5 DEF Frame
<1>7. ASSUME todo = <<>> PROVE LeftAt(x) /\ PassedAt(x) /\ ~Asks(x)
  <2>1. Range(todo) = {}
    BY <1>7 DEF Range
  <2>2. QED BY <1>2, <1>3, <1>6, <2>1 DEF LeftAt, PassedAt, Asks
<1>8. CASE todo = <<>> /\ Call(t, "mark", InitFrame(k))
  <2>1. PICK c : c = InitFrame(k)
    OBVIOUS
  <2>2. c.fn = "Init" /\ c.pc = "enter" /\ c.k = k
    BY <2>1 DEF InitFrame, Frame
  <2>3. LeftAt(c) /\ PassedAt(c) /\ ~Asks(c)
    BY <2>2 DEF LeftAt, PassedAt, Asks, PastSuper
  <2>4. QED BY <1>1, <1>2, <1>5, <1>7, <1>8, <2>1, <2>2, <2>3, HelpCall
<1>9. CASE todo = <<>> /\ stack' = [stack EXCEPT ![t] = Moved(t, "mark")]
  BY <1>1, <1>2, <1>5, <1>7, <1>9, HelpGoto
<1>10. CASE todo # <<>> /\ recInit[Head(todo)] /\ GotoWith(t, "supers", Tail(todo))
  <2>1. Head(todo) \in Interfaces
    BY <1>4, <1>10
  <2>2. IfaceReady(Head(todo))
    BY <1>10, <2>1 DEF Marked
  <2>3. QED BY <1>1, <1>2, <1>10, <2>2, SupersNext
<1>11. CASE todo # <<>> /\ Call(t, "superDone", DefaultFrame(Head(todo)))
  <2>1. PICK i : i = Head(todo)
    OBVIOUS
  <2>2. i \in Range(Direct[k])
    BY <1>4, <1>11, <2>1, ListParts
  <2>3. PICK y, c : y = Frame("Default", k, "superDone", todo) /\ c = DefaultFrame(i)
    OBVIOUS
  <2>4. /\ y.fn = "Default" /\ y.k = k /\ y.pc = "superDone" /\ y.todo = todo
        /\ c.fn = "Default" /\ c.k = i /\ c.pc = "supers" /\ c.todo = Direct[i]
    BY <2>3 DEF DefaultFrame, Frame
  <2>5. LeftAt(y) /\ PassedAt(y)
    BY <1>2, <1>3, <2>4 DEF LeftAt, PassedAt
  <2>6. LeftAt(c) /\ PassedAt(c) /\ ~Asks(c)
    BY <2>4 DEF LeftAt, PassedAt, Asks
  <2>7. i \in Needs(k)
    BY <1>3, <2>2, NeedsFacts DEF Uses, Parents
  <2>8. QED BY <1>1, <1>2, <1>11, <2>1, <2>3, <2>4, <2>5, <2>6, <2>7, HelpCall
<1>12. QED BY <1>2, <1>8, <1>9, <1>10, <1>11 DEF DefaultSupers

LEMMA DefaultSuperDoneFirst ==
    ASSUME NEW t \in Threads, Moving(t), Helped(t), DefaultSuperDone(t)
    PROVE  Helped(t)'
<1>1. At(t, "Default", "superDone")
  BY DEF DefaultSuperDone
<1>2. PICK todo : todo = Top(t).todo
  OBVIOUS
<1>3. /\ Top(t).fn = "Default" /\ Top(t).pc = "superDone" /\ FrameOK(Top(t))
      /\ ret[t] /\ Asks(Top(t)) => IfaceReady(Head(todo))
  BY <1>1, <1>2, FirstKnows
<1>4. CASE ret[t] /\ GotoWith(t, "supers", Tail(todo))
  <2>1. todo # <<>> /\ IfaceReady(Head(todo))
    BY <1>2, <1>3, <1>4 DEF FrameOK, Asks
  <2>2. QED BY <1>1, <1>2, <1>4, <2>1, SupersNext
<1>5. CASE Return(t, FALSE)
  BY <1>1, <1>5, HelpReturn
<1>6. QED BY <1>2, <1>4, <1>5 DEF DefaultSuperDone

\* When all went well, the interface is ready: its own initialisation was not
\* left to a frame further down.
LEMMA MarkReady ==
    ASSUME NoCircle, NEW t \in Threads, Moving(t), Helped(t), At(t, "Default", "mark"), ret[t]
    PROVE  IfaceReady(Top(t).k) /\ Top(t).k \in Interfaces
<1>1. PICK k : k = Top(t).k
  OBVIOUS
<1>2. /\ Safe /\ depth[t] # 0 /\ Top(t) = top(t) /\ k \in Classes /\ k \in Interfaces /\ OrderOf(t)
      /\ Top(t).fn = "Default" /\ Top(t).pc = "mark" /\ PassedAt(Top(t)) /\ Answered(t, Top(t))
  BY <1>1, FirstKnows DEF FrameOK
<1>3. \A i \in Range(Direct[k]) : IfaceReady(i)
  BY <1>1, <1>2 DEF PassedAt
<1>4. ASSUME k \in HasDefault PROVE IsInitialized(k)
  <2>1. Returned(t, k) /\ ~Claimed(top(t))
    BY <1>1, <1>2, <1>4 DEF Answered, Claimed
  <2>2. QED BY <1>1, <1>2, <2>1, Settled
<1>5. QED BY <1>1, <1>2, <1>3, <1>4, ReadyJoin

LEMMA DefaultMarkFirst ==
    ASSUME NoCircle, NEW t \in Threads, Moving(t), Helped(t), DefaultMark(t)
    PROVE  Helped(t)'
<1>1. At(t, "Default", "mark")
  BY DEF DefaultMark
<1>2. PICK v : v = ret[t]
  OBVIOUS
<1>3. v \in BOOLEAN
  BY <1>1, <1>2, FirstKnows
<1>4. Return(t, v)
  BY <1>2 DEF DefaultMark
<1>5. v => IfaceReady(Top(t).k)
  BY <1>1, <1>2, MarkReady
<1>6. QED BY <1>1, <1>3, <1>4, <1>5, HelpReturn

\* VerifyClass: it goes on, returns, or calls itself for a class above.
LEMMA AttemptFirst ==
    ASSUME NEW t \in Threads, Moving(t), Helped(t), NEW p, At(t, "Verify", p), NEW s, NEW after,
           Attempt(t, s, after), s \in Above(Top(t).k)
    PROVE  Helped(t)'
<1>1. PICK k : k = Top(t).k
  OBVIOUS
<1>2. k \in Classes
  BY <1>1, FirstKnows
<1>3. CASE Goto(t, after)
  BY <1>3, HelpQuiet
<1>4. CASE Call(t, after, VerifyFrame(s))
  <2>1. PICK x, c : x = Frame("Verify", k, after, Top(t).todo) /\ c = VerifyFrame(s)
    OBVIOUS
  <2>2. x.fn = "Verify" /\ c.fn = "Verify" /\ c.k = s
    BY <2>1 DEF VerifyFrame, Frame
  <2>3. LeftAt(x) /\ PassedAt(x) /\ LeftAt(c) /\ PassedAt(c) /\ ~Asks(c)
    BY <2>2 DEF LeftAt, PassedAt, Asks
  <2>4. s \in Needs(k)
    BY <1>1, <1>2, NeedsFacts
  <2>5. QED BY <1>1, <1>4, <2>1, <2>2, <2>3, <2>4, HelpCall
<1>5. QED BY <1>3, <1>4 DEF Attempt

LEMMA VerifyFirst ==
    ASSUME NEW t \in Threads, Moving(t), Helped(t),
           \/ VerifyLock(t) \/ VerifySuper(t) \/ VerifySuperDone(t) \/ VerifySuperOk(t)
           \/ VerifyIfaces(t) \/ VerifyIfaceDone(t) \/ VerifyIfaceOk(t) \/ VerifyReject(t)
           \/ PerformClassVerification(t) \/ VerifyFinish(t)
    PROVE  Helped(t)'
<1>1. PICK p : At(t, "Verify", p)
  BY DEF VerifyLock, VerifySuper, VerifySuperDone, VerifySuperOk, VerifyIfaces, VerifyIfaceDone,
         VerifyIfaceOk, VerifyReject, PerformClassVerification, VerifyFinish
<1>2. Top(t).fn = "Verify" /\ Top(t).k \in Classes /\ FrameOK(Top(t))
  BY <1>1, FirstKnows
<1>3. ASSUME NEW pc, Goto(t, pc) PROVE Helped(t)'
  BY <1>1, <1>3, HelpQuiet
<1>4. ASSUME NEW pc, NEW todo, GotoWith(t, pc, todo) PROVE Helped(t)'
  BY <1>1, <1>4, HelpQuiet
<1>5. ASSUME NEW v \in BOOLEAN, Return(t, v) PROVE Helped(t)'
  BY <1>1, <1>5, HelpReturn
<1>6. ASSUME Return(t, TRUE) \/ Return(t, FALSE) PROVE Helped(t)'
  <2>1. PICK v \in BOOLEAN : Return(t, v)
    BY <1>6, Zenon DEF Return
  <2>2. QED BY <1>5, <2>1
<1>7. ASSUME UNCHANGED stack PROVE Helped(t)'
  BY <1>1, <1>2, <1>7, HelpStay DEF Asks
<1>8. CASE VerifyLock(t)
  BY <1>4, <1>6, <1>8 DEF VerifyLock
<1>9. CASE VerifySuper(t)
  <2>1. PICK s : s = Super[Top(t).k]
    OBVIOUS
  <2>2. CASE s # NoClass /\ Attempt(t, s, "superDone")
    <3>1. s \in Above(Top(t).k)
      BY <1>2, <2>1, <2>2, AboveFacts DEF Parents
    <3>2. QED BY <1>1, <2>2, <3>1, AttemptFirst
  <2>3. QED BY <1>3, <1>9, <2>1, <2>2 DEF VerifySuper
<1>10. CASE VerifySuperDone(t)
  BY <1>3, <1>10 DEF VerifySuperDone
<1>11. CASE VerifySuperOk(t)
  BY <1>4, <1>11 DEF VerifySuperOk
<1>12. CASE VerifyIfaces(t)
  <2>1. PICK todo : todo = Top(t).todo
    OBVIOUS
  <2>2. CASE todo # <<>> /\ Attempt(t, Head(todo), "ifaceDone")
    <3>1. Top(t).pc = "ifaces"
      BY <1>12 DEF VerifyIfaces, At
    <3>2. todo \in Seq(IfSet[Top(t).k])
      BY <1>2, <2>1, <3>1 DEF FrameOK
    <3>3. Head(todo) \in IfSet[Top(t).k]
      BY <2>2, <3>2
    <3>4. Head(todo) \in Above(Top(t).k)
      BY <1>2, <3>3 DEF IfSet
    <3>5. QED BY <1>1, <2>2, <3>4, AttemptFirst
  <2>3. QED BY <1>3, <1>4, <1>12, <2>1, <2>2 DEF VerifyIfaces
<1>13. CASE VerifyIfaceDone(t)
  BY <1>3, <1>13 DEF VerifyIfaceDone
<1>14. CASE VerifyIfaceOk(t)
  BY <1>4, <1>14 DEF VerifyIfaceOk
<1>15. CASE VerifyReject(t)
  BY <1>6, <1>15 DEF VerifyReject
<1>16. CASE PerformClassVerification(t)
  BY <1>4, <1>16 DEF PerformClassVerification
<1>17. CASE VerifyFinish(t)
  BY <1>6, <1>7, <1>17 DEF VerifyFinish
<1>18. QED BY <1>8, <1>9, <1>10, <1>11, <1>12, <1>13, <1>14, <1>15, <1>16, <1>17

LEMMA StepHelped ==
    ASSUME NoCircle, NEW t \in Threads, Moving(t), Marked, Helped(t), Step(t)
    PROVE  Helped(t)'
BY EnterFirst, LockFirst, WaitingFirst, SuperFirst, SuperDoneFirst, IfacesFirst, IfaceDoneFirst, StaticsFirst,
   ClinitFirst, FinishFirst, DefaultSupersFirst, DefaultSuperDoneFirst, DefaultMarkFirst, VerifyFirst, Zenon DEF Step

\* The mark of an interface is set in one place.
LEMMA OnlyMark ==
    ASSUME NEW t \in Threads, Step(t), recInit' # recInit
    PROVE  DefaultMark(t)
<1>1. ASSUME NEW j PROVE ~Claim(t, j) /\ ~FailFromParent(t, j)
  BY DEF Claim, FailFromParent, cvars
<1>2. QED BY <1>1 DEF Step, InitEnter, InitLock, InitVerified, WaitForInitializeClass, InitSuper, InitSuperDone,
         InitIfaces, InitIfaceDone, InitStatics, Clinit, InitFinish, DefaultSupers, DefaultSuperDone,
         VerifyLock, VerifySuper, VerifySuperDone, VerifySuperOk, VerifyIfaces,
         VerifyIfaceDone, VerifyIfaceOk, VerifyReject, PerformClassVerification, VerifyFinish, cvars

\* A class is done, and an interface marked, only with what is above it ready.
LEMMA StepMarked ==
    ASSUME NoCircle, NEW t \in Threads, Moving(t), Marked, Helped(t), Step(t)
    PROVE  Marked'
<1>1. Safe /\ Safe' /\ \A k \in Classes : IsInitialized(k) => IsInitialized(k)'
  BY Steady DEF Moving
<1>2. (\A i : IfaceReady(i) => IfaceReady(i)') /\ \A k \in Classes : SupersDone(k) => SupersDone(k)'
  BY <1>1, PassedKeep
<1>3. status \in [Classes -> Statuses] /\ recInit \in [Classes -> BOOLEAN]
  BY <1>1 DEF Safe, TypeOK
<1>4. ASSUME NEW k \in Classes \ Interfaces, IsInitialized(k)' PROVE SupersDone(k)'
  <2>1. CASE IsInitialized(k)
    BY <1>2, <1>4, <2>1 DEF Marked
  <2>2. CASE ~IsInitialized(k)
    <3>1. InitFinish(t)
      BY <1>1, <1>4, <2>2, OnlyFinish DEF IsInitialized
    <3>2. At(t, "Init", "finish") /\ \E s \in {"kInitialized", "kErrorResolved"} : SetStatus(Top(t).k, s)
      BY <3>1 DEF InitFinish
    <3>3. k = Top(t).k
      BY <1>3, <1>4, <2>2, <3>2 DEF SetStatus, IsInitialized
    <3>4. Top(t).fn = "Init" /\ Top(t).pc = "finish" /\ PassedAt(Top(t))
      BY <3>2, FirstKnows
    <3>5. /\ \A i \in Range(Direct[k]) : IfaceReady(i)
          /\ Super[k] # NoClass => IsInitialized(Super[k])
      BY <1>4, <3>3, <3>4 DEF PassedAt, PastSuper
    <3>6. SupersDone(k)
      BY <3>5, SupersJoin
    <3>7. QED BY <1>2, <3>6
  <2>3. QED BY <2>1, <2>2
<1>5. ASSUME NEW i \in Interfaces, recInit'[i] PROVE IfaceReady(i)'
  <2>1. CASE recInit[i]
    BY <1>2, <2>1 DEF Marked
  <2>2. CASE ~recInit[i]
    <3>1. DefaultMark(t)
      BY <1>5, <2>2, OnlyMark
    <3>2. At(t, "Default", "mark") /\ ret[t] /\ recInit' = [recInit EXCEPT ![Top(t).k] = TRUE]
      BY <1>5, <2>2, <3>1 DEF DefaultMark
    <3>3. i = Top(t).k
      BY <1>3, <1>5, <2>2, <3>2, InitAssumption
    <3>4. QED BY <1>2, <3>2, <3>3, MarkReady
  <2>3. QED BY <2>1, <2>2
<1>6. QED BY <1>4, <1>5 DEF Marked

\* A thread whose frames and results are as before has what it had.
LEMMA HelpedKeep ==
    ASSUME NEW u \in Threads, Safe, Helped(u), stack'[u] = stack[u], ret'[u] = ret[u],
           \A k \in Classes : IsInitialized(k) => IsInitialized(k)'
    PROVE  Helped(u)'
<1>1. /\ depth'[u] = depth[u] /\ Slots(u)' = Slots(u) /\ fr'[u] = fr[u] /\ top(u)' = top(u)
  BY SameFrames
<1>2. /\ \A i : IfaceReady(i) => IfaceReady(i)'
      /\ \A f : f.k \in Classes /\ PassedAt(f) => PassedAt(f)'
  BY PassedKeep
<1>3. ASSUME NEW h \in Slots(u) PROVE LeftAt(fr[u][h])' /\ PassedAt(fr[u][h])'
  <2>1. PICK f : f = fr[u][h]
    OBVIOUS
  <2>2. f.k \in Classes /\ LeftAt(f) /\ PassedAt(f)
    BY <2>1, FrType DEF Helped, Safe, TypeOK, StackType, Slots, Frames
  <2>3. PassedAt(f)' /\ fr'[u][h] = f
    BY <1>1, <1>2, <2>1, <2>2
  <2>4. QED BY <2>2, <2>3 DEF LeftAt, PassedAt
<1>4. OrderOf(u)'
  BY <1>1 DEF Helped, OrderOf, Claimed
<1>5. PICK i : i = Head(top(u).todo)
  OBVIOUS
<1>6. depth[u] # 0 /\ ret[u] /\ Asks(top(u)) => IfaceReady(i)'
  BY <1>2, <1>5 DEF Helped, ReplyOf
<1>7. ReplyOf(u)'
  BY <1>1, <1>5, <1>6 DEF ReplyOf, Asks, IfaceReady, IsInitialized
<1>8. QED BY <1>1, <1>3, <1>4, <1>7 DEF Helped

LEMMA EnsureHelped ==
    ASSUME Safe, NEW t \in Threads, NEW k, EnsureInitialized(t, k)
    PROVE  Helped(t)'
<1>1. PICK x : x = InitFrame(k)
  OBVIOUS
<1>2. x.fn = "Init" /\ x.pc = "enter"
  BY <1>1 DEF InitFrame, Frame
<1>3. depth'[t] = 1 /\ Slots(t)' = {1} /\ fr'[t][1] = x /\ top(t)' = x
  BY <1>1, EnsureFrames
<1>4. ASSUME NEW h \in Slots(t)' PROVE LeftAt(fr[t][h])' /\ PassedAt(fr[t][h])'
  BY <1>2, <1>3, <1>4 DEF LeftAt, PassedAt, PastSuper
<1>5. OrderOf(t)' /\ ReplyOf(t)'
  BY <1>2, <1>3 DEF OrderOf, ReplyOf, Asks
<1>6. QED BY <1>4, <1>5 DEF Helped

LEMMA FirstInit ==
    ASSUME Init
    PROVE  First
<1>1. \A t \in Threads : depth[t] = 0 /\ Slots(t) = {}
  BY DEF Init, depth, Slots
<1>2. \A t \in Threads : Helped(t)
  BY <1>1 DEF Helped, OrderOf, ReplyOf
<1>3. Marked
  BY InitAssumption DEF Init, Marked, IsInitialized
<1>4. QED BY <1>2, <1>3 DEF First

LEMMA FirstNext ==
    ASSUME NoCircle, Inv, Inv', First, [Next]_vars
    PROVE  First'
<1>1. Safe /\ Safe'
  BY DEF Inv
<1>2. ASSUME UNCHANGED <<status, recInit>> PROVE Marked' /\ \A k \in Classes : IsInitialized(k) => IsInitialized(k)'
  BY <1>2 DEF First, Marked, SupersDone, IfaceReady, IsInitialized
<1>3. CASE UNCHANGED <<status, recInit, stack, ret>>
  BY <1>1, <1>2, <1>3, HelpedKeep DEF First
<1>4. ASSUME NEW t \in Threads, Step(t) PROVE First'
  <2>1. \A k \in Classes : Evolves(t, k)
    BY <1>1, <1>4, StepEvolves DEF Inv, Own
  <2>2. Moving(t) /\ Alone(t)
    BY <1>1, <1>4, <2>1, Untouched DEF Moving, Inv
  <2>3. \A k \in Classes : IsInitialized(k) => IsInitialized(k)'
    BY <1>1, <2>1, Steady
  <2>4. \A u \in Threads \ {t} : Helped(u)'
    BY <1>1, <2>2, <2>3, HelpedKeep DEF First, Alone
  <2>5. Helped(t)' /\ Marked'
    BY <1>4, <2>2, StepHelped, StepMarked DEF First
  <2>6. QED BY <2>4, <2>5 DEF First
<1>5. ASSUME NEW t \in Threads, NEW k \in Roots, EnsureInitialized(t, k) PROVE First'
  <2>1. UNCHANGED <<status, recInit>>
    BY <1>5 DEF EnsureInitialized, cvars
  <2>2. Alone(t)
    BY <1>1, <1>5 DEF Alone, EnsureInitialized, Throw, Safe, TypeOK
  <2>3. \A u \in Threads \ {t} : Helped(u)'
    BY <1>1, <1>2, <2>1, <2>2, HelpedKeep DEF First, Alone
  <2>4. QED BY <1>1, <1>2, <1>5, <2>1, <2>3, EnsureHelped DEF First
<1>6. ASSUME NEW t \in Threads, WakeEarly(t) PROVE First'
  BY <1>3, <1>6 DEF WakeEarly, cvars
<1>7. CASE UNCHANGED vars
  BY <1>3, <1>7 DEF vars, cvars
<1>8. QED BY <1>4, <1>5, <1>6, <1>7 DEF Next, Ended

\* When <clinit> of a class runs, its superclass and every interface above it that
\* has default methods are initialised, and InitializeDefaultInterfaceRecursive
\* never takes an interface for done that another thread still runs: for any
\* hierarchy whose initialisers do not need each other in a circle.
THEOREM SupersFirstAlways ==
    ASSUME NoCircle
    PROVE  Spec => []SupersFirst
<1>1. ASSUME Inv, First PROVE SupersFirst
  <2>1. Safe /\ StackType
    BY <1>1 DEF Inv, Safe, TypeOK, StackType
  <2>2. ASSUME NEW t \in Threads, At(t, "Default", "mark"), ret[t], Top(t).k \in HasDefault
        PROVE  Returned(t, Top(t).k)
    <3>1. depth[t] # 0 /\ Top(t) = top(t) /\ Top(t).fn = "Default" /\ Top(t).pc = "mark"
      BY <2>1, <2>2, Running
    <3>2. Answered(t, Top(t))
      BY <1>1, <2>2, <3>1 DEF Inv, Own, ReadyOf
    <3>3. QED BY <2>2, <3>1, <3>2 DEF Answered
  <2>3. ASSUME NEW t \in Threads, NEW k \in Classes \ Interfaces, Doing(t, k, {"clinit"})
        PROVE  \A s \in (IfSet[k] \cap HasDefault) \union ({Super[k]} \ {NoClass}) : Returned(t, s)
    <3>1. PICK h \in Slots(t) : fr[t][h].fn = "Init" /\ fr[t][h].k = k /\ fr[t][h].pc = "clinit"
      BY <2>1, <2>3, FrameOf
    <3>2. PassedAt(fr[t][h])
      BY <1>1, <3>1 DEF First, Helped
    <3>3. SupersDone(k)
      BY <1>1, <2>3, <3>1, <3>2, SupersJoin DEF First, PassedAt, PastSuper
    <3>4. QED BY <3>3 DEF SupersDone, Returned
  <2>4. QED BY <2>2, <2>3 DEF SupersFirst
<1>2. First /\ [Next]_vars /\ Inv /\ Inv' => First'
  BY FirstNext
<1>3. Init => First
  BY FirstInit
<1>4. QED BY <1>1, <1>2, <1>3, InvAlways, PTL DEF Spec

==============================================================================
