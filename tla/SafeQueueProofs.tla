-------------------------- MODULE SafeQueueProofs --------------------------
(***************************************************************************)
(* Proofs about SafeQueue for any number of threads and packets.           *)
(***************************************************************************)
EXTENDS SafeQueue, FiniteSetTheorems, TLAPS

\* Only consumers pop, only poppers wait, and the mutex holder does not wait.
WaitersOK ==
    /\ \A t \in Threads : op[t] = "pop" => t \in Consumers
    /\ \A t \in waiting : op[t] = "pop"
    /\ mutex \notin waiting

\* A packet on its way into push belongs to one caller and to nobody else.
ArgOK ==
    /\ \A t \in Threads : op[t] = "push" => arg[t] \in Packet
    /\ \A t \in Threads : arg[t] # None => owner[arg[t]] = "caller"
    /\ \A t, u \in Threads : arg[t] = arg[u] /\ arg[t] # None => t = u

\* Every queued packet is the queue's own, once, and nothing else is.
OwnOK == Fifo!QueueOwnsItsPackets

Inv == TypeOK /\ WaitersOK /\ ArgOK /\ OwnOK

-----------------------------------------------------------------------------
\* What Head and Tail do to a queue of distinct packets.
LEMMA TailFacts ==
    ASSUME NEW S, NEW s \in Seq(S), s # <<>>,
           \A i, j \in DOMAIN s : s[i] = s[j] => i = j
    PROVE  /\ Head(s) \in S /\ Tail(s) \in Seq(S)
           /\ \E i \in DOMAIN s : s[i] = Head(s)
           /\ \A i, j \in DOMAIN Tail(s) : Tail(s)[i] = Tail(s)[j] => i = j
           /\ \A p : (\E i \in DOMAIN Tail(s) : Tail(s)[i] = p)
                       <=> (p # Head(s) /\ \E i \in DOMAIN s : s[i] = p)
<1>1. /\ Len(s) \in Nat /\ Len(s) > 0 /\ DOMAIN s = 1..Len(s)
      /\ Head(s) = s[1] /\ Head(s) \in S /\ Tail(s) \in Seq(S)
  OBVIOUS
<1>2. /\ DOMAIN Tail(s) = 1..(Len(s) - 1)
      /\ \A i \in 1..(Len(s) - 1) : Tail(s)[i] = s[i + 1]
  BY <1>1
<1>3. \A i, j \in DOMAIN Tail(s) : Tail(s)[i] = Tail(s)[j] => i = j
  BY <1>1, <1>2
<1>4. ASSUME NEW p
      PROVE (\E i \in DOMAIN Tail(s) : Tail(s)[i] = p)
              <=> (p # Head(s) /\ \E i \in DOMAIN s : s[i] = p)
  <2>1. ASSUME NEW i \in DOMAIN Tail(s), Tail(s)[i] = p
        PROVE p # Head(s) /\ \E k \in DOMAIN s : s[k] = p
    BY <1>1, <1>2, <2>1
  <2>2. ASSUME p # Head(s), NEW i \in DOMAIN s, s[i] = p
        PROVE \E k \in DOMAIN Tail(s) : Tail(s)[k] = p
    <3>1. i - 1 \in DOMAIN Tail(s) /\ Tail(s)[i - 1] = p
      BY <1>1, <1>2, <2>2
    <3>2. QED BY <3>1
  <2>3. QED BY <2>1, <2>2
<1>5. QED BY <1>1, <1>3, <1>4

\* What Append does to a queue that does not hold the packet yet.
LEMMA AppendFacts ==
    ASSUME NEW S, NEW s \in Seq(S), NEW x \in S,
           \A i \in DOMAIN s : s[i] # x,
           \A i, j \in DOMAIN s : s[i] = s[j] => i = j
    PROVE  /\ Append(s, x) \in Seq(S)
           /\ \A i, j \in DOMAIN Append(s, x) :
                 Append(s, x)[i] = Append(s, x)[j] => i = j
           /\ \A p : (\E i \in DOMAIN Append(s, x) : Append(s, x)[i] = p)
                       <=> (p = x \/ \E i \in DOMAIN s : s[i] = p)
<1>1. /\ Len(s) \in Nat /\ DOMAIN s = 1..Len(s)
      /\ Append(s, x) \in Seq(S)
      /\ DOMAIN Append(s, x) = 1..(Len(s) + 1)
      /\ \A i \in 1..Len(s) : Append(s, x)[i] = s[i]
      /\ Append(s, x)[Len(s) + 1] = x
  OBVIOUS
<1>2. \A i \in DOMAIN Append(s, x) : i \in DOMAIN s \/ i = Len(s) + 1
  BY <1>1
<1>3. DOMAIN s \subseteq DOMAIN Append(s, x) /\ Len(s) + 1 \in DOMAIN Append(s, x)
  BY <1>1
<1>4. QED BY <1>1, <1>2, <1>3

-----------------------------------------------------------------------------
LEMMA InitInv == Init => Inv
<1> SUFFICES ASSUME Init PROVE Inv
  OBVIOUS
<1>1. TypeOK
  <2>1. work \in BOOLEAN /\ releaseCallback \in BOOLEAN /\ fault \in BOOLEAN
    BY Zenon DEF Init
  <2>2. /\ q \in Seq(Packet) /\ mutex \in Threads \cup {None}
        /\ waiting \in SUBSET Consumers /\ op \in [Threads -> Ops]
        /\ arg \in [Threads -> Packet \cup {None}]
        /\ owner \in [Packet -> Owners]
    BY DEF Init, Ops, Owners
  <2>3. QED BY <2>1, <2>2 DEF TypeOK
<1>2. WaitersOK
  BY DEF Init, WaitersOK
<1>3. ArgOK
  BY DEF Init, ArgOK
<1>4. OwnOK
  <2>1. DOMAIN q = {} /\ \A p \in Packet : owner[p] = "caller"
    BY DEF Init
  <2>2. QED BY <2>1 DEF OwnOK, Fifo!QueueOwnsItsPackets
<1>5. QED BY <1>1, <1>2, <1>3, <1>4 DEF Inv

\* Every step preserves the invariant, action by action.
LEMMA NextInv == Inv /\ [Next]_vars => Inv'
<1> SUFFICES ASSUME Inv, [Next]_vars PROVE Inv'
  OBVIOUS
<1> USE ThreadAssumption DEF Inv
<1>1. ASSUME NEW t \in Producers, NEW p \in Packet, CallPush(t, p) PROVE Inv'
  BY <1>1 DEF CallPush, Call, TypeOK, WaitersOK, ArgOK, OwnOK,
      Fifo!QueueOwnsItsPackets, Ops, Threads
<1>2. ASSUME NEW t \in Consumers, CallOther(t, "pop") PROVE Inv'
  BY <1>2 DEF CallOther, Call, TypeOK, WaitersOK, ArgOK, OwnOK,
      Fifo!QueueOwnsItsPackets, Ops, Threads
<1>3. ASSUME NEW t \in Controllers, NEW o \in {"start", "stop", "clear"},
             CallOther(t, o)
      PROVE Inv'
  BY <1>3 DEF CallOther, Call, TypeOK, WaitersOK, ArgOK, OwnOK,
      Fifo!QueueOwnsItsPackets, Ops, Threads
<1>4. CASE setReleaseCallback
  BY <1>4 DEF setReleaseCallback, TypeOK, WaitersOK, ArgOK, OwnOK,
      Fifo!QueueOwnsItsPackets
<1>5. ASSUME NEW t \in Threads, Lock(t) PROVE Inv'
  BY <1>5 DEF Lock, TypeOK, WaitersOK, ArgOK, OwnOK, Fifo!QueueOwnsItsPackets
<1>6. ASSUME NEW t \in Threads, push(t) PROVE Inv'
  <2>1. /\ arg[t] \in Packet /\ owner[arg[t]] = "caller"
        /\ \A i \in DOMAIN q : q[i] # arg[t]
    BY <1>6 DEF push, ArgOK, OwnOK, Fifo!QueueOwnsItsPackets, TypeOK
  <2>2. /\ mutex' = None /\ op' = [op EXCEPT ![t] = "none"]
        /\ arg' = [arg EXCEPT ![t] = None] /\ waiting' \subseteq waiting
        /\ op[t] = "push" /\ releaseCallback' = releaseCallback /\ work' = work
    BY <1>6 DEF push, Return, Signal
  <2>3. WaitersOK'
    BY <2>2 DEF WaitersOK, TypeOK, Threads
  <2>4. CASE work
    <3>1. /\ q' = Append(q, arg[t]) /\ owner' = [owner EXCEPT ![arg[t]] = "queue"]
          /\ fault' = fault
      BY <1>6, <2>4 DEF push
    <3>2. /\ Append(q, arg[t]) \in Seq(Packet)
          /\ \A i, j \in DOMAIN Append(q, arg[t]) :
                Append(q, arg[t])[i] = Append(q, arg[t])[j] => i = j
          /\ \A p : (\E i \in DOMAIN Append(q, arg[t]) : Append(q, arg[t])[i] = p)
                      <=> (p = arg[t] \/ \E i \in DOMAIN q : q[i] = p)
      <4>1. q \in Seq(Packet) /\ \A i, j \in DOMAIN q : q[i] = q[j] => i = j
        BY DEF TypeOK, OwnOK, Fifo!QueueOwnsItsPackets
      <4>2. QED BY <2>1, <4>1, AppendFacts, Zenon
    <3>3. TypeOK'
      BY <2>1, <2>2, <3>1, <3>2 DEF TypeOK, Ops, Owners
    <3>4. ArgOK'
      BY <2>1, <2>2, <3>1 DEF ArgOK, TypeOK
    <3>5. OwnOK'
      BY <2>1, <3>1, <3>2 DEF OwnOK, Fifo!QueueOwnsItsPackets, TypeOK
    <3>6. QED BY <2>3, <3>3, <3>4, <3>5
  <2>5. CASE ~work
    <3>1. /\ q' = q /\ fault' \in BOOLEAN
          /\ \/ owner' = owner
             \/ owner' = [p \in Packet |-> IF p \in {arg[t]} THEN "freed" ELSE owner[p]]
      BY <1>6, <2>5 DEF push, Release, TypeOK
    <3>2. TypeOK'
      BY <2>2, <3>1 DEF TypeOK, Ops, Owners
    <3>3. ArgOK'
      BY <2>1, <2>2, <3>1 DEF ArgOK, TypeOK
    <3>4. OwnOK'
      BY <2>1, <3>1 DEF OwnOK, Fifo!QueueOwnsItsPackets
    <3>5. QED BY <2>3, <3>2, <3>3, <3>4
  <2>6. QED BY <2>4, <2>5
<1>7. ASSUME NEW t \in Threads, popWait(t) PROVE Inv'
  BY <1>7 DEF popWait, TypeOK, WaitersOK, ArgOK, OwnOK,
      Fifo!QueueOwnsItsPackets, Threads
<1>8. ASSUME NEW t \in Threads, popReturn(t) PROVE Inv'
  <2>1. /\ mutex' = None /\ op' = [op EXCEPT ![t] = "none"]
        /\ arg' = [arg EXCEPT ![t] = None] /\ waiting' = waiting
        /\ mutex = t /\ releaseCallback' = releaseCallback
        /\ work' = work /\ fault' = fault
    BY <1>8 DEF popReturn, Return
  <2>2. WaitersOK'
    BY <2>1 DEF WaitersOK, TypeOK, Threads
  <2>3. CASE q # <<>>
    <3>1. q' = Tail(q) /\ owner' = [owner EXCEPT ![Head(q)] = "consumer"]
      BY <1>8, <2>3 DEF popReturn
    <3>2. /\ Head(q) \in Packet /\ Tail(q) \in Seq(Packet)
          /\ \E i \in DOMAIN q : q[i] = Head(q)
          /\ \A i, j \in DOMAIN Tail(q) : Tail(q)[i] = Tail(q)[j] => i = j
          /\ \A p : (\E i \in DOMAIN Tail(q) : Tail(q)[i] = p)
                      <=> (p # Head(q) /\ \E i \in DOMAIN q : q[i] = p)
      BY <2>3, TailFacts DEF TypeOK, OwnOK, Fifo!QueueOwnsItsPackets
    <3>3. owner[Head(q)] = "queue"
      BY <3>2 DEF OwnOK, Fifo!QueueOwnsItsPackets
    <3>4. TypeOK'
      BY <2>1, <3>1, <3>2 DEF TypeOK, Ops, Owners
    <3>5. ArgOK'
      BY <2>1, <3>1, <3>2, <3>3 DEF ArgOK, TypeOK
    <3>6. OwnOK'
      BY <3>1, <3>2, <3>3 DEF OwnOK, Fifo!QueueOwnsItsPackets, TypeOK
    <3>7. QED BY <2>2, <3>4, <3>5, <3>6
  <2>4. CASE q = <<>>
    <3>1. q' = q /\ owner' = owner
      BY <1>8, <2>4 DEF popReturn
    <3>2. QED
      BY <2>1, <2>2, <3>1 DEF TypeOK, ArgOK, OwnOK,
          Fifo!QueueOwnsItsPackets, Ops
  <2>5. QED BY <2>3, <2>4
<1>9. ASSUME NEW t \in Threads, setWork(t) PROVE Inv'
  BY <1>9 DEF setWork, Return, Signal, TypeOK, WaitersOK, ArgOK, OwnOK,
      Fifo!QueueOwnsItsPackets, Ops, Threads
<1>10. ASSUME NEW t \in Threads, clear(t) PROVE Inv'
  <2>1. /\ mutex' = None /\ op' = [op EXCEPT ![t] = "none"]
        /\ arg' = [arg EXCEPT ![t] = None] /\ waiting' = waiting
        /\ mutex = t /\ releaseCallback' = releaseCallback /\ work' = work
        /\ op[t] = "clear" /\ fault' \in BOOLEAN
        /\ q' = IF releaseCallback THEN <<>> ELSE q
    BY <1>10 DEF clear, Return, Release, TypeOK
  <2>2. WaitersOK'
    BY <2>1 DEF WaitersOK, TypeOK, Threads
  <2>3. CASE releaseCallback
    <3>1. /\ q' = <<>>
          /\ owner' = [p \in Packet |-> IF p \in {q[i] : i \in DOMAIN q}
                                        THEN "freed" ELSE owner[p]]
      BY <1>10, <2>1, <2>3 DEF clear, Release
    <3>2. \A p \in Packet :
             owner'[p] = IF owner[p] = "queue" THEN "freed" ELSE owner[p]
      BY <3>1 DEF OwnOK, Fifo!QueueOwnsItsPackets
    <3>3. TypeOK'
      BY <2>1, <3>1 DEF TypeOK, Ops, Owners
    <3>4. ArgOK'
      BY <2>1, <3>2 DEF ArgOK, TypeOK
    <3>5. OwnOK'
      BY <3>1, <3>2 DEF OwnOK, Fifo!QueueOwnsItsPackets
    <3>6. QED BY <2>2, <3>3, <3>4, <3>5
  <2>4. CASE ~releaseCallback
    <3>1. q' = q /\ owner' = owner
      BY <1>10, <2>1, <2>4 DEF clear, Release, TypeOK
    <3>2. QED
      BY <2>1, <2>2, <3>1 DEF TypeOK, ArgOK, OwnOK,
          Fifo!QueueOwnsItsPackets, Ops
  <2>5. QED BY <2>3, <2>4
<1>11. ASSUME NEW t \in Threads, SpuriousWake(t) PROVE Inv'
  BY <1>11 DEF SpuriousWake, TypeOK, WaitersOK, ArgOK, OwnOK,
      Fifo!QueueOwnsItsPackets
<1>12. CASE UNCHANGED vars
  BY <1>12 DEF vars, TypeOK, WaitersOK, ArgOK, OwnOK, Fifo!QueueOwnsItsPackets
<1>13. QED
  BY <1>1, <1>2, <1>3, <1>4, <1>5, <1>6, <1>7, <1>8, <1>9, <1>10, <1>11, <1>12
  DEF Next, Body

LEMMA Invariance == Spec => []Inv
  BY InitInv, NextInv, PTL DEF Spec

\* Every variable keeps its type, whatever the threads do.
THEOREM TypeCorrect == Spec => []TypeOK
  BY Invariance, PTL DEF Inv

-----------------------------------------------------------------------------
\* With one push thread no wake-up is lost: it sleeps in pop only while the
\* queue works and is empty.  push and setWork signal one sleeper, and one is
\* all there is.
THEOREM NoLostWakeup ==
    ASSUME \A a, b \in Consumers : a = b
    PROVE  Spec => []SleepsOnlyWhenIdle
<1>1. Init => SleepsOnlyWhenIdle
  BY DEF Init, SleepsOnlyWhenIdle
<1>2. Inv /\ SleepsOnlyWhenIdle /\ [Next]_vars => SleepsOnlyWhenIdle'
  <2> SUFFICES ASSUME Inv, SleepsOnlyWhenIdle, [Next]_vars
               PROVE  SleepsOnlyWhenIdle'
    OBVIOUS
  <2> USE DEF SleepsOnlyWhenIdle
  <2>1. Signal => waiting' = {}
    BY DEF Signal, Inv, TypeOK
  <2>2. ASSUME NEW t \in Threads, push(t) PROVE SleepsOnlyWhenIdle'
    BY <2>1, <2>2 DEF push
  <2>3. ASSUME NEW t \in Threads, popWait(t) PROVE SleepsOnlyWhenIdle'
    BY <2>3 DEF popWait
  <2>4. ASSUME NEW t \in Threads, popReturn(t) PROVE SleepsOnlyWhenIdle'
    <3>1. waiting = {}
      BY <2>4 DEF popReturn, Inv, WaitersOK, TypeOK
    <3>2. QED BY <2>4, <3>1 DEF popReturn
  <2>5. ASSUME NEW t \in Threads, setWork(t) PROVE SleepsOnlyWhenIdle'
    BY <2>1, <2>5 DEF setWork
  <2>6. ASSUME NEW t \in Threads, clear(t) PROVE SleepsOnlyWhenIdle'
    BY <2>6 DEF clear
  <2>7. ASSUME NEW t \in Threads, Lock(t) \/ SpuriousWake(t)
        PROVE SleepsOnlyWhenIdle'
    BY <2>7 DEF Lock, SpuriousWake
  <2>8. ASSUME NEW t \in Producers, NEW p \in Packet, CallPush(t, p)
        PROVE SleepsOnlyWhenIdle'
    BY <2>8 DEF CallPush, Call
  <2>9. ASSUME NEW t, NEW o, CallOther(t, o) PROVE SleepsOnlyWhenIdle'
    BY <2>9 DEF CallOther, Call
  <2>10. CASE setReleaseCallback \/ UNCHANGED vars
    BY <2>10 DEF setReleaseCallback, vars
  <2>11. QED
    BY <2>2, <2>3, <2>4, <2>5, <2>6, <2>7, <2>8, <2>9, <2>10 DEF Next, Body
<1>3. QED BY <1>1, <1>2, Invariance, PTL DEF Spec

-----------------------------------------------------------------------------
\* Consumers that are in pop and not asleep.
Awake == {t \in Consumers \ waiting : op[t] = "pop"}

\* One element more or less.
LEMMA OneMore ==
    ASSUME NEW A, NEW B, NEW x, IsFiniteSet(B), A \subseteq B, x \in B, x \notin A
    PROVE  Cardinality(A) \in Nat /\ Cardinality(B) \in Nat
           /\ Cardinality(B) >= Cardinality(A) + 1
<1>1. IsFiniteSet(A)
  BY FS_Subset
<1>2. IsFiniteSet(A \cup {x}) /\ Cardinality(A \cup {x}) = Cardinality(A) + 1
  BY <1>1, FS_AddElement
<1>3. Cardinality(A \cup {x}) <= Cardinality(B)
  BY <1>2, FS_Subset
<1>4. QED BY <1>1, <1>2, <1>3, FS_CardinalityType

\* With any finite number of push threads, packets never pile up in front of a
\* sleeping one: for each queued packet some thread in pop is awake to take it.
THEOREM NoPacketStranded ==
    ASSUME IsFiniteSet(Consumers)
    PROVE  Spec => []EnoughAwake
<1>1. Init => EnoughAwake
  BY DEF Init, EnoughAwake
<1>2. Inv /\ EnoughAwake /\ [Next]_vars => EnoughAwake'
  <2> SUFFICES ASSUME Inv, EnoughAwake, [Next]_vars, waiting' # {}
               PROVE  Len(q') <= Cardinality(Awake')
    BY DEF EnoughAwake, Awake
  <2>1. waiting # {} => Len(q) <= Cardinality(Awake)
    BY DEF EnoughAwake, Awake
  <2>2. /\ IsFiniteSet(Awake) /\ IsFiniteSet(Awake')
        /\ Cardinality(Awake) \in Nat /\ Cardinality(Awake') \in Nat
        /\ Len(q) \in Nat
    <3>1. Awake \subseteq Consumers /\ Awake' \subseteq Consumers
      BY DEF Awake
    <3>2. IsFiniteSet(Awake) /\ IsFiniteSet(Awake')
      BY <3>1, FS_Subset
    <3>3. QED BY <3>2, FS_CardinalityType DEF Inv, TypeOK
  <2>3. ASSUME NEW t \in Threads, push(t) PROVE Len(q') <= Cardinality(Awake')
    <3>1. CASE work
      <4>1. q' = Append(q, arg[t]) /\ arg[t] \in Packet
        BY <2>3, <3>1 DEF push, Inv, ArgOK
      <4>2. Len(q') = Len(q) + 1
        BY <4>1 DEF Inv, TypeOK
      <4>3. Signal /\ op' = [op EXCEPT ![t] = "none"] /\ op[t] = "push"
        BY <2>3, <3>1 DEF push, Return
      <4>4. PICK u \in waiting : waiting' = waiting \ {u}
        BY <4>3 DEF Signal
      <4>5. u \in Awake' /\ u \notin Awake /\ Awake \subseteq Awake'
        BY <4>3, <4>4 DEF Awake, Inv, TypeOK, WaitersOK, Threads
      <4>6. Cardinality(Awake') >= Cardinality(Awake) + 1
        BY <2>2, <4>5, OneMore
      <4>7. QED BY <2>1, <2>2, <4>2, <4>4, <4>6
    <3>2. CASE ~work
      <4>1. q' = q /\ waiting' = waiting
            /\ op' = [op EXCEPT ![t] = "none"] /\ op[t] = "push"
        BY <2>3, <3>2 DEF push, Return
      <4>2. Awake' = Awake
        BY <4>1 DEF Awake, Inv, TypeOK, Threads
      <4>3. QED BY <2>1, <4>1, <4>2
    <3>3. QED BY <3>1, <3>2
  <2>4. ASSUME NEW t \in Threads, popWait(t) PROVE Len(q') <= Cardinality(Awake')
    <3>1. q' = <<>>
      BY <2>4 DEF popWait
    <3>2. QED BY <2>2, <3>1
  <2>5. ASSUME NEW t \in Threads, popReturn(t) PROVE Len(q') <= Cardinality(Awake')
    <3>1. CASE q # <<>>
      <4>1. /\ q' = Tail(q) /\ waiting' = waiting /\ mutex = t /\ op[t] = "pop"
            /\ op' = [op EXCEPT ![t] = "none"]
        BY <2>5, <3>1 DEF popReturn, Return
      <4>2. Awake' = Awake \ {t} /\ t \in Awake
        BY <4>1 DEF Awake, Inv, TypeOK, WaitersOK, Threads
      <4>3. Cardinality(Awake') = Cardinality(Awake) - 1
        BY <2>2, <4>2, FS_RemoveElement
      <4>4. Len(q') = Len(q) - 1
        BY <3>1, <4>1 DEF Inv, TypeOK
      <4>5. QED BY <2>1, <2>2, <4>1, <4>3, <4>4
    <3>2. CASE q = <<>>
      BY <2>2, <2>5, <3>2 DEF popReturn
    <3>3. QED BY <3>1, <3>2
  <2>6. ASSUME NEW t \in Threads, setWork(t) PROVE Len(q') <= Cardinality(Awake')
    <3>1. /\ q' = q /\ waiting' \subseteq waiting /\ op[t] \in {"start", "stop"}
          /\ op' = [op EXCEPT ![t] = "none"]
      BY <2>6 DEF setWork, Return, Signal
    <3>2. Awake \subseteq Awake'
      BY <3>1 DEF Awake, Inv, TypeOK, Threads
    <3>3. Cardinality(Awake) <= Cardinality(Awake')
      BY <2>2, <3>2, FS_Subset
    <3>4. QED BY <2>1, <2>2, <3>1, <3>3
  <2>7. ASSUME NEW t \in Threads, clear(t) PROVE Len(q') <= Cardinality(Awake')
    <3>1. /\ q' = <<>> \/ q' = q
          /\ waiting' = waiting /\ op[t] = "clear"
          /\ op' = [op EXCEPT ![t] = "none"]
      BY <2>7 DEF clear, Return
    <3>2. Awake' = Awake
      BY <3>1 DEF Awake, Inv, TypeOK, Threads
    <3>3. QED BY <2>1, <2>2, <3>1, <3>2
  <2>8. ASSUME q' = q, waiting' \subseteq waiting,
               \A t \in Consumers : op[t] = "pop" => op'[t] = "pop"
        PROVE Len(q') <= Cardinality(Awake')
    <3>1. Awake \subseteq Awake'
      BY <2>8 DEF Awake, Inv, TypeOK, Threads
    <3>2. Cardinality(Awake) <= Cardinality(Awake')
      BY <2>2, <3>1, FS_Subset
    <3>3. QED BY <2>1, <2>2, <2>8, <3>2
  <2>9. ASSUME NEW t \in Threads, Lock(t) \/ SpuriousWake(t)
        PROVE Len(q') <= Cardinality(Awake')
    <3>1. q' = q /\ waiting' \subseteq waiting /\ op' = op
      BY <2>9 DEF Lock, SpuriousWake
    <3>2. QED BY <2>8, <3>1
  <2>10. ASSUME NEW t \in Threads, NEW o, Call(t, o)
         PROVE Len(q') <= Cardinality(Awake')
    <3>1. /\ q' = q /\ waiting' = waiting /\ op[t] = "none"
          /\ op' = [op EXCEPT ![t] = o]
      BY <2>10 DEF Call
    <3>2. \A u \in Consumers : op[u] = "pop" => op'[u] = "pop"
      BY <3>1 DEF Inv, TypeOK, Threads
    <3>3. QED BY <2>8, <3>1, <3>2
  <2>11. CASE setReleaseCallback \/ UNCHANGED vars
    <3>1. q' = q /\ waiting' = waiting /\ op' = op
      BY <2>11 DEF setReleaseCallback, vars
    <3>2. QED BY <2>8, <3>1
  <2>12. QED
    BY <2>3, <2>4, <2>5, <2>6, <2>7, <2>9, <2>10, <2>11
    DEF Next, Body, CallPush, CallOther, Threads
<1>3. QED BY <1>1, <1>2, Invariance, PTL DEF Spec

-----------------------------------------------------------------------------
\* Every step of the threaded queue is a step of the one-step queue or changes
\* nothing a caller can see, so it delivers in order and loses, duplicates and
\* double-frees nothing, with any number of producers and consumers.
THEOREM Refinement == Spec => ImplementsFifo
<1>1. Init => Fifo!Init
  BY DEF Init, Fifo!Init
<1>2. Inv /\ [Next]_vars => [Fifo!Next]_Fifo!vars
  <2> SUFFICES ASSUME Inv, [Next]_vars PROVE [Fifo!Next]_Fifo!vars
    OBVIOUS
  <2>1. ASSUME NEW t \in Threads, push(t) PROVE [Fifo!Next]_Fifo!vars
    <3>1. arg[t] \in Packet /\ owner[arg[t]] = "caller"
      BY <2>1, ThreadAssumption DEF push, Inv, ArgOK
    <3>2. CASE work
      <4>1. Fifo!Accept(arg[t])
        BY <2>1, <3>1, <3>2 DEF push, Fifo!Accept
      <4>2. QED BY <3>1, <4>1 DEF Fifo!Next
    <3>3. CASE ~work /\ releaseCallback
      <4>1. /\ q' = q /\ work' = work
            /\ owner' = [p \in Packet |-> IF p \in {arg[t]} THEN "freed" ELSE owner[p]]
        BY <2>1, <3>3 DEF push, Release
      <4>2. owner' = [owner EXCEPT ![arg[t]] = "freed"]
        BY <3>1, <4>1 DEF Inv, TypeOK
      <4>3. Fifo!Reject(arg[t])
        BY <3>1, <3>3, <4>1, <4>2 DEF Fifo!Reject
      <4>4. QED BY <3>1, <4>3 DEF Fifo!Next
    <3>4. CASE ~work /\ ~releaseCallback
      BY <2>1, <3>4 DEF push, Release, Fifo!vars
    <3>5. QED BY <3>2, <3>3, <3>4
  <2>2. ASSUME NEW t \in Threads, popReturn(t) PROVE [Fifo!Next]_Fifo!vars
    <3>1. CASE q # <<>>
      <4>1. Fifo!Take
        BY <2>2, <3>1 DEF popReturn, Fifo!Take
      <4>2. QED BY <4>1 DEF Fifo!Next
    <3>2. CASE q = <<>>
      BY <2>2, <3>2 DEF popReturn, Fifo!vars
    <3>3. QED BY <3>1, <3>2
  <2>3. ASSUME NEW t \in Threads, setWork(t) PROVE [Fifo!Next]_Fifo!vars
    <3>1. Fifo!SetWork(op[t] = "start")
      BY <2>3 DEF setWork, Fifo!SetWork
    <3>2. (op[t] = "start") \in BOOLEAN
      OBVIOUS
    <3>3. QED BY <3>1, <3>2 DEF Fifo!Next
  <2>4. ASSUME NEW t \in Threads, clear(t) PROVE [Fifo!Next]_Fifo!vars
    <3>1. CASE releaseCallback
      <4>1. /\ q' = <<>> /\ work' = work
            /\ owner' = [p \in Packet |-> IF p \in {q[i] : i \in DOMAIN q}
                                          THEN "freed" ELSE owner[p]]
        BY <2>4, <3>1 DEF clear, Release
      <4>2. \A p \in Packet : p \in {q[i] : i \in DOMAIN q} <=> owner[p] = "queue"
        BY DEF Inv, OwnOK, Fifo!QueueOwnsItsPackets
      <4>3. Fifo!Clear
        BY <4>1, <4>2 DEF Fifo!Clear
      <4>4. QED BY <4>3 DEF Fifo!Next
    <3>2. CASE ~releaseCallback
      <4>1. q' = q /\ work' = work /\ owner' = owner
        BY <2>4, <3>2 DEF clear, Release, Inv, TypeOK
      <4>2. QED BY <4>1 DEF Fifo!vars
    <3>3. QED BY <3>1, <3>2
  <2>5. ASSUME UNCHANGED <<q, work, owner>> PROVE [Fifo!Next]_Fifo!vars
    BY <2>5 DEF Fifo!vars
  <2>6. ASSUME NEW t \in Threads, popWait(t) \/ Lock(t) \/ SpuriousWake(t)
        PROVE [Fifo!Next]_Fifo!vars
    BY <2>5, <2>6 DEF popWait, Lock, SpuriousWake
  <2>7. ASSUME NEW t, NEW o, Call(t, o) PROVE [Fifo!Next]_Fifo!vars
    BY <2>5, <2>7 DEF Call
  <2>8. CASE setReleaseCallback \/ UNCHANGED vars
    BY <2>5, <2>8 DEF setReleaseCallback, vars
  <2>9. QED
    BY <2>1, <2>2, <2>3, <2>4, <2>6, <2>7, <2>8
    DEF Next, Body, CallPush, CallOther
<1>3. QED BY <1>1, <1>2, Invariance, PTL DEF Spec, ImplementsFifo, Fifo!Spec
=============================================================================
