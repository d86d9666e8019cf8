------------------------------ MODULE SafeQueue ------------------------------
(***************************************************************************)
(* SafeQueue<T> of head/x264/safe_queue.h, the pthread build: a mutex, one *)
(* condition variable, a std::queue and the work flag.  A call is made     *)
(* (the caller is on its way to the mutex), gets the mutex, and runs its   *)
(* body up to the unlock or up to pthread_cond_wait, which gives the mutex *)
(* back until the thread is woken and locks again.  Nothing outside the    *)
(* mutex touches q or work, so a body up to its unlock is one step.        *)
(***************************************************************************)
EXTENDS Naturals, Sequences, FiniteSets

CONSTANTS
    Packet,         \* what is pushed: freshly allocated packets
    Producers,      \* threads that push
    Consumers,      \* threads that pop
    Controllers,    \* threads that start, stop and clear the queue
    None            \* no thread, no packet

Threads == Producers \cup Consumers \cup Controllers

ASSUME ThreadAssumption ==
    /\ None \notin Packet \cup Threads
    /\ Producers \cap Consumers = {}
    /\ Producers \cap Controllers = {}
    /\ Consumers \cap Controllers = {}

VARIABLES
    q, work,        \* the members q and work
    releaseCallback,\* has a release callback been installed?
    mutex,          \* the thread that holds the mutex, or None
    waiting,        \* threads blocked in pthread_cond_wait
    op,             \* the call each thread is in, or "none"
    arg,            \* the packet each thread is pushing, or None
    owner,          \* who owns each packet
    fault           \* has a null release callback been called?

vars == <<q, work, releaseCallback, mutex, waiting, op, arg, owner, fault>>

Ops == {"none", "push", "pop", "start", "stop", "clear"}
Owners == {"caller", "queue", "consumer", "freed"}

\* The queue is a static object: its members start zeroed.
Init == /\ q = <<>>
        /\ work = FALSE
        /\ releaseCallback = FALSE
        /\ mutex = None
        /\ waiting = {}
        /\ op = [t \in Threads |-> "none"]
        /\ arg = [t \in Threads |-> None]
        /\ owner = [p \in Packet |-> "caller"]
        /\ fault = FALSE

-----------------------------------------------------------------------------
\* The calls, up to pthread_mutex_lock.
Call(t, o) == /\ op[t] = "none"
              /\ op' = [op EXCEPT ![t] = o]
              /\ UNCHANGED <<q, work, releaseCallback, mutex, waiting, owner, fault>>

CallPush(t, p) == /\ owner[p] = "caller"
                  /\ \A u \in Threads : arg[u] # p
                  /\ arg' = [arg EXCEPT ![t] = p]
                  /\ Call(t, "push")

CallOther(t, o) == Call(t, o) /\ UNCHANGED arg

setReleaseCallback == /\ releaseCallback' = TRUE
                      /\ UNCHANGED <<q, work, mutex, waiting, op, arg, owner, fault>>

Lock(t) == /\ op[t] # "none"
           /\ t \notin waiting
           /\ mutex = None
           /\ mutex' = t
           /\ UNCHANGED <<q, work, releaseCallback, waiting, op, arg, owner, fault>>

\* pthread_cond_signal wakes one of the waiting threads, if there is one.
Signal == IF waiting = {} THEN waiting' = waiting
                          ELSE \E t \in waiting : waiting' = waiting \ {t}

\* The end of a call: unlock and return.
Return(t) == /\ mutex' = None
             /\ op' = [op EXCEPT ![t] = "none"]
             /\ arg' = [arg EXCEPT ![t] = None]
             /\ UNCHANGED releaseCallback

\* Calling the release callback on a set of packets; a null one faults.
Release(ps) == IF releaseCallback \/ ps = {}
               THEN /\ owner' = [p \in Packet |-> IF p \in ps THEN "freed" ELSE owner[p]]
                    /\ UNCHANGED fault
               ELSE /\ fault' = TRUE
                    /\ UNCHANGED owner

\* push without pthread_cond_signal.
push_NoSignal(t) ==
    /\ mutex = t /\ op[t] = "push"
    /\ IF work THEN /\ q' = Append(q, arg[t])
                    /\ owner' = [owner EXCEPT ![arg[t]] = "queue"]
                    /\ UNCHANGED fault
               ELSE Release({arg[t]}) /\ UNCHANGED q
    /\ UNCHANGED <<waiting, work>>
    /\ Return(t)

\* push that stores the caller's pointer after the caller has reset it.
push_Late(t) ==
    /\ mutex = t /\ op[t] = "push" /\ work
    /\ Return(t)
    /\ q' = Append(q, arg'[t])
    /\ Signal
    /\ UNCHANGED <<work, owner, fault>>

push(t) == /\ mutex = t /\ op[t] = "push"
           /\ \/ /\ work
                 /\ q' = Append(q, arg[t])
                 /\ owner' = [owner EXCEPT ![arg[t]] = "queue"]
                 /\ Signal
                 /\ UNCHANGED fault
              \/ /\ ~work
                 /\ Release({arg[t]})
                 /\ UNCHANGED <<q, waiting>>
           /\ UNCHANGED work
           /\ Return(t)

\* pthread_cond_wait: queue up on the condition and give the mutex back.
popWait(t) == /\ mutex = t /\ op[t] = "pop"
              /\ work /\ q = <<>>
              /\ waiting' = waiting \cup {t}
              /\ mutex' = None
              /\ UNCHANGED <<q, work, releaseCallback, op, arg, owner, fault>>

popReturn(t) == /\ mutex = t /\ op[t] = "pop"
                /\ ~(work /\ q = <<>>)
                /\ IF q # <<>>
                   THEN /\ q' = Tail(q)
                        /\ owner' = [owner EXCEPT ![Head(q)] = "consumer"]
                   ELSE UNCHANGED <<q, owner>>
                /\ UNCHANGED <<work, waiting, fault>>
                /\ Return(t)

\* A waiting thread may wake without a signal; the while loop tests again.
SpuriousWake(t) ==
    /\ t \in waiting
    /\ waiting' = waiting \ {t}
    /\ UNCHANGED <<q, work, releaseCallback, mutex, op, arg, owner, fault>>

\* setWork without pthread_cond_signal.
setWork_NoSignal(t) ==
    /\ mutex = t /\ op[t] \in {"start", "stop"}
    /\ work' = (op[t] = "start")
    /\ UNCHANGED <<q, owner, fault, waiting>>
    /\ Return(t)

setWork(t) == /\ mutex = t /\ op[t] \in {"start", "stop"}
              /\ work' = (op[t] = "start")
              /\ Signal
              /\ UNCHANGED <<q, owner, fault>>
              /\ Return(t)

\* clear that empties the queue and forgets to release what was in it.
clear_NoRelease(t) ==
    /\ mutex = t /\ op[t] = "clear"
    /\ q' = <<>>
    /\ UNCHANGED <<work, waiting, owner, fault>>
    /\ Return(t)

clear(t) == /\ mutex = t /\ op[t] = "clear"
            /\ Release({q[i] : i \in DOMAIN q})
            /\ q' = IF releaseCallback THEN <<>> ELSE q
            /\ UNCHANGED <<work, waiting>>
            /\ Return(t)

-----------------------------------------------------------------------------
\* The body of whatever call t is in.
Body(t) == push(t) \/ popWait(t) \/ popReturn(t) \/ setWork(t) \/ clear(t)

Next == /\ ~fault
        /\ \/ \E t \in Producers, p \in Packet : CallPush(t, p)
           \/ \E t \in Consumers : CallOther(t, "pop")
           \/ \E t \in Controllers, o \in {"start", "stop", "clear"} : CallOther(t, o)
           \/ setReleaseCallback
           \/ \E t \in Threads : Lock(t) \/ Body(t) \/ SpuriousWake(t)

Spec == Init /\ [][Next]_vars

(***************************************************************************)
(* A thread that holds the mutex runs on; a thread that finds the mutex    *)
(* free again and again gets it in the end.  Nobody has to make a call,    *)
(* and no wake-up happens by itself.                                       *)
(***************************************************************************)
Fairness == \A t \in Threads : /\ SF_vars(~fault /\ Lock(t))
                               /\ WF_vars(~fault /\ Body(t))

LiveSpec == Spec /\ Fairness

-----------------------------------------------------------------------------
\* Types: the queue's fields, every thread's position and argument, the owners.
TypeOK == /\ q \in Seq(Packet)
          /\ work \in BOOLEAN
          /\ releaseCallback \in BOOLEAN
          /\ mutex \in Threads \cup {None}
          /\ waiting \in SUBSET Consumers
          /\ op \in [Threads -> Ops]
          /\ arg \in [Threads -> Packet \cup {None}]
          /\ owner \in [Packet -> Owners]
          /\ fault \in BOOLEAN

\* With one consumer (the push thread), it sleeps in pop only while there is
\* nothing to take and nobody has stopped the queue: no wake-up is lost.
SleepsOnlyWhenIdle == waiting # {} => work /\ q = <<>>

\* With several consumers a sleeping one never leaves packets behind: each
\* queued packet has a consumer on its way to the mutex to take it.
EnoughAwake ==
    waiting # {} =>
        Len(q) <= Cardinality({t \in Consumers \ waiting : op[t] = "pop"})

\* A consumer in pop returns once the queue is stopped, unless it is restarted.
StopReleasesConsumer ==
    \A t \in Consumers :
        (op[t] = "pop" /\ ~work) ~> (op[t] = "none" \/ work \/ fault)

\* The mutex, the condition and the wake-ups are invisible: with whatever
\* interleaving of threads, the queue does what the one-step queue does.
Fifo == INSTANCE PacketFifo
\* The queue with its mutex and condition implements the one-step FIFO.
ImplementsFifo == Fifo!Spec
=============================================================================
