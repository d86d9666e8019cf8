----------------------------- MODULE PacketFifo -----------------------------
(***************************************************************************)
(* What the packet queue promises its callers, every call taking effect at *)
(* one instant: packets leave in the order they were accepted, each of     *)
(* them has exactly one owner at any time, and a pop comes back without a  *)
(* packet only when the queue is stopped and empty.                        *)
(***************************************************************************)
EXTENDS Sequences

CONSTANT Packet     \* the packets a caller may push, each of them once

VARIABLES
    q,              \* the accepted packets, oldest first
    work,           \* is the queue accepting packets?
    owner           \* who owns each packet

vars == <<q, work, owner>>

Owners == {"caller", "queue", "consumer", "freed"}

Init == /\ q = <<>>
        /\ work = FALSE
        /\ owner = [p \in Packet |-> "caller"]

\* A working queue takes the packet over.
Accept(p) == /\ work
             /\ owner[p] = "caller"
             /\ q' = Append(q, p)
             /\ owner' = [owner EXCEPT ![p] = "queue"]
             /\ UNCHANGED work

\* A stopped queue frees it at once.
Reject(p) == /\ ~work
             /\ owner[p] = "caller"
             /\ owner' = [owner EXCEPT ![p] = "freed"]
             /\ UNCHANGED <<q, work>>

\* The consumer receives the oldest packet.
Take == /\ q # <<>>
        /\ q' = Tail(q)
        /\ owner' = [owner EXCEPT ![Head(q)] = "consumer"]
        /\ UNCHANGED work

SetWork(w) == /\ work' = w
              /\ UNCHANGED <<q, owner>>

\* Everything still queued is freed.
Clear == /\ q' = <<>>
         /\ owner' = [p \in Packet |->
                        IF owner[p] = "queue" THEN "freed" ELSE owner[p]]
         /\ UNCHANGED work

Next == \/ \E p \in Packet : Accept(p) \/ Reject(p)
        \/ Take
        \/ \E w \in BOOLEAN : SetWork(w)
        \/ Clear

Spec == Init /\ [][Next]_vars

-----------------------------------------------------------------------------
\* The packets in the queue are exactly the ones the queue owns, each of them
\* once: nothing is queued that was handed out or freed, nothing owned is lost.
QueueOwnsItsPackets ==
    /\ \A p \in Packet : owner[p] = "queue" <=> \E i \in DOMAIN q : q[i] = p
    /\ \A i, j \in DOMAIN q : q[i] = q[j] => i = j
=============================================================================
