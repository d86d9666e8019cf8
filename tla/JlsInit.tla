------------------------------- MODULE JlsInit -------------------------------
(***************************************************************************)
(* What class initialisation promises (the procedure of JLS 12.4.2 that    *)
(* ClassLinker::InitializeClass names): a class is claimed by one thread,  *)
(* its initialiser is started by that thread, once, and only when the      *)
(* superclass is done or is being initialised by the same thread; it then  *)
(* ends for good, done or failed.  ClassInit is shown to implement this.   *)
(***************************************************************************)
CONSTANTS Classes, Threads, Super, NoClass, NoThread

VARIABLES phase,  \* phase[k]: "fresh", "claimed", "clinit", "done" or "failed"
          by      \* by[k]: the thread that claimed k

vars == <<phase, by>>

Init == /\ phase = [k \in Classes |-> "fresh"]
        /\ by = [k \in Classes |-> NoThread]

Claim(t, k) == /\ phase[k] = "fresh"
               /\ phase' = [phase EXCEPT ![k] = "claimed"]
               /\ by' = [by EXCEPT ![k] = t]

\* The initialiser of k may run: its superclass is done, or in this thread's hands.
SuperReady(t, k) ==
    Super[k] = NoClass \/ phase[Super[k]] = "done" \/ by[Super[k]] = t

Run(t, k) == /\ phase[k] = "claimed" /\ by[k] = t
             /\ SuperReady(t, k)
             /\ phase' = [phase EXCEPT ![k] = "clinit"]
             /\ UNCHANGED by

Finish(t, k) == /\ phase[k] = "clinit" /\ by[k] = t
                /\ phase' = [phase EXCEPT ![k] = "done"]
                /\ UNCHANGED by

\* A class nobody claimed fails when it does not verify or its types do not
\* match its supertypes'; a claimed one only in the hands of its thread.
Fail(t, k) == /\ phase[k] = "fresh" \/ (phase[k] \in {"claimed", "clinit"} /\ by[k] = t)
              /\ phase' = [phase EXCEPT ![k] = "failed"]
              /\ UNCHANGED by

Next == \E t \in Threads, k \in Classes :
            Claim(t, k) \/ Run(t, k) \/ Finish(t, k) \/ Fail(t, k)

Spec == Init /\ [][Next]_vars
==============================================================================
