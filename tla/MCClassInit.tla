----------------------------- MODULE MCClassInit -----------------------------
(***************************************************************************)
(* Instances of ClassInit: B extends A, B and C implement the interface I, *)
(* which extends J.                                                        *)
(***************************************************************************)
EXTENDS ClassInit

MCClasses == {"A", "B", "C", "I", "J"}
MCSuper == [k \in MCClasses |-> IF k = "B" THEN "A" ELSE "none"]
MCDirect == [k \in MCClasses |-> CASE k \in {"B", "C"} -> <<"I">> [] k = "I" -> <<"J">> [] OTHER -> <<>>]

\* Initialisers that need each other in no circle.
TouchTree == [k \in MCClasses |-> IF k = "A" THEN <<"C">> ELSE <<>>]
\* TLC evaluates here the hypothesis under which SupersFirst is proved.
ASSUME NoCircleAssumption == NoCircle
==============================================================================
