----------------------------- MODULE MCClassLink -----------------------------
(***************************************************************************)
(* An instance of ClassLink: interfaces I, J and K that extend each other  *)
(* in every way, a class A that implements some of them and a class B that *)
(* extends A.  The signatures m and n share an IMT slot and a hash chain.  *)
(***************************************************************************)
EXTENDS ClassLink

MCOrder == <<"I", "J", "K", "A", "B">>
M(s, kind) == <<[sig |-> s, kind |-> kind]>>
Type(iface, super, ifs, methods) ==
    [iface |-> iface, super |-> super, ifs |-> ifs, methods |-> methods, inst |-> ~iface,
     public |-> TRUE, final |-> FALSE]
IfLists(S) == {SetToSeq(T) : T \in {T \in SUBSET S : Cardinality(T) <= 2}}
Iface(S, lists) == {Type(TRUE, "Object", ifs, ms) : ifs \in IfLists(S), ms \in lists}
Class(super, S, lists) == {Type(FALSE, super, ifs, ms) : ifs \in IfLists(S), ms \in lists}

\* A class that is abstract, final or not public, has a final or a
\* package-private method, or implements the other signature.
OddA == {[Type(FALSE, "Object", <<"J">>, M("n", "concrete")) EXCEPT !.inst = FALSE],
         [Type(FALSE, "Object", <<"K">>, <<>>) EXCEPT !.inst = FALSE],
         [Type(FALSE, "Object", <<>>, <<>>) EXCEPT !.final = TRUE],
         [Type(FALSE, "Object", <<>>, <<>>) EXCEPT !.public = FALSE],
         Type(FALSE, "Object", <<"J">>, M("m", "final")),
         Type(FALSE, "Object", <<"K">>, M("n", "concrete")),
         Type(FALSE, "Object", <<>>, M("m", "pkg")),
         Type(FALSE, "Object", <<"I">>, M("m", "pkg"))}
\* An interface that extends a class, a class that extends an interface, one
\* that implements a class.
OddB == {Type(TRUE, "A", <<>>, <<>>), Type(FALSE, "I", <<>>, <<>>), Type(FALSE, "Object", <<"A">>, <<>>)}

MCDefs == [I |-> Iface({}, {M("m", "abstract"), M("m", "concrete")}),
           J |-> Iface({"I"}, {M("m", "abstract"), M("m", "concrete")}),
           K |-> Iface({"I", "J"}, {M("m", "concrete"), M("n", "abstract"), M("m", "abstract") \o M("n", "abstract")}),
           A |-> Class("Object", {"I", "J", "K"}, {<<>>, M("m", "concrete")}) \union OddA,
           B |-> Class("A", {"J", "K"}, {<<>>, M("m", "concrete"), M("n", "concrete") \o M("m", "abstract")})
                     \union {Type(FALSE, "A", <<"I">>, <<>>)} \union OddB]
MCPkg == [k \in Names |-> IF k = "B" THEN "q" ELSE "p"]
MCHash == [s \in {"o", "m", "n"} |-> CASE s = "o" -> 0 [] s = "m" -> 3 [] s = "n" -> 10]
MCImtIndex == [s \in {"o", "m", "n"} |-> IF s = "o" THEN 2 ELSE 1]
==============================================================================
