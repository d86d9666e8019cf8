---------------------------- MODULE MCClassDefine ----------------------------
(***************************************************************************)
(* An instance of ClassDefine: the boot loader defines Object; an          *)
(* application loader with a shared library, a delegate-last loader and a  *)
(* loader written in Java have it as their parent.  X and Y are abstract   *)
(* and extend each other.                                                  *)
(***************************************************************************)
EXTENDS ClassDefine

MCDescriptors == {"Object", "A", "B", "[A", "X", "Y"}
MCLoaders == {"boot", "lib", "app", "last", "java"}
MCKind == [boot |-> "boot", lib |-> "path", app |-> "path", last |-> "delegateLast", java |-> "custom"]
MCParent == [l \in MCLoaders |-> IF l = "java" THEN "app" ELSE "boot"]
MCLibs == [l \in MCLoaders |-> IF l = "app" THEN <<"lib">> ELSE <<>>]
MCDexFile == [boot |-> "core", lib |-> "libdex", app |-> "appdex", last |-> "appdex", java |-> "javadex"]
MCContents == [core |-> {"Object"}, libdex |-> {"A"}, appdex |-> {"A", "B", "X", "Y"}, javadex |-> {"B"}]
MCParents == [d \in MCDescriptors |-> CASE d = "A" -> <<"Object">> [] d = "B" -> <<"A", "Object">>
                                        [] d = "X" -> <<"Y">> [] d = "Y" -> <<"X">> [] OTHER -> <<>>]
MCComponent == [x \in {"[A"} |-> "A"]
MCRoots == LET first == CHOOSE u \in Threads : TRUE IN
           [t \in Threads |-> IF t = first THEN {<<"[A", "app">>, <<"A", "last">>, <<"X", "app">>, <<"B", "java">>}
                             ELSE {<<"B", "java">>, <<"B", "app">>}]
==============================================================================
