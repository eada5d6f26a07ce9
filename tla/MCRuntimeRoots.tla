--------------------------- MODULE MCRuntimeRoots ---------------------------
(***************************************************************************)
(* A small pool, that a closure of three values does not fit into.  The    *)
(* program's words are interchangeable.                                    *)
(***************************************************************************)
EXTENDS RuntimeRoots

MCSlots == Permutations(Slots)

MCArgNames == <<"a1", "a2", "a3">>

MCWordNames == <<"w1", "w2", "w3">>
=============================================================================
