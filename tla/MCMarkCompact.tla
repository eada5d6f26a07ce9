--------------------------- MODULE MCMarkCompact ---------------------------
(***************************************************************************)
(* A heap at one of two places, raw words that look like references into   *)
(* it, and two kinds of programs: with objects of every type, in a heap    *)
(* that moves or stays when it grows; and with more objects that are arrays*)
(* of one element and make chains and rings, in one that moves the first   *)
(* time.                                                                   *)
(***************************************************************************)
EXTENDS MarkCompact

AllTypes ==
  { [type |-> "array", len |-> 0], [type |-> "array", len |-> 2],
    [type |-> "sexp", len |-> 1], [type |-> "closure", len |-> 2],
    [type |-> "string", len |-> 3] }

Chains == {[type |-> "array", len |-> 1]}

MCBases == {10, 50}

MCBounds ==
  { [shapes |-> AllTypes, allocs |-> 3, bases |-> MCBases],
    [shapes |-> Chains, allocs |-> 5, bases |-> {50}] }

MCRawWords == {Ptr(12)}
=============================================================================
