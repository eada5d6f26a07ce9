---------------------------- MODULE MCVariables ----------------------------
(***************************************************************************)
(* Two globals by their number, of which the second is already outside the *)
(* array, the two indices after them, and others: the closure, a word of   *)
(* the header, the local, and what comes after the members.                *)
(***************************************************************************)
EXTENDS Variables

MCGlobals == {0, 1, 2, 3} \cup {-1, -3, -6, 5}

(* The words below the top are written before they are read.               *)
MCView ==
  << uses, checked, [a \in top + 1 .. Size + 2 |-> mem[a]], top, captured, status, risks >>
=============================================================================
