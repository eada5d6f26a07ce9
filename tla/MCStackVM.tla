----------------------------- MODULE MCStackVM -----------------------------
(***************************************************************************)
(* Functions with locals and with an argument.                             *)
(***************************************************************************)
EXTENDS StackVM

Fn(n_args, n_locals) == [nargs |-> n_args, nlocals |-> n_locals]

MCShapes == {Fn(0, 1), Fn(1, 0), Fn(0, 2)}

Bound(fns, size, frames, ops, captures, collects, unset) ==
  [fns |-> fns, size |-> size, frames |-> frames, ops |-> ops, captures |-> captures,
   collects |-> collects, unset |-> unset]

MCBounds == {
  Bound({Fn(0, 1), Fn(1, 0)}, 18, 3, 2, 2, FALSE, FALSE),
  Bound({Fn(0, 1), Fn(1, 0)}, 16, 3, 1, 0, TRUE, FALSE),
  Bound({Fn(0, 2), Fn(1, 0)}, 14, 2, 1, 2, TRUE, TRUE) }

MCNoCollections == {Bound({Fn(0, 1), Fn(1, 0)}, 20, 3, 2, 0, FALSE, FALSE)}

MCCollections == {Bound({Fn(0, 1), Fn(1, 0)}, 20, 3, 2, 0, TRUE, FALSE)}

(* Free words, and the one below the base of a frame until it is assigned. *)
Unread(a) ==
  a \notin Scanned \/ \E k \in DOMAIN shape : a = shape[k].base - 1 /\ ~shape[k].stored

(* An instruction can load such a word only as it is, and only CALLC and   *)
(* the collector follow it, when it is a pointer.  States that differ in it*)
(* otherwise are taken for one; where nothing collects, all of them are.   *)
MCView ==
  << [a \in 0 .. Size - 1 |->
        IF Unread(a) /\ (~bound.collects \/ mem[a] \notin {Closure, Stale}) THEN Zero ELSE mem[a]],
     bound, top, base, nargs, inClosure, status, callee, shape, risks >>
=============================================================================
