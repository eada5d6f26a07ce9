----------------------------- MODULE ExtraRoots -----------------------------
(***************************************************************************)
(* The pool of extra roots (src/runtime/gc.c): the C variables a runtime   *)
(* function has registered, because it allocates while it still needs what *)
(* they point to.  The pool is a stack; a pop names the variable it        *)
(* expects, and anything unexpected ends the process.                      *)
(***************************************************************************)
EXTENDS Naturals, Sequences, SequencesExt

CONSTANT MaxRoots  \* MAX_EXTRA_ROOTS_NUMBER

ASSUME MaxRootsAssumption == MaxRoots \in Nat

VARIABLES pool,  \* the registered variables, the newest last
          exit   \* "none", or the error the process has ended with

poolVars == <<pool, exit>>

PoolInit == pool = << >> /\ exit = "none"

(* fault: one variable more than there are places                          *)
PushRootBeyond(c) ==
  IF Len(pool) <= MaxRoots
    THEN pool' = Append(pool, c) /\ UNCHANGED exit
    ELSE exit' = "overflow" /\ UNCHANGED pool

(* push_extra_root                                                         *)
PushRoot(c) ==
  IF Len(pool) < MaxRoots
    THEN pool' = Append(pool, c) /\ UNCHANGED exit
    ELSE exit' = "overflow" /\ UNCHANGED pool

(* pop_extra_root                                                          *)
PopRoot(c) ==
  IF pool = << >>
    THEN exit' = "empty" /\ UNCHANGED pool
    ELSE /\ pool' = Front(pool)
         /\ exit' = IF Last(pool) = c THEN exit ELSE "mismatch"
=============================================================================
