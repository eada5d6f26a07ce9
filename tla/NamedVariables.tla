--------------------------- MODULE NamedVariables ---------------------------
(***************************************************************************)
(* What a Lama function expects of its variables: each has a name and a    *)
(* value of its own, an operand is a value or the name of a variable, and  *)
(* nothing but an assignment to it changes a variable.  There are no       *)
(* addresses, no stack and no heap here.                                   *)
(*                                                                         *)
(* This is the abstract specification that Variables.tla implements.       *)
(***************************************************************************)
EXTENDS Naturals, Sequences, SequencesExt

CONSTANTS Vars,      \* the variables
          Literals,  \* the values of constants and string literals
          Initial    \* what a variable can be at first

VARIABLES vals,  \* the values of the variables
          ops,   \* the operands, the top last
          ins    \* the last instruction, and the variables it names

nvVars == <<vals, ops, ins>>

Value(w) == [kind |-> "value", v |-> w]
Name(v) == [kind |-> "name", v |-> v]

Top(k) == ops[Len(ops) - k]

Below(k) == SubSeq(ops, 1, Len(ops) - k)

Instr(op, vs) == [op |-> op, vars |-> vs]

NVInit == vals \in [Vars -> Initial] /\ ops = << >> /\ ins = Instr("BEGIN", << >>)

Literal ==
  /\ ins' = Instr("CONST", << >>)
  /\ \E w \in Literals : ops' = Append(ops, Value(w))
  /\ UNCHANGED vals

Load ==
  \E v \in Vars :
    /\ ins' = Instr("LD", <<v>>)
    /\ ops' = Append(ops, Value(vals[v]))
    /\ UNCHANGED vals

(* the name is pushed twice: for STA                                       *)
Refer ==
  \E v \in Vars :
    /\ ins' = Instr("LDA", <<v>>)
    /\ ops' = ops \o <<Name(v), Name(v)>>
    /\ UNCHANGED vals

Drop ==
  /\ ops # << >>
  /\ ins' = Instr("DROP", << >>)
  /\ ops' = Below(1)
  /\ UNCHANGED vals

Swap ==
  /\ Len(ops) > 1
  /\ ins' = Instr("SWAP", << >>)
  /\ ops' = Below(2) \o <<Top(0), Top(1)>>
  /\ UNCHANGED vals

Store ==
  /\ ops # << >> /\ Top(0).kind = "value"
  /\ \E v \in Vars :
       /\ ins' = Instr("ST", <<v>>)
       /\ vals' = [vals EXCEPT ![v] = Top(0).v]
  /\ UNCHANGED ops

(* the value on top to the variable named k words below it                 *)
AssignThrough(op, k) ==
  /\ Len(ops) > k /\ Top(0).kind = "value" /\ Top(k).kind = "name"
  /\ ins' = Instr(op, << >>)
  /\ vals' = [vals EXCEPT ![Top(k).v] = Top(0).v]
  /\ ops' = Append(Below(k + 1), Top(0))

(* A closure takes the values its variables have now, in their order.      *)
Capture ==
  \E vs \in UNION {[1 .. n -> Vars] : n \in 0 .. 2} :
    /\ ins' = Instr("CLOSURE", vs)
    /\ ops' = Append(ops, Value([kind |-> "closure", v |-> [i \in DOMAIN vs |-> vals[vs[i]]]]))
    /\ UNCHANGED vals

NVNext ==
  \/ Literal \/ Load \/ Refer \/ Drop \/ Swap \/ Store
  \/ AssignThrough("STI", 1) \/ AssignThrough("STA", 2) \/ Capture

NVSpec == NVInit /\ [][NVNext]_nvVars
=============================================================================
