---------------------------- MODULE ObjectGraph ----------------------------
(***************************************************************************)
(* What the heap promises the interpreter: a graph of objects that holds   *)
(* exactly the objects the operand stack leads to.  There are no addresses *)
(* here; an object is named by its place among the reachable objects, the  *)
(* oldest first, and garbage is gone as soon as it is garbage.             *)
(*                                                                         *)
(* This is the abstract specification that the mark-compact collector of   *)
(* MarkCompact.tla implements.                                             *)
(***************************************************************************)
EXTENDS Naturals, Sequences, SequencesExt, FiniteSets

CONSTANTS Kinds,    \* what can be allocated: records [type, raw, fields]
                    \* with the numbers of raw words and of fields
          RawWords  \* what a raw word can be

VARIABLES objs,     \* the objects: records [type, raw, fields]
          operands  \* the operand stack, the top last

graphVars == <<objs, operands>>

Number == [kind |-> "int", v |-> 1]
Ref(k) == [kind |-> "ref", v |-> k]

RefsIn(values) == {w.v : w \in {x \in ToSet(values) : x.kind = "ref"}}

(* The objects that can be reached from a stack of values.                 *)
Reachable(objects, values) ==
  LET R[n \in 0 .. Len(objects)] ==
        IF n = 0 THEN RefsIn(values)
                 ELSE UNION {{k} \cup RefsIn(objects[k].fields) : k \in R[n - 1]}
  IN  R[Len(objects)]

(* the number that k has among the objects of R                            *)
Rank(R, k) == Cardinality({j \in R : j <= k})

Renamed(R, values) ==
  [i \in DOMAIN values |->
     IF values[i].kind = "ref" THEN Ref(Rank(R, values[i].v)) ELSE values[i]]

(* The graph without its garbage, its objects renumbered.                  *)
Trim(objects, values) ==
  LET R == Reachable(objects, values)
      kept(n) == CHOOSE k \in R : Rank(R, k) = n
  IN  [ objs |-> [n \in 1 .. Cardinality(R) |->
                    [objects[kept(n)] EXCEPT !.fields = Renamed(R, @)]],
        operands |-> Renamed(R, values) ]

Become(objects, values) ==
  LET g == Trim(objects, values) IN objs' = g.objs /\ operands' = g.operands

GraphInit == objs = << >> /\ operands = << >>

Push == Become(objs, Append(operands, Number))

Copy == \E i \in DOMAIN operands : Become(objs, Append(operands, operands[i]))

Drop == operands # << >> /\ Become(objs, Front(operands))

(* the object on top gives way to one of its fields                        *)
Elem ==
  /\ operands # << >> /\ Last(operands).kind = "ref"
  /\ \E f \in ToSet(objs[Last(operands).v].fields) :
       Become(objs, Append(Front(operands), f))

(* the value on top is assigned to a field of the object under it          *)
Assign ==
  /\ Len(operands) > 1
  /\ LET x == operands[Len(operands) - 1] IN
       /\ x.kind = "ref"
       /\ \E i \in DOMAIN objs[x.v].fields :
            Become([objs EXCEPT ![x.v].fields[i] = Last(operands)],
                   Append(SubSeq(operands, 1, Len(operands) - 2), Last(operands)))

Made(object, values) ==
  Become(Append(objs, object), Append(values, Ref(Len(objs) + 1)))

New ==
  \E k \in Kinds, r \in RawWords :
    LET rest == Len(operands) - k.fields IN
    /\ rest >= 0
    /\ Made([ type |-> k.type, raw |-> [i \in 1 .. k.raw |-> r],
              fields |-> SubSeq(operands, rest + 1, Len(operands)) ],
            SubSeq(operands, 1, rest))

(* the object on top gives way to a copy of it                             *)
Clone ==
  /\ operands # << >> /\ Last(operands).kind = "ref"
  /\ Made(objs[Last(operands).v], Front(operands))

(* What changes nothing is no step of its own.                             *)
GraphNext ==
  /\ graphVars' # graphVars
  /\ Push \/ Copy \/ Drop \/ Elem \/ Assign \/ New \/ Clone

GraphSpec == GraphInit /\ [][GraphNext]_graphVars
=============================================================================
