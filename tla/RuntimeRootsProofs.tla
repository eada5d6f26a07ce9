------------------------- MODULE RuntimeRootsProofs -------------------------
(***************************************************************************)
(* The root discipline of the runtime (RuntimeRoots), for every number of  *)
(* slots of the program, calls and values, whenever the heap moves: every  *)
(* function on the stack follows a plan of its script, and a collection    *)
(* keeps the words its plan needs.                                         *)
(***************************************************************************)
EXTENDS ScriptProofs

-----------------------------------------------------------------------------
(***************************************************************************)
(* The stacks of frames and of roots, by positions                         *)
(***************************************************************************)
(* Append, as a name of its own.                                          *)
Atop(F, x) == Append(F, x)

(* A stack with one more element,                                          *)
LEMMA Grown ==
  ASSUME NEW n \in Nat, NEW F, NEW x, Indexed(F, n)
  PROVE  /\ Indexed(Atop(F, x), n + 1) /\ Atop(F, x)[n + 1] = x
         /\ \A k \in 1 .. n : Atop(F, x)[k] = F[k]
<1> DEFINE S == {F[k] : k \in 1 .. n} \cup {x}
<1>1. x \in S /\ \A k \in 1 .. n : F[k] \in S
  OBVIOUS
<1> HIDE DEF S
<1>2. F \in Seq(S) /\ Len(F) = n
  BY <1>1, SeqByPositions DEF Indexed
<1>3. PICK G : G = Atop(F, x)
  OBVIOUS
<1>4. /\ G \in Seq(S) /\ DOMAIN G = 1 .. n + 1 /\ G[n + 1] = x /\ \A k \in 1 .. n : G[k] = F[k]
  BY <1>1, <1>2, <1>3, AppendAt DEF Atop
<1>5. Indexed(G, n + 1)
  BY <1>4 DEF Indexed
<1> QED
  BY <1>3, <1>4, <1>5

(* one without its last element,                                           *)
LEMMA Popped ==
  ASSUME NEW n \in Nat, NEW m \in Nat, NEW F, n = m + 1, Indexed(F, n)
  PROVE  /\ Last(F) = F[n] /\ Len(F) = n /\ F # << >> /\ Indexed(Front(F), m)
         /\ \A k \in 1 .. m : Front(F)[k] = F[k]
<1> DEFINE S == {F[k] : k \in 1 .. n}
<1>1. \A k \in 1 .. n : F[k] \in S
  OBVIOUS
<1> HIDE DEF S
<1>2. F \in Seq(S) /\ Len(F) = n /\ F # << >>
  BY <1>1, SeqByPositions, IndexedLen DEF Indexed
<1>3. PICK G : G = Front(F)
  OBVIOUS
<1>4. /\ Last(F) = F[n] /\ G \in Seq(S) /\ Len(G) = m
      /\ \A k \in 1 .. m : G[k] = F[k]
  <2>1. n - 1 = m
    OBVIOUS
  <2> QED
    BY <1>2, <1>3, <2>1, LastSeq
<1>5. G \in [1 .. m -> S]
  BY <1>4, LenProperties
<1>6. Indexed(G, m)
  BY <1>5 DEF Indexed
<1> QED
  BY <1>2, <1>3, <1>4, <1>6

(* and one whose last element is another.                                  *)
LEMMA Replaced ==
  ASSUME NEW n \in Nat, NEW m \in Nat, NEW F, NEW x, n = m + 1, Indexed(F, n)
  PROVE  /\ Indexed(Atop(Front(F), x), n) /\ Atop(Front(F), x)[n] = x
         /\ \A k \in 1 .. m : Atop(Front(F), x)[k] = F[k]
<1>1. PICK G : G = Front(F)
  OBVIOUS
<1>2. Indexed(G, m) /\ \A k \in 1 .. m : G[k] = F[k]
  BY <1>1, Popped
<1>3. /\ Indexed(Atop(G, x), m + 1) /\ Atop(G, x)[m + 1] = x
      /\ \A k \in 1 .. m : Atop(G, x)[k] = G[k]
  <2>1. m \in Nat /\ Indexed(G, m)
    BY <1>2
  <2> QED
    BY ONLY <2>1, Grown
<1> QED
  BY <1>1, <1>2, <1>3

-----------------------------------------------------------------------------
(***************************************************************************)
(* What is true between two steps                                          *)
(***************************************************************************)
Own(k, top) == top = 0 \/ k <= top

RoleOf(F, k, top) == Role(Own(k, top), F[k].fn, F[k].params)

(* A word; one that leads to an object, if it is not stale.                *)
Word(w) ==
  /\ w = [kind |-> w.kind, obj |-> w.obj, fresh |-> w.fresh]
  /\ w.kind \in {"int", "c", "ref"} /\ w.fresh \in BOOLEAN

Leads(w, hp) == w.fresh /\ IsRef(w) => w.obj \in DOMAIN hp

FrameShape(f, names) ==
  /\ f = [fn |-> f.fn, code |-> f.code, params |-> f.params,
          vars |-> f.vars, setTop |-> f.setTop, result |-> f.result]
  /\ f.params \subseteq names
  /\ f.vars = [v \in names |-> f.vars[v]]

Shapes(F, n) ==
  /\ Indexed(F, n)
  /\ FrameShape(F[1], Slots) /\ F[1].params = Slots
  /\ \A k \in 2 .. n : FrameShape(F[k], Names)

(* Every function but the program follows its plan.                        *)
Follows(F, n, top, P) ==
  \A k \in 2 .. n : /\ Planned(RoleOf(F, k, top), F[k].code, P[k])
                    /\ Valid(RoleOf(F, k, top), P[k])

(* One that waits for another has a variable for its result.               *)
Awaits(F, k, top, A) ==
  /\ A.gc \in {"before", "in"}
  /\ F[k + 1].fn \in Callees /\ (F[k + 1].fn = "Bsexp" => F[k].fn = "ListCons")
  /\ Assigned(RoleOf(F, k, top), A, F[k + 1].result)
  /\ A.good \subseteq Kept(RoleOf(F, k, top), A) \cup {F[k + 1].result, "c"}

Waits(F, n, top, P) == \A k \in 2 .. n : k < n => Awaits(F, k, top, P[k])

Begins(F, n, who, sys) ==
  n >= 2 => /\ F[2].result \in Slots
            /\ F[2].fn = "SetArgs" => sys = Int0
            /\ who = "interpreter" => F[2].fn \in {"Bstring", "Lstring"}

(* The scanned stack ends in the frame of the function that set its top.   *)
TopSet(F, n, top, who, P) ==
  /\ top \in 0 .. n
  /\ top = 1 <=> who = "interpreter"
  /\ \A k \in 2 .. n :
       /\ top = 0 => P[k].gc # "in"
       /\ k < top => P[k].gc = "before"
       /\ k = top => P[k].gc = "in" /\ F[k].setTop
       /\ P[k].gc = "in" /\ F[k].setTop => k = top

(* The pool has the variables of each function in a part of its own.       *)
InPart(k, P, E, pl, i) ==
  E[k - 1] < i /\ i <= E[k] /\ \E j \in 1 .. Len(P[k].stack) :
     i = E[k - 1] + j /\ pl[i] = <<k, P[k].stack[j]>>

Parts(n, P, E, pl, sys) ==
  /\ \A k \in 1 .. n : E[k] \in Nat
  /\ \A k, l \in 1 .. n : k <= l => E[k] <= E[l]
  /\ E[1] = (IF sys = Int0 THEN 0 ELSE 1)
  /\ \A k \in 2 .. n : E[k] = E[k - 1] + Len(P[k].stack)
  /\ Indexed(pl, E[n])
  /\ sys # Int0 => pl[1] = SysArgs
  /\ \A k \in 2 .. n : \A j \in 1 .. Len(P[k].stack) : pl[E[k - 1] + j] = <<k, P[k].stack[j]>>
  /\ \A i \in 1 .. E[n] : (i = 1 /\ sys # Int0) \/ \E k \in 2 .. n : InPart(k, P, E, pl, i)

(* Only a closure may need more places than three.                         *)
Rooms(F, n, top, E) ==
  \A k \in 2 .. n : F[k].fn # "Bclosure" => E[k - 1] + Room(RoleOf(F, k, top)) <= 3

(* The variables that have to be good are: those that a collection keeps,  *)
(* and those, good, the innermost function may use.                        *)
Words(F, n, sys, hp) ==
  /\ \A k \in 1 .. n : \A v \in DOMAIN F[k].vars : Word(F[k].vars[v]) /\ Leads(F[k].vars[v], hp)
  /\ \A s \in Slots : F[1].vars[s].fresh
  /\ Word(sys) /\ Leads(sys, hp) /\ sys.fresh /\ (sys = Int0 \/ IsRef(sys))
  /\ \A k \in 2 .. n : F[k].vars["c"].fresh /\ ~IsRef(F[k].vars["c"])

Fresh(F, k, A) == \A v \in A : F[k].vars[v].fresh

Refs(F, k, A) == \A v \in A : IsRef(F[k].vars[v])

Keeps(F, n, top, P, good) ==
  /\ \A k \in 2 .. n : Fresh(F, k, Kept(RoleOf(F, k, top), P[k]))
  /\ \A k \in 2 .. n : Refs(F, k, IF k < n THEN P[k].refs \ {F[k + 1].result} ELSE P[k].refs)
  /\ n >= 2 => Fresh(F, n, good)

Heap(hp) ==
  /\ IsFiniteSet(DOMAIN hp) /\ hp = [o \in DOMAIN hp |-> hp[o]]
  /\ \A o \in DOMAIN hp :
       /\ hp[o] = [type |-> hp[o].type, fields |-> hp[o].fields]
       /\ hp[o].fields = [i \in DOMAIN hp[o].fields |-> hp[o].fields[i]]
       /\ \A i \in DOMAIN hp[o].fields :
            LET w == hp[o].fields[i] IN Word(w) /\ w.fresh /\ Leads(w, hp)

Good(F, n, top, who, pl, sys, hp, P, E, good) ==
  /\ n \in Nat /\ n >= 1
  /\ Shapes(F, n) /\ Follows(F, n, top, P) /\ Waits(F, n, top, P)
  /\ Begins(F, n, who, sys) /\ TopSet(F, n, top, who, P)
  /\ Parts(n, P, E, pl, sys) /\ Rooms(F, n, top, E)
  /\ Words(F, n, sys, hp) /\ Keeps(F, n, top, P, good) /\ Heap(hp)

(* What the properties need, whether or not the process has ended; and how *)
(* it may have ended.                                                      *)
Base(F, n, top, pl, sys, hp, P, E) ==
  /\ n \in Nat /\ n >= 1 /\ Indexed(F, n)
  /\ top \in 0 .. n /\ (top > 1 => F[top].setTop)
  /\ Words(F, n, sys, hp) /\ Heap(hp) /\ Parts(n, P, E, pl, sys)

Ended(F, n, sys, why) ==
  \/ /\ why = "overflow" /\ n = 2 /\ F[2].fn = "Bclosure"
     /\ Cardinality(F[2].params) + 1 + (IF sys = Int0 THEN 0 ELSE 1) > MaxRoots
  \/ why = "stale" /\ n = 3 /\ F[2].fn = "ListCons" /\ F[3].fn = "Bsexp"
  \/ why = "stale" /\ n = 2 /\ F[2].fn = "SetArgs" /\ Head(F[2].code).do = "store"

Inv(F, top, pl, sys, hp, who, why) ==
  \E P, E :
     /\ Base(F, Len(F), top, pl, sys, hp, P, E)
     /\ \/ why = "none" /\ Good(F, Len(F), top, who, pl, sys, hp, P, E, P[Len(F)].good)
        \/ why # "none" /\ Ended(F, Len(F), sys, why)

RRInv == Inv(frames, gcTop, pool, sysargs, heap, caller, exit)

-----------------------------------------------------------------------------
(***************************************************************************)
(* Steps of the innermost function                                         *)
(***************************************************************************)

(* The functions that wait stay as they are.                               *)
Local(F, G, n) ==
  /\ Indexed(G, n) /\ FrameShape(G[n], Names)
  /\ \A k \in 1 .. n : k < n => G[k] = F[k]
  /\ G[n].fn = F[n].fn /\ G[n].params = F[n].params /\ G[n].result = F[n].result

LocalTop(top, t, n) == t = top \/ (top = 0 /\ t = n) \/ (top = n /\ t = 0)

LocalPlans(P, Q, n) == \A k \in 1 .. n : k < n => Q[k] = P[k]

Below(E, D, n) == \A k \in 1 .. n : k < n => D[k] = E[k]

(* A step of the innermost function leaves every role as it was.           *)
LEMMA LocalRoles ==
  ASSUME NEW n \in Nat, n >= 2, NEW F, NEW G, Local(F, G, n), NEW top, NEW t,
         top \in 0 .. n, LocalTop(top, t, n)
  PROVE  \A k \in 1 .. n : RoleOf(G, k, t) = RoleOf(F, k, top)
<1>1. ASSUME NEW k \in 1 .. n
      PROVE  RoleOf(G, k, t) = RoleOf(F, k, top)
  <2>1. G[k].fn = F[k].fn /\ G[k].params = F[k].params
    <3>1. k < n \/ k = n
      OBVIOUS
    <3> QED
      BY <3>1 DEF Local
  <2>2. Own(k, t) = Own(k, top)
    BY DEF LocalTop, Own
  <2> QED
    BY <2>1, <2>2 DEF RoleOf
<1> QED
  BY <1>1

(* All that is known of the functions but what the variables of the        *)
(* innermost one hold.                                                     *)
Framed(F, n, top, who, sys, P, E) ==
  /\ n \in Nat /\ n >= 1 /\ top \in 0 .. n
  /\ Shapes(F, n) /\ Follows(F, n, top, P) /\ Waits(F, n, top, P)
  /\ Begins(F, n, who, sys) /\ Rooms(F, n, top, E)
  /\ \A k \in 2 .. n : k < n => /\ Fresh(F, k, Kept(RoleOf(F, k, top), P[k]))
                               /\ Refs(F, k, P[k].refs \ {F[k + 1].result})

(* The part of the invariant that is not about the pool and the heap.      *)
LEMMA GoodIsFramed ==
  ASSUME NEW F, NEW n, NEW top, NEW who, NEW pl, NEW sys, NEW hp, NEW P, NEW E, NEW good,
         Good(F, n, top, who, pl, sys, hp, P, E, good)
  PROVE  Framed(F, n, top, who, sys, P, E)
<1>1. top \in 0 .. n
  BY DEF Good, TopSet
<1>2. ASSUME NEW k \in 2 .. n, k < n
      PROVE  /\ Fresh(F, k, Kept(RoleOf(F, k, top), P[k]))
             /\ Refs(F, k, P[k].refs \ {F[k + 1].result})
  BY <1>2 DEF Good, Keeps
<1> QED
  BY <1>1, <1>2 DEF Good, Framed

(* The same part after a step of the innermost function,                   *)
LEMMA LocalRest ==
  ASSUME NEW F, NEW n, NEW top, NEW who, NEW sys, NEW P, NEW E,
         NEW G, NEW t, NEW Q, NEW D,
         Framed(F, n, top, who, sys, P, E), n >= 2,
         Local(F, G, n), LocalTop(top, t, n), LocalPlans(P, Q, n),
         Planned(RoleOf(F, n, top), G[n].code, Q[n]), Valid(RoleOf(F, n, top), Q[n]),
         Below(E, D, n)
  PROVE  /\ Shapes(G, n) /\ Follows(G, n, t, Q) /\ Waits(G, n, t, Q)
         /\ Begins(G, n, who, sys) /\ Rooms(G, n, t, D)
         /\ \A k \in 1 .. n : RoleOf(G, k, t) = RoleOf(F, k, top)
         /\ \A k \in 2 .. n : k < n => /\ Fresh(G, k, Kept(RoleOf(G, k, t), Q[k]))
                                       /\ Refs(G, k, Q[k].refs \ {G[k + 1].result})
<1>1. n \in Nat /\ top \in 0 .. n
  BY DEF Framed
<1>2. \A k \in 1 .. n : RoleOf(G, k, t) = RoleOf(F, k, top)
  BY <1>1, LocalRoles
<1>3. Shapes(G, n)
  <2>1. Shapes(F, n)
    BY DEF Framed
  <2>2. G[1] = F[1]
    BY <1>1 DEF Local
  <2>3. ASSUME NEW k \in 2 .. n
        PROVE  FrameShape(G[k], Names)
    <3>1. k < n \/ k = n
      BY <1>1
    <3> QED
      BY <2>1, <3>1 DEF Local, Shapes
  <2> QED
    BY <2>1, <2>2, <2>3 DEF Local, Shapes
<1>4. Follows(G, n, t, Q)
  <2>1. ASSUME NEW k \in 2 .. n
        PROVE  Planned(RoleOf(G, k, t), G[k].code, Q[k]) /\ Valid(RoleOf(G, k, t), Q[k])
    <3>1. CASE k = n
      BY <1>1, <1>2, <3>1
    <3>2. CASE k < n
      <4>1. G[k] = F[k] /\ Q[k] = P[k] /\ RoleOf(G, k, t) = RoleOf(F, k, top)
        BY <1>1, <1>2, <3>2 DEF Local, LocalPlans
      <4>2. Planned(RoleOf(F, k, top), F[k].code, P[k]) /\ Valid(RoleOf(F, k, top), P[k])
        BY DEF Framed, Follows
      <4> QED
        BY <4>1, <4>2
    <3> QED
      BY <1>1, <3>1, <3>2
  <2> QED
    BY <2>1 DEF Follows
<1>5. Waits(G, n, t, Q)
  <2>1. ASSUME NEW k \in 2 .. n, k < n
        PROVE  Awaits(G, k, t, Q[k])
    <3>1. G[k].fn = F[k].fn /\ Q[k] = P[k] /\ RoleOf(G, k, t) = RoleOf(F, k, top)
      BY <1>1, <1>2, <2>1 DEF Local, LocalPlans
    <3>2. G[k + 1].fn = F[k + 1].fn /\ G[k + 1].result = F[k + 1].result
      <4>1. k + 1 \in 1 .. n /\ (k + 1 < n \/ k + 1 = n)
        BY <1>1, <2>1
      <4> QED
        BY <4>1 DEF Local
    <3>3. Awaits(F, k, top, P[k])
      BY <2>1 DEF Framed, Waits
    <3> QED
      BY <3>1, <3>2, <3>3 DEF Awaits
  <2> QED
    BY <2>1 DEF Waits
<1>6. Begins(G, n, who, sys)
  <2>1. G[2].fn = F[2].fn /\ G[2].result = F[2].result
    <3>1. 2 \in 1 .. n /\ (2 < n \/ 2 = n)
      BY <1>1
    <3> QED
      BY <3>1 DEF Local
  <2> QED
    BY <2>1 DEF Framed, Begins
<1>7. Rooms(G, n, t, D)
  <2>1. ASSUME NEW k \in 2 .. n, G[k].fn # "Bclosure"
        PROVE  D[k - 1] + Room(RoleOf(G, k, t)) <= 3
    <3>1. k - 1 \in 1 .. n /\ k - 1 < n /\ k \in 1 .. n
      BY <1>1
    <3>2. D[k - 1] = E[k - 1] /\ RoleOf(G, k, t) = RoleOf(F, k, top)
      BY <1>2, <3>1 DEF Below
    <3>3. G[k].fn = F[k].fn
      BY <1>1 DEF Local
    <3> QED
      BY <2>1, <3>2, <3>3 DEF Framed, Rooms
  <2> QED
    BY <2>1 DEF Rooms
<1>8. ASSUME NEW k \in 2 .. n, k < n
      PROVE  /\ Fresh(G, k, Kept(RoleOf(G, k, t), Q[k]))
             /\ Refs(G, k, Q[k].refs \ {G[k + 1].result})
  <2>1. G[k] = F[k] /\ Q[k] = P[k] /\ RoleOf(G, k, t) = RoleOf(F, k, top)
    BY <1>1, <1>2, <1>8 DEF Local, LocalPlans
  <2>2. Fresh(F, k, Kept(RoleOf(F, k, top), P[k]))
    BY <1>8 DEF Framed
  <2>3. Refs(F, k, P[k].refs \ {F[k + 1].result})
    BY <1>8 DEF Framed
  <2>4. G[k + 1].result = F[k + 1].result
    <3>1. k + 1 \in 1 .. n /\ (k + 1 < n \/ k + 1 = n)
      BY <1>1, <1>8
    <3> QED
      BY <3>1 DEF Local
  <2> QED
    BY <2>1, <2>2, <2>3, <2>4 DEF Fresh, Refs
<1> QED
  BY <1>2, <1>3, <1>4, <1>5, <1>6, <1>7, <1>8

(* and all of it, once the pool, the heap and the words are accounted for. *)
LEMMA LocalStep ==
  ASSUME NEW F, NEW n, NEW top, NEW who, NEW sys, NEW P, NEW E,
         NEW G, NEW t, NEW pm, NEW hq, NEW Q, NEW D,
         Framed(F, n, top, who, sys, P, E), n >= 2,
         Local(F, G, n), LocalTop(top, t, n), LocalPlans(P, Q, n),
         Planned(RoleOf(F, n, top), G[n].code, Q[n]), Valid(RoleOf(F, n, top), Q[n]),
         TopSet(G, n, t, who, Q), Parts(n, Q, D, pm, sys),
         \A k \in 1 .. n : k < n => D[k] = E[k],
         Words(G, n, sys, hq), Heap(hq), Fresh(G, n, Q[n].good), Refs(G, n, Q[n].refs)
  PROVE  Good(G, n, t, who, pm, sys, hq, Q, D, Q[n].good)
<1>1. n \in Nat /\ n >= 1
  BY DEF Framed
<1>2. /\ Shapes(G, n) /\ Follows(G, n, t, Q) /\ Waits(G, n, t, Q)
      /\ Begins(G, n, who, sys) /\ Rooms(G, n, t, D)
      /\ \A k \in 1 .. n : RoleOf(G, k, t) = RoleOf(F, k, top)
      /\ \A k \in 2 .. n : k < n => /\ Fresh(G, k, Kept(RoleOf(G, k, t), Q[k]))
                                    /\ Refs(G, k, Q[k].refs \ {G[k + 1].result})
  <2>1. Below(E, D, n)
    BY DEF Below
  <2> QED
    BY <2>1, LocalRest
<1>3. Keeps(G, n, t, Q, Q[n].good)
  <2>1. Fresh(G, n, Kept(RoleOf(G, n, t), Q[n]))
    <3>1. Kept(RoleOf(G, n, t), Q[n]) \subseteq Q[n].good
      BY <1>1, <1>2 DEF Valid
    <3> QED
      BY <3>1 DEF Fresh
  <2>2. \A k \in 2 .. n : k = n \/ k < n
    BY <1>1
  <2>3. \A k \in 2 .. n : Fresh(G, k, Kept(RoleOf(G, k, t), Q[k]))
    BY <1>2, <2>1, <2>2
  <2>4. \A k \in 2 .. n : Refs(G, k, IF k < n THEN Q[k].refs \ {G[k + 1].result} ELSE Q[k].refs)
    BY <1>2, <2>2
  <2> QED
    BY <2>3, <2>4 DEF Keeps
<1> QED
  BY <1>1, <1>2, <1>3 DEF Good

(* The scanned stack after a step that is not PRE_GC or POST_GC,           *)
LEMMA SameTop ==
  ASSUME NEW F, NEW n, NEW top, NEW who, NEW P, NEW G, NEW Q, n \in Nat, n >= 2,
         TopSet(F, n, top, who, P), Local(F, G, n), LocalPlans(P, Q, n),
         Q[n].gc = P[n].gc, G[n].setTop = F[n].setTop
  PROVE  TopSet(G, n, top, who, Q) /\ LocalTop(top, top, n)
<1>1. ASSUME NEW k \in 2 .. n
      PROVE  Q[k].gc = P[k].gc /\ G[k].setTop = F[k].setTop
  <2>1. k \in 1 .. n /\ (k < n \/ k = n)
    OBVIOUS
  <2> QED
    BY <2>1 DEF Local, LocalPlans
<1> QED
  BY <1>1 DEF TopSet, LocalTop

(* after PRE_GC,                                                           *)
LEMMA EnterTop ==
  ASSUME NEW F, NEW n, NEW top, NEW who, NEW P, NEW G, NEW Q, NEW t, n \in Nat, n >= 2,
         TopSet(F, n, top, who, P), Waits(F, n, top, P), Local(F, G, n), LocalPlans(P, Q, n),
         P[n].gc = "before", Q[n].gc = "in", G[n].setTop <=> (top = 0),
         t = IF top = 0 THEN n ELSE top
  PROVE  TopSet(G, n, t, who, Q) /\ LocalTop(top, t, n)
<1>1. ASSUME NEW k \in 2 .. n, k < n
      PROVE  Q[k].gc = P[k].gc /\ G[k].setTop = F[k].setTop /\ P[k].gc \in {"before", "in"}
  <2>1. k \in 1 .. n
    OBVIOUS
  <2> QED
    BY <1>1, <2>1 DEF Local, LocalPlans, Waits, Awaits
<1>2. top \in 0 .. n /\ (top = 1 <=> who = "interpreter")
  BY DEF TopSet
<1>3. n \in 2 .. n
  OBVIOUS
<1>4. top # n
  BY <1>3 DEF TopSet
<1>5. ASSUME NEW k \in 2 .. n
      PROVE  /\ t = 0 => Q[k].gc # "in"
             /\ k < t => Q[k].gc = "before"
             /\ k = t => Q[k].gc = "in" /\ G[k].setTop
             /\ Q[k].gc = "in" /\ G[k].setTop => k = t
  <2>1. CASE k = n
    BY <1>2, <1>4, <2>1
  <2>2. CASE k < n /\ top = 0
    <3>1. Q[k].gc = "before"
      BY <1>1, <2>2 DEF TopSet
    <3> QED
      BY <2>2, <3>1
  <2>3. CASE k < n /\ top # 0
    <3>1. t = top
      BY <2>3
    <3>2. Q[k].gc = P[k].gc /\ G[k].setTop = F[k].setTop
      BY <1>1, <2>3
    <3> QED
      BY <2>3, <3>1, <3>2 DEF TopSet
  <2> QED
    BY <2>1, <2>2, <2>3
<1>6. t \in 0 .. n /\ (t = 1 <=> who = "interpreter")
  BY <1>2
<1> QED
  BY <1>2, <1>5, <1>6 DEF TopSet, LocalTop

(* and after POST_GC.                                                      *)
LEMMA LeaveTop ==
  ASSUME NEW F, NEW n, NEW top, NEW who, NEW P, NEW G, NEW Q, NEW t, n \in Nat, n >= 2,
         TopSet(F, n, top, who, P), Local(F, G, n), LocalPlans(P, Q, n),
         P[n].gc = "in", Q[n].gc = "after", G[n].setTop = F[n].setTop,
         t = IF F[n].setTop THEN 0 ELSE top
  PROVE  TopSet(G, n, t, who, Q) /\ LocalTop(top, t, n)
<1>1. ASSUME NEW k \in 2 .. n, k < n
      PROVE  Q[k].gc = P[k].gc /\ G[k].setTop = F[k].setTop
  <2>1. k \in 1 .. n
    OBVIOUS
  <2> QED
    BY <1>1, <2>1 DEF Local, LocalPlans
<1>2. top \in 0 .. n /\ (top = 1 <=> who = "interpreter")
  BY DEF TopSet
<1>3. n \in 2 .. n
  OBVIOUS
<1>4. F[n].setTop => top = n
  BY <1>3 DEF TopSet
<1>5. ~F[n].setTop => top # n
  BY <1>3 DEF TopSet
<1>6. ASSUME NEW k \in 2 .. n
      PROVE  /\ t = 0 => Q[k].gc # "in"
             /\ k < t => Q[k].gc = "before"
             /\ k = t => Q[k].gc = "in" /\ G[k].setTop
             /\ Q[k].gc = "in" /\ G[k].setTop => k = t
  <2>1. CASE k = n
    BY <1>2, <1>4, <1>5, <2>1
  <2>2. CASE k < n /\ F[n].setTop
    <3>1. P[k].gc = "before"
      BY <1>4, <2>2 DEF TopSet
    <3>2. Q[k].gc = "before"
      BY <1>1, <2>2, <3>1
    <3> QED
      BY <2>2, <3>2
  <2>3. CASE k < n /\ ~F[n].setTop
    <3>1. t = top
      BY <2>3
    <3>2. Q[k].gc = P[k].gc /\ G[k].setTop = F[k].setTop
      BY <1>1, <2>3
    <3> QED
      BY <2>3, <3>1, <3>2 DEF TopSet
  <2> QED
    BY <2>1, <2>2, <2>3
<1>7. t \in 0 .. n /\ (t = 1 <=> who = "interpreter")
  BY <1>2, <1>4
<1> QED
  BY <1>2, <1>4, <1>6, <1>7 DEF TopSet, LocalTop

(* A step that changes no roots leaves the parts of the pool alone.        *)
LEMMA SameParts ==
  ASSUME NEW n, NEW P, NEW E, NEW pl, NEW sys, NEW Q, n \in Nat, n >= 2,
         Parts(n, P, E, pl, sys), LocalPlans(P, Q, n), Q[n].stack = P[n].stack
  PROVE  Parts(n, Q, E, pl, sys)
<1>1. ASSUME NEW k \in 2 .. n
      PROVE  Q[k].stack = P[k].stack
  <2>1. k \in 1 .. n /\ (k < n \/ k = n)
    OBVIOUS
  <2> QED
    BY <2>1 DEF LocalPlans
<1>2. \A k \in 2 .. n : E[k] = E[k - 1] + Len(Q[k].stack)
  BY <1>1 DEF Parts
<1>3. \A k \in 2 .. n : \A j \in 1 .. Len(Q[k].stack) : pl[E[k - 1] + j] = <<k, Q[k].stack[j]>>
  BY <1>1 DEF Parts
<1>4. \A i \in 1 .. E[n] : (i = 1 /\ sys # Int0) \/ \E k \in 2 .. n : InPart(k, Q, E, pl, i)
  <2>1. ASSUME NEW k \in 2 .. n, NEW i, InPart(k, P, E, pl, i)
        PROVE  InPart(k, Q, E, pl, i)
    BY <1>1, <2>1 DEF InPart
  <2> QED
    BY <2>1 DEF Parts
<1> QED
  BY <1>2, <1>3, <1>4 DEF Parts

(* The words of the frames, when the innermost function changes its own.   *)
LEMMA WordsStep ==
  ASSUME NEW F, NEW n, NEW sys, NEW hp, NEW G, NEW hq, n \in Nat, n >= 2,
         Shapes(F, n), Words(F, n, sys, hp), Local(F, G, n), DOMAIN hp \subseteq DOMAIN hq,
         \A u \in Names : \/ G[n].vars[u] = F[n].vars[u]
                          \/ u # "c" /\ Word(G[n].vars[u]) /\ Leads(G[n].vars[u], hq)
  PROVE  Words(G, n, sys, hq)
<1>1. DOMAIN F[n].vars = Names /\ DOMAIN G[n].vars = Names
  <2>1. n \in 2 .. n
    OBVIOUS
  <2> QED
    BY <2>1 DEF Shapes, Local, FrameShape
<1>2. \A w : Leads(w, hp) => Leads(w, hq)
  BY DEF Leads
<1>3. ASSUME NEW k \in 1 .. n, NEW v \in DOMAIN G[k].vars
      PROVE  Word(G[k].vars[v]) /\ Leads(G[k].vars[v], hq)
  <2>1. CASE k = n
    <3>1. v \in Names /\ Word(F[n].vars[v]) /\ Leads(F[n].vars[v], hp)
      BY <1>1, <1>3, <2>1 DEF Words
    <3> QED
      BY <1>2, <2>1, <3>1
  <2>2. CASE k < n
    <3>1. G[k] = F[k]
      BY <2>2 DEF Local
    <3>2. Word(F[k].vars[v]) /\ Leads(F[k].vars[v], hp)
      BY <1>3, <3>1 DEF Words
    <3> QED
      BY <1>2, <3>1, <3>2
  <2> QED
    BY <2>1, <2>2
<1>4. \A s \in Slots : G[1].vars[s].fresh
  <2>1. G[1] = F[1]
    BY DEF Local
  <2> QED
    BY <2>1 DEF Words
<1>5. ASSUME NEW k \in 2 .. n
      PROVE  G[k].vars["c"].fresh /\ ~IsRef(G[k].vars["c"])
  <2>1. G[k].vars["c"] = F[k].vars["c"]
    <3>1. k < n \/ k = n
      OBVIOUS
    <3>2. "c" \in Names
      BY DEF Names
    <3> QED
      BY <3>1, <3>2 DEF Local
  <2> QED
    BY <2>1 DEF Words
<1>6. Word(sys) /\ Leads(sys, hq) /\ sys.fresh /\ (sys = Int0 \/ IsRef(sys))
  BY <1>2 DEF Words
<1> QED
  BY <1>3, <1>4, <1>5, <1>6 DEF Words

(* The last part ends at d where it ended at e; the others are as before.  *)
Higher(E, D, n, e, d) == e = E[n] /\ d = e + 1 /\ D[n] = d /\ \A k \in 1 .. n : k < n => D[k] = E[k]

Lower(E, D, n, e, d) == e = E[n] /\ d = e - 1 /\ D[n] = d /\ \A k \in 1 .. n : k < n => D[k] = E[k]

(* One root more, and one less.                                            *)
LEMMA PushParts ==
  ASSUME NEW n, NEW P, NEW E, NEW pl, NEW sys, NEW Q, NEW D, NEW pm, NEW v, NEW e, NEW d,
         n \in Nat, n >= 2, Parts(n, P, E, pl, sys), LocalPlans(P, Q, n),
         Longer(P[n].stack, Q[n].stack, v), \A k \in 2 .. n : Len(P[k].stack) \in Nat,
         Higher(E, D, n, e, d),
         Indexed(pm, d), pm[d] = <<n, v>>, \A i \in 1 .. e : pm[i] = pl[i]
  PROVE  Parts(n, Q, D, pm, sys)
<1>0. e = E[n] /\ d = e + 1 /\ D[n] = d /\ \A k \in 1 .. n : k < n => D[k] = E[k]
  BY DEF Higher
<1> USE <1>0
<1>1. n \in 1 .. n /\ n \in 2 .. n /\ n - 1 \in 1 .. n /\ n - 1 < n /\ 1 \in 1 .. n /\ 1 < n
  OBVIOUS
<1>2. /\ e \in Nat /\ d \in Nat /\ e <= d
      /\ \A k \in 1 .. n : E[k] \in Nat /\ E[k] <= e
  BY <1>1 DEF Parts
<1>3. PICK l \in Nat : l = Len(P[n].stack)
  BY <1>1
<1>4. /\ Len(Q[n].stack) = l + 1 /\ Q[n].stack[l + 1] = v
      /\ \A k \in 1 .. l : Q[n].stack[k] = P[n].stack[k]
  BY <1>3 DEF Longer
<1>5. PICK b \in Nat : b = E[n - 1]
  BY <1>1, <1>2
<1>6. e = b + l
  BY <1>1, <1>3, <1>5 DEF Parts
<1>7. D[n - 1] = b /\ D[1] = E[1]
  BY <1>1, <1>5
<1>8. \A k \in 1 .. n : D[k] \in Nat
  BY <1>2
<1>9. \A k, i \in 1 .. n : k <= i => D[k] <= D[i]
  <2>1. ASSUME NEW k \in 1 .. n, NEW i \in 1 .. n, k <= i
        PROVE  D[k] <= D[i]
    <3>1. CASE i = n /\ k < n
      <4>1. D[k] = E[k] /\ E[k] <= e /\ D[i] = d /\ E[k] \in Nat
        BY <1>2, <3>1
      <4> QED
        BY <1>2, <4>1
    <3>2. CASE i = n /\ k = n
      BY <1>2, <3>2
    <3>3. CASE i < n
      <4>1. D[k] = E[k] /\ D[i] = E[i]
        BY <2>1, <3>3
      <4> QED
        BY <2>1, <4>1 DEF Parts
    <3> QED
      BY <2>1, <3>1, <3>2, <3>3
  <2> QED
    BY <2>1
<1>10. D[1] = (IF sys = Int0 THEN 0 ELSE 1)
  BY <1>7 DEF Parts
<1>11. ASSUME NEW k \in 2 .. n, k < n
       PROVE  /\ Q[k] = P[k] /\ D[k] = E[k] /\ D[k - 1] = E[k - 1]
              /\ E[k] = E[k - 1] + Len(P[k].stack)
  <2>1. k \in 1 .. n /\ k - 1 \in 1 .. n /\ k - 1 < n
    OBVIOUS
  <2> QED
    BY <1>11, <2>1 DEF LocalPlans, Parts
<1>12. \A k \in 2 .. n : D[k] = D[k - 1] + Len(Q[k].stack)
  <2>1. ASSUME NEW k \in 2 .. n
        PROVE  D[k] = D[k - 1] + Len(Q[k].stack)
    <3>1. CASE k < n
      BY <1>11, <3>1
    <3>2. CASE k = n
      <4>1. D[n] = d /\ D[n - 1] = b /\ Len(Q[n].stack) = l + 1 /\ d = b + (l + 1)
        BY <1>4, <1>6, <1>7
      <4> QED
        BY ONLY <3>2, <4>1
    <3> QED
      BY <3>1, <3>2
  <2> QED
    BY <2>1
<1>13. sys # Int0 => pm[1] = SysArgs
  <2>1. ASSUME sys # Int0
        PROVE  pm[1] = SysArgs
    <3>1. E[1] = 1 /\ pl[1] = SysArgs
      BY <2>1 DEF Parts
    <3>2. 1 \in 1 .. e
      BY <1>1, <1>2, <3>1
    <3> QED
      BY <3>1, <3>2
  <2> QED
    BY <2>1
<1>14. \A k \in 2 .. n : \A j \in 1 .. Len(Q[k].stack) : pm[D[k - 1] + j] = <<k, Q[k].stack[j]>>
  <2>1. ASSUME NEW k \in 2 .. n, NEW j \in 1 .. Len(Q[k].stack)
        PROVE  pm[D[k - 1] + j] = <<k, Q[k].stack[j]>>
    <3>1. CASE k < n
      <4>1. PICK i : i = E[k - 1] + j
        OBVIOUS
      <4>2. j \in 1 .. Len(P[k].stack) /\ D[k - 1] = E[k - 1] /\ Q[k] = P[k]
        BY <1>11, <2>1, <3>1
      <4>3. pl[i] = <<k, P[k].stack[j]>>
        BY <4>1, <4>2 DEF Parts
      <4>4. i \in 1 .. e
        <5>1. E[k] <= e /\ E[k - 1] \in Nat /\ E[k] = E[k - 1] + Len(P[k].stack) /\ E[k] \in Nat
          <6>1. k \in 1 .. n /\ k - 1 \in 1 .. n
            OBVIOUS
          <6> QED
            BY <1>2, <1>11, <3>1, <6>1
        <5>2. PICK a \in Nat, c \in Nat : a = E[k - 1] /\ c = Len(P[k].stack)
          BY <5>1
        <5>3. j \in 1 .. c /\ a + c <= e /\ i = a + j
          BY <4>1, <4>2, <5>1, <5>2
        <5>4. e \in Nat /\ a \in Nat /\ c \in Nat
          BY <1>2
        <5>5. a + j \in 1 .. e
          BY ONLY <5>3, <5>4
        <5> QED
          BY <5>3, <5>5
      <4> QED
        BY <4>1, <4>2, <4>3, <4>4
    <3>2. CASE k = n /\ j <= l
      <4>1. PICK i : i = b + j
        OBVIOUS
      <4>2. j \in 1 .. l
        BY <1>4, <2>1, <3>2
      <4>3. pl[i] = <<n, P[n].stack[j]>> /\ i \in 1 .. e
        <5>1. \A h \in 1 .. Len(P[n].stack) : pl[E[n - 1] + h] = <<n, P[n].stack[h]>>
          BY <1>1 DEF Parts
        <5>2. pl[i] = <<n, P[n].stack[j]>>
          BY ONLY <1>3, <1>5, <4>1, <4>2, <5>1
        <5> QED
          BY <1>6, <4>1, <4>2, <5>2
      <4> QED
        BY <1>4, <1>7, <3>2, <4>1, <4>2, <4>3
    <3>3. CASE k = n /\ ~(j <= l)
      <4>1. j = l + 1
        BY <1>4, <2>1, <3>3
      <4>2. D[n - 1] + (l + 1) = d
        BY <1>6, <1>7
      <4> QED
        BY ONLY <1>4, <3>3, <4>1, <4>2, pm[d] = <<n, v>>
    <3> QED
      BY <3>1, <3>2, <3>3
  <2> QED
    BY <2>1
<1>15. \A i \in 1 .. D[n] : (i = 1 /\ sys # Int0) \/ \E k \in 2 .. n : InPart(k, Q, D, pm, i)
  <2>1. ASSUME NEW i \in 1 .. e
        PROVE  (i = 1 /\ sys # Int0) \/ \E k \in 2 .. n : InPart(k, Q, D, pm, i)
    <3>1. CASE i = 1 /\ sys # Int0
      BY <3>1
    <3>2. CASE ~(i = 1 /\ sys # Int0)
      <4>1. PICK k \in 2 .. n : InPart(k, P, E, pl, i)
        BY <3>2 DEF Parts
      <4>2. PICK j \in 1 .. Len(P[k].stack) :
              E[k - 1] < i /\ i <= E[k] /\ i = E[k - 1] + j /\ pl[i] = <<k, P[k].stack[j]>>
        BY <4>1 DEF InPart
      <4>3. InPart(k, Q, D, pm, i)
        <5>1. CASE k < n
          BY <1>11, <4>2, <5>1 DEF InPart
        <5>2. CASE k = n
          <6>1. j \in 1 .. Len(Q[n].stack) /\ Q[n].stack[j] = P[n].stack[j]
            <7>1. j \in 1 .. l
              BY ONLY <1>3, <4>2, <5>2
            <7>2. j \in 1 .. l + 1
              BY <7>1
            <7> QED
              BY ONLY <1>4, <7>1, <7>2
          <6>2. D[n - 1] < i /\ i <= D[n] /\ i = D[n - 1] + j
            BY <1>2, <1>5, <1>7, <4>2, <5>2
          <6> QED
            BY <4>2, <5>2, <6>1, <6>2 DEF InPart
        <5> QED
          BY <5>1, <5>2
      <4> QED
        BY <4>3
    <3> QED
      BY <3>1, <3>2
  <2>2. InPart(n, Q, D, pm, d)
    <3>1. l + 1 \in 1 .. Len(Q[n].stack) /\ d = b + (l + 1) /\ b < d
      BY <1>4, <1>6
    <3> QED
      <4>1. D[n - 1] = b /\ D[n] = d /\ d <= d /\ Q[n].stack[l + 1] = v
        BY <1>2, <1>4, <1>7
      <4> QED
        BY ONLY <3>1, <4>1, pm[d] = <<n, v>> DEF InPart
  <2>3. \A i \in 1 .. D[n] : i \in 1 .. e \/ i = d
    BY <1>2
  <2> QED
    BY <1>1, <2>1, <2>2, <2>3
<1>16. Indexed(pm, D[n])
  OBVIOUS
<1> QED
  BY <1>8, <1>9, <1>10, <1>12, <1>13, <1>14, <1>15, <1>16 DEF Parts

(* The last root of the innermost function goes, and its part is one       *)
(* shorter.                                                                *)
LEMMA PopParts ==
  ASSUME NEW n, NEW P, NEW E, NEW pl, NEW sys, NEW Q, NEW D, NEW pm, NEW v, NEW e, NEW d,
         n \in Nat, n >= 2, Parts(n, P, E, pl, sys), LocalPlans(P, Q, n),
         Longer(Q[n].stack, P[n].stack, v), Len(Q[n].stack) \in Nat,
         \A k \in 2 .. n : Len(P[k].stack) \in Nat,
         Lower(E, D, n, e, d),
         Indexed(pm, d), \A i \in 1 .. d : pm[i] = pl[i]
  PROVE  Parts(n, Q, D, pm, sys)
<1>0. e = E[n] /\ d = e - 1 /\ D[n] = d /\ \A k \in 1 .. n : k < n => D[k] = E[k]
  BY DEF Lower
<1> USE <1>0
<1>1. n \in 1 .. n /\ n \in 2 .. n /\ n - 1 \in 1 .. n /\ n - 1 < n /\ 1 \in 1 .. n /\ 1 < n
  OBVIOUS
<1>2. PICK l \in Nat : l = Len(Q[n].stack)
  OBVIOUS
<1>3. /\ Len(P[n].stack) = l + 1 /\ P[n].stack[l + 1] = v
      /\ \A k \in 1 .. l : P[n].stack[k] = Q[n].stack[k]
  BY <1>2 DEF Longer
<1>4. PICK b \in Nat : b = E[n - 1]
  BY <1>1 DEF Parts
<1>5. e \in Nat /\ e = b + (l + 1)
  BY <1>1, <1>3, <1>4 DEF Parts
<1>6. d \in Nat /\ d = b + l
  BY <1>5
<1>7. D[n - 1] = b /\ D[1] = E[1]
  BY <1>1, <1>4
<1>8. \A k \in 1 .. n : E[k] \in Nat
  BY DEF Parts
<1>9. \A k \in 1 .. n : D[k] \in Nat
  BY <1>6, <1>8
<1>10. \A k \in 1 .. n : k < n => D[k] <= b
  <2>1. ASSUME NEW k \in 1 .. n, k < n
        PROVE  D[k] <= b
    <3>1. k <= n - 1 /\ D[k] = E[k]
      BY <2>1
    <3> QED
      BY <1>1, <1>4, <3>1 DEF Parts
  <2> QED
    BY <2>1
<1>11. \A k, i \in 1 .. n : k <= i => D[k] <= D[i]
  <2>1. ASSUME NEW k \in 1 .. n, NEW i \in 1 .. n, k <= i
        PROVE  D[k] <= D[i]
    <3>1. CASE i = n /\ k < n
      <4>1. D[k] <= b /\ D[k] \in Nat /\ D[i] = d
        BY <1>9, <1>10, <3>1
      <4> QED
        BY <1>6, <4>1
    <3>2. CASE i = n /\ k = n
      BY <1>6, <3>2
    <3>3. CASE i < n
      <4>1. D[k] = E[k] /\ D[i] = E[i]
        BY <2>1, <3>3
      <4> QED
        BY <2>1, <4>1 DEF Parts
    <3> QED
      BY <2>1, <3>1, <3>2, <3>3
  <2> QED
    BY <2>1
<1>12. D[1] = (IF sys = Int0 THEN 0 ELSE 1)
  BY <1>7 DEF Parts
<1>13. ASSUME NEW k \in 2 .. n, k < n
       PROVE  /\ Q[k] = P[k] /\ D[k] = E[k] /\ D[k - 1] = E[k - 1]
              /\ E[k] = E[k - 1] + Len(P[k].stack)
  <2>1. k \in 1 .. n /\ k - 1 \in 1 .. n /\ k - 1 < n
    OBVIOUS
  <2> QED
    BY <1>13, <2>1 DEF LocalPlans, Parts
<1>14. \A k \in 2 .. n : D[k] = D[k - 1] + Len(Q[k].stack)
  <2>1. ASSUME NEW k \in 2 .. n
        PROVE  D[k] = D[k - 1] + Len(Q[k].stack)
    <3>1. CASE k < n
      BY <1>13, <3>1
    <3>2. CASE k = n
      <4>1. D[n] = d /\ D[n - 1] = b /\ Len(Q[n].stack) = l /\ d = b + l
        BY <1>2, <1>6, <1>7
      <4> QED
        BY ONLY <3>2, <4>1
    <3> QED
      BY <3>1, <3>2
  <2> QED
    BY <2>1
<1>15. sys # Int0 => pm[1] = SysArgs
  <2>1. ASSUME sys # Int0
        PROVE  pm[1] = SysArgs
    <3>1. E[1] = 1 /\ pl[1] = SysArgs
      BY <2>1 DEF Parts
    <3>2. 1 \in 1 .. d
      BY <1>1, <1>6, <1>7, <1>10, <3>1
    <3> QED
      BY <3>1, <3>2
  <2> QED
    BY <2>1
<1>16. \A k \in 2 .. n : \A j \in 1 .. Len(Q[k].stack) : pm[D[k - 1] + j] = <<k, Q[k].stack[j]>>
  <2>1. ASSUME NEW k \in 2 .. n, NEW j \in 1 .. Len(Q[k].stack)
        PROVE  pm[D[k - 1] + j] = <<k, Q[k].stack[j]>>
    <3>1. CASE k < n
      <4>1. PICK i : i = E[k - 1] + j
        OBVIOUS
      <4>2. j \in 1 .. Len(P[k].stack) /\ D[k - 1] = E[k - 1] /\ Q[k] = P[k]
        BY <1>13, <2>1, <3>1
      <4>3. pl[i] = <<k, P[k].stack[j]>>
        BY <4>1, <4>2 DEF Parts
      <4>4. i \in 1 .. d
        <5>1. D[k] <= b /\ E[k - 1] \in Nat /\ D[k] = E[k - 1] + Len(P[k].stack)
          <6>1. k \in 1 .. n /\ k - 1 \in 1 .. n
            OBVIOUS
          <6> QED
            BY <1>8, <1>10, <1>13, <3>1, <6>1
        <5>2. PICK a \in Nat, c \in Nat : a = E[k - 1] /\ c = Len(P[k].stack)
          BY <5>1
        <5>3. j \in 1 .. c /\ a + c <= b /\ i = a + j
          BY <4>1, <4>2, <5>1, <5>2
        <5>4. d \in Nat /\ b \in Nat /\ b <= d /\ a \in Nat /\ c \in Nat
          BY <1>6
        <5>5. a + j \in 1 .. d
          BY ONLY <5>3, <5>4
        <5> QED
          BY <5>3, <5>5
      <4> QED
        BY <4>1, <4>2, <4>3, <4>4
    <3>2. CASE k = n
      <4>1. PICK i : i = b + j
        OBVIOUS
      <4>2. j \in 1 .. l /\ j \in 1 .. Len(P[n].stack)
        BY <1>2, <1>3, <2>1, <3>2
      <4>3. pl[i] = <<n, P[n].stack[j]>> /\ i \in 1 .. d
        <5>1. \A h \in 1 .. Len(P[n].stack) : pl[E[n - 1] + h] = <<n, P[n].stack[h]>>
          BY <1>1 DEF Parts
        <5>2. pl[i] = <<n, P[n].stack[j]>>
          BY ONLY <1>4, <4>1, <4>2, <5>1
        <5> QED
          BY <1>6, <4>1, <4>2, <5>2
      <4> QED
        BY <1>3, <1>7, <3>2, <4>1, <4>2, <4>3
    <3> QED
      BY <3>1, <3>2
  <2> QED
    BY <2>1
<1>17. \A i \in 1 .. D[n] : (i = 1 /\ sys # Int0) \/ \E k \in 2 .. n : InPart(k, Q, D, pm, i)
  <2>1. ASSUME NEW i \in 1 .. d
        PROVE  (i = 1 /\ sys # Int0) \/ \E k \in 2 .. n : InPart(k, Q, D, pm, i)
    <3>1. CASE i = 1 /\ sys # Int0
      BY <3>1
    <3>2. CASE ~(i = 1 /\ sys # Int0)
      <4>0. i \in 1 .. E[n]
        BY <1>5, <1>6
      <4>1. PICK k \in 2 .. n : InPart(k, P, E, pl, i)
        BY <3>2, <4>0 DEF Parts
      <4>2. PICK j \in 1 .. Len(P[k].stack) :
              E[k - 1] < i /\ i <= E[k] /\ i = E[k - 1] + j /\ pl[i] = <<k, P[k].stack[j]>>
        BY <4>1 DEF InPart
      <4>3. InPart(k, Q, D, pm, i)
        <5>1. CASE k < n
          BY <1>13, <4>2, <5>1 DEF InPart
        <5>2. CASE k = n
          <6>1. b < i /\ i <= d /\ i = b + j
            BY <1>4, <4>2, <5>2
          <6>2. j \in 1 .. l
            BY <1>3, <1>6, <4>2, <5>2, <6>1
          <6>3. j \in 1 .. Len(Q[n].stack) /\ Q[n].stack[j] = P[n].stack[j]
            BY ONLY <1>2, <1>3, <6>2
          <6>4. pm[i] = <<n, Q[n].stack[j]>>
            BY <4>2, <5>2, <6>3
          <6> QED
            BY <1>7, <5>2, <6>1, <6>3, <6>4 DEF InPart
        <5> QED
          BY <5>1, <5>2
      <4> QED
        BY <4>3
    <3> QED
      BY <3>1, <3>2
  <2> QED
    BY <2>1
<1>18. Indexed(pm, D[n])
  OBVIOUS
<1> QED
  BY <1>5, <1>9, <1>11, <1>12, <1>14, <1>15, <1>16, <1>17, <1>18 DEF Parts

Holds(pl, i, k, v) == pl[i] = <<k, v>>

(* The last root in the pool is the one the innermost function             *)
(* unregisters.                                                            *)
LEMMA LastRoot ==
  ASSUME NEW n, NEW P, NEW E, NEW pl, NEW sys, NEW S, NEW v, n \in Nat, n >= 2,
         Parts(n, P, E, pl, sys), Longer(S, P[n].stack, v), Len(S) \in Nat
  PROVE  Holds(pl, E[n], n, v)
<1>1. n \in 2 .. n /\ n - 1 \in 1 .. n
  OBVIOUS
<1>2. PICK l \in Nat : l = Len(S)
  OBVIOUS
<1>3. Len(P[n].stack) = l + 1 /\ P[n].stack[l + 1] = v
  BY <1>2 DEF Longer
<1>4. PICK b \in Nat : b = E[n - 1]
  BY <1>1 DEF Parts
<1>5. E[n] = b + (l + 1)
  BY <1>1, <1>3, <1>4 DEF Parts
<1>6. \A h \in 1 .. Len(P[n].stack) : pl[E[n - 1] + h] = <<n, P[n].stack[h]>>
  BY <1>1 DEF Parts
<1>7. l + 1 \in 1 .. l + 1
  OBVIOUS
<1>8. pl[b + (l + 1)] = <<n, v>>
  BY ONLY <1>3, <1>4, <1>6, <1>7
<1> QED
  BY <1>5, <1>8 DEF Holds

-----------------------------------------------------------------------------
(***************************************************************************)
(* The properties                                                          *)
(***************************************************************************)
LEMMA BaseOfGood ==
  ASSUME NEW F, NEW n, NEW top, NEW who, NEW pl, NEW sys, NEW hp, NEW P, NEW E, NEW good,
         Good(F, n, top, who, pl, sys, hp, P, E, good)
  PROVE  Base(F, n, top, pl, sys, hp, P, E)
<1>1. n \in Nat /\ n >= 1 /\ Indexed(F, n) /\ top \in 0 .. n
  BY DEF Good, Shapes, TopSet
<1>2. ASSUME top > 1
      PROVE  F[top].setTop
  <2>1. top \in 2 .. n
    BY <1>1, <1>2
  <2> QED
    BY <2>1 DEF Good, TopSet
<1> QED
  BY <1>1, <1>2 DEF Good, Base

(* Where a root lies tells whose variable it is.                           *)
LEMMA PoolOrder ==
  ASSUME NEW n, NEW P, NEW E, NEW pl, NEW sys, n \in Nat, n >= 1, Parts(n, P, E, pl, sys)
  PROVE  /\ DOMAIN pl = 1 .. E[n]
         /\ \A i \in 1 .. E[n] : \/ i = 1 /\ sys # Int0 /\ pl[i] = SysArgs
                                 \/ pl[i][1] \in 2 .. n /\ pl[i] # SysArgs
         /\ \A i, j \in 1 .. E[n] : i < j => pl[i][1] <= pl[j][1]
         /\ sys = Int0 <=> ~(\E i \in 1 .. E[n] : pl[i] = SysArgs)
<1>1. DOMAIN pl = 1 .. E[n] /\ E[n] \in Nat
  <2>1. Indexed(pl, E[n]) /\ n \in 1 .. n
    BY DEF Parts
  <2> QED
    BY <2>1 DEF Indexed, Parts
<1>2. SysArgs[1] = 0
  BY DEF SysArgs
<1>3. ASSUME NEW i \in 1 .. E[n]
      PROVE  \/ i = 1 /\ sys # Int0 /\ pl[i] = SysArgs
             \/ \E k \in 2 .. n : E[k - 1] < i /\ i <= E[k] /\ pl[i][1] = k /\ pl[i] # SysArgs
  <2>1. CASE i = 1 /\ sys # Int0
    BY <2>1 DEF Parts
  <2>2. CASE ~(i = 1 /\ sys # Int0)
    <3>1. PICK k \in 2 .. n : InPart(k, P, E, pl, i)
      BY <2>2 DEF Parts
    <3>2. PICK j : E[k - 1] < i /\ i <= E[k] /\ pl[i] = <<k, P[k].stack[j]>>
      BY <3>1 DEF InPart
    <3>3. pl[i][1] = k
      BY <3>2
    <3>4. k # 0
      OBVIOUS
    <3> QED
      BY <1>2, <3>2, <3>3, <3>4
  <2> QED
    BY <2>1, <2>2
<1>4. ASSUME NEW i \in 1 .. E[n], NEW j \in 1 .. E[n], i < j
      PROVE  pl[i][1] <= pl[j][1]
  <2>1. PICK k \in 2 .. n : E[k - 1] < j /\ j <= E[k] /\ pl[j][1] = k
    <3>1. j # 1
      BY <1>1, <1>4
    <3> QED
      BY <1>3, <3>1
  <2>2. CASE pl[i] = SysArgs
    BY <1>2, <2>1, <2>2
  <2>3. CASE pl[i] # SysArgs
    <3>1. PICK l \in 2 .. n : E[l - 1] < i /\ i <= E[l] /\ pl[i][1] = l
      BY <1>3, <2>3
    <3>2. l <= k
      <4>1. SUFFICES ASSUME k <= l - 1
                     PROVE  FALSE
        OBVIOUS
      <4>2. k \in 1 .. n /\ l - 1 \in 1 .. n
        OBVIOUS
      <4>3. E[k] <= E[l - 1] /\ E[k] \in Nat /\ E[l - 1] \in Nat
        BY <4>1, <4>2 DEF Parts
      <4> QED
        BY <1>1, <1>4, <2>1, <3>1, <4>3
    <3> QED
      BY <2>1, <3>1, <3>2
  <2> QED
    BY <2>2, <2>3
<1>5. ASSUME sys # Int0
      PROVE  \E i \in 1 .. E[n] : pl[i] = SysArgs
  <2>1. 1 \in 1 .. n /\ n \in 1 .. n /\ 1 <= n
    OBVIOUS
  <2>2. E[1] = 1 /\ E[1] <= E[n] /\ pl[1] = SysArgs
    BY <1>5, <2>1 DEF Parts
  <2>3. 1 \in 1 .. E[n]
    BY <1>1, <2>2
  <2> QED
    BY <2>2, <2>3
<1>6. ASSUME NEW i \in 1 .. E[n], pl[i] = SysArgs
      PROVE  sys # Int0
  BY <1>3, <1>6
<1>7. \A i \in 1 .. E[n] : \/ i = 1 /\ sys # Int0 /\ pl[i] = SysArgs
                           \/ pl[i][1] \in 2 .. n /\ pl[i] # SysArgs
  BY <1>3
<1> QED
  BY <1>1, <1>4, <1>5, <1>6, <1>7

(* The invariant implies each of the properties that the runs check.       *)
LEMMA PropertiesHold ==
  ASSUME RRInv
  PROVE  RootsTypeOK /\ PoolFollowsCalls /\ PoolErrors /\ StaleOnlyKnown
<1>1. PICK n : n = Len(frames)
  OBVIOUS
<1>2. PICK P, E : /\ Base(frames, n, gcTop, pool, sysargs, heap, P, E)
                  /\ exit = "none" \/ Ended(frames, n, sysargs, exit)
  BY <1>1 DEF RRInv, Inv
<1>3. n \in Nat /\ n >= 1 /\ Indexed(frames, n) /\ DOMAIN frames = 1 .. n
  BY <1>2 DEF Base, Indexed
<1>4. RootsTypeOK
  <2>1. exit \in {"none", "overflow", "empty", "mismatch", "stale"}
    BY <1>2 DEF Ended
  <2>2. gcTop \in 0 .. n
    BY <1>2 DEF Base
  <2>3. ASSUME NEW c \in Cells
        PROVE  Word(WordIn(c)) /\ Leads(WordIn(c), heap)
    <3>1. CASE c = SysArgs
      BY <1>2, <3>1 DEF WordIn, Base, Words
    <3>2. CASE c # SysArgs
      <4>1. PICK k \in DOMAIN frames : \E v \in DOMAIN frames[k].vars : c = <<k, v>>
        BY <3>2 DEF Cells
      <4>2. PICK v \in DOMAIN frames[k].vars : c = <<k, v>>
        BY <4>1
      <4>3. WordIn(c) = frames[k].vars[v]
        BY <3>2, <4>2 DEF WordIn
      <4> QED
        BY <1>2, <1>3, <4>3 DEF Base, Words
    <3> QED
      BY <3>1, <3>2
  <2>4. \A o \in DOMAIN heap : \A i \in DOMAIN heap[o].fields : heap[o].fields[i].fresh
    BY <1>2 DEF Base, Heap
  <2> QED
    BY <1>1, <2>1, <2>2, <2>3, <2>4 DEF RootsTypeOK, Word, Leads
<1>5. PoolFollowsCalls
  <2>1. Parts(n, P, E, pool, sysargs)
    BY <1>2 DEF Base
  <2>2. PICK d : d = E[n]
    OBVIOUS
  <2>3. /\ DOMAIN pool = 1 .. d
        /\ \A i \in 1 .. d : \/ i = 1 /\ sysargs # Int0 /\ pool[i] = SysArgs
                             \/ pool[i][1] \in 2 .. n /\ pool[i] # SysArgs
        /\ \A i, j \in 1 .. d : i < j => pool[i][1] <= pool[j][1]
        /\ sysargs = Int0 <=> ~(\E i \in 1 .. d : pool[i] = SysArgs)
    BY <1>3, <2>1, <2>2, PoolOrder
  <2>4. gcTop > 1 => frames[gcTop].setTop
    BY <1>2 DEF Base
  <2> QED
    BY <1>1, <2>3, <2>4 DEF PoolFollowsCalls
<1>6. This = frames[n]
  <2>1. PICK m \in Nat : n = m + 1
    BY <1>3
  <2> QED
    BY <1>3, <2>1, Popped DEF This
<1>7. n = 2 => Chain = <<frames[2].fn>>
  <2>1. ASSUME n = 2
        PROVE  Chain = <<frames[2].fn>>
    <3>1. 1 .. Len(frames) - 1 = 1 .. 1
      BY <1>1, <2>1
    <3> QED
      BY <3>1 DEF Chain
  <2> QED
    BY <2>1
<1>8. n = 3 => Chain = <<frames[2].fn, frames[3].fn>>
  <2>1. ASSUME n = 3
        PROVE  Chain = <<frames[2].fn, frames[3].fn>>
    <3>1. 1 .. Len(frames) - 1 = 1 .. 2
      BY <1>1, <2>1
    <3>2. PICK C : C = Chain
      OBVIOUS
    <3>3. C = [k \in 1 .. 2 |-> frames[k + 1].fn]
      BY <3>1, <3>2 DEF Chain
    <3>4. PICK a, b : a = frames[2].fn /\ b = frames[3].fn
      OBVIOUS
    <3>5. \A k \in 1 .. 2 : (k = 1 /\ k + 1 = 2) \/ (k = 2 /\ k + 1 = 3)
      OBVIOUS
    <3>6. \A k \in 1 .. 2 : C[k] = <<a, b>>[k]
      BY <3>3, <3>4, <3>5
    <3>7. Indexed(C, 2)
      BY ONLY <3>3 DEF Indexed
    <3>8. Indexed(<<a, b>>, 2)
      BY DEF Indexed
    <3>9. C = <<a, b>>
      BY ONLY <3>6, <3>7, <3>8 DEF Indexed
    <3> QED
      BY <3>2, <3>4, <3>9
  <2> QED
    BY <2>1
<1>9. PoolErrors
  <2>1. exit \notin {"empty", "mismatch"}
    BY <1>2 DEF Ended
  <2>2. ASSUME exit = "overflow"
        PROVE  /\ Chain = <<"Bclosure">>
               /\ Cardinality(This.params) + 1 + (IF sysargs = Int0 THEN 0 ELSE 1) > MaxRoots
    <3>1. /\ n = 2 /\ frames[2].fn = "Bclosure"
          /\ Cardinality(frames[2].params) + 1 + (IF sysargs = Int0 THEN 0 ELSE 1) > MaxRoots
      BY <1>2, <2>2 DEF Ended
    <3> QED
      BY <1>6, <1>7, <3>1
  <2> QED
    BY <2>1, <2>2 DEF PoolErrors
<1>10. StaleOnlyKnown
  <2>1. ASSUME exit = "stale"
        PROVE  \/ Chain = <<"ListCons", "Bsexp">>
               \/ Chain = <<"SetArgs">> /\ Instr.do = "store"
    <3>1. \/ n = 3 /\ frames[2].fn = "ListCons" /\ frames[3].fn = "Bsexp"
          \/ n = 2 /\ frames[2].fn = "SetArgs" /\ Head(frames[2].code).do = "store"
      BY <1>2, <2>1 DEF Ended
    <3> QED
      BY <1>6, <1>7, <1>8, <3>1 DEF Instr
  <2> QED
    BY <2>1 DEF StaleOnlyKnown
<1> QED
  BY <1>4, <1>5, <1>9, <1>10

-----------------------------------------------------------------------------
(***************************************************************************)
(* The innermost function and its instruction                              *)
(***************************************************************************)

(* What the instruction says of the plan.                                  *)
LEMMA RuleFor ==
  ASSUME NEW r, NEW i, NEW A, NEW B, MayStep(r, i, A, B), Valid(r, A)
  PROVE  /\ i.do \in {"pre", "post"} => GCRule(i, A, B) /\ Valid(r, B)
         /\ i.do = "push" => PushRule(i, A, B) /\ Valid(r, B)
         /\ i.do = "pop" => PopRule(i, A, B) /\ Valid(r, B)
         /\ i.do \in {"use", "fill", "copy", "store"} => AccessRule(r, i, A, B) /\ Valid(r, B)
         /\ i.do = "take" => TakeRule(r, i, A, B) /\ Valid(r, B)
         /\ i.do = "new" => NewRule(r, i, A, B) /\ Valid(r, B)
         /\ i.do = "call" => CallRule(r, i, A, B) /\ Valid(r, B)
         /\ i.do \in {"return", "global"} => EndRule(r, i, A, B)
<1>1. A.gc # "done"
  BY DEF Valid
<1>2. B.gc # "done" => Valid(r, B)
  BY DEF MayStep
<1>3. CASE GCRule(i, A, B)
  BY <1>1, <1>2, <1>3 DEF GCRule
<1>4. CASE PushRule(i, A, B)
  BY <1>1, <1>2, <1>4 DEF PushRule
<1>5. CASE PopRule(i, A, B)
  BY <1>1, <1>2, <1>5 DEF PopRule
<1>6. CASE AccessRule(r, i, A, B)
  BY <1>1, <1>2, <1>6 DEF AccessRule, Stays
<1>7. CASE TakeRule(r, i, A, B)
  BY <1>1, <1>2, <1>7 DEF TakeRule, Stays
<1>8. CASE NewRule(r, i, A, B)
  BY <1>1, <1>2, <1>8 DEF NewRule, Learns, Stays
<1>9. CASE CallRule(r, i, A, B)
  BY <1>1, <1>2, <1>9 DEF CallRule, Learns, Stays
<1>10. CASE EndRule(r, i, A, B)
  BY <1>1, <1>2, <1>10 DEF EndRule
<1> QED
  BY <1>3, <1>4, <1>5, <1>6, <1>7, <1>8, <1>9, <1>10, Zenon DEF MayStep

(* A frame whose function has made a step, and what else may change in it. *)
Advanced(f) == [f EXCEPT !.code = Tail(@)]

Marked(f, b) == [f EXCEPT !.setTop = b]

Given(f, v, w) == [f EXCEPT !.vars[v] = w]

SameFrame(f, g) == g.fn = f.fn /\ g.params = f.params /\ g.result = f.result

(* A frame whose script advances,                                          *)
LEMMA AdvancedFrame ==
  ASSUME NEW names, NEW f, NEW g, FrameShape(f, names), g = Advanced(f)
  PROVE  /\ FrameShape(g, names) /\ SameFrame(f, g)
         /\ g.code = Tail(f.code) /\ g.setTop = f.setTop /\ g.vars = f.vars
<1>0. PICK c : c = Tail(f.code)
  OBVIOUS
<1>1. PICK h : h = [fn |-> f.fn, code |-> c, params |-> f.params,
                    vars |-> f.vars, setTop |-> f.setTop, result |-> f.result]
  OBVIOUS
<1>2. g = [f EXCEPT !.code = c]
  BY <1>0, Zenon DEF Advanced
<1>3. g = h
  BY ONLY <1>1, <1>2, FrameShape(f, names) DEF FrameShape
<1> QED
  BY <1>0, <1>1, <1>3 DEF FrameShape, SameFrame

(* one that has set the stack top or has not,                              *)
LEMMA MarkedFrame ==
  ASSUME NEW names, NEW f, NEW g, NEW b, FrameShape(f, names), g = Marked(f, b)
  PROVE  /\ FrameShape(g, names) /\ SameFrame(f, g)
         /\ g.code = f.code /\ g.setTop = b /\ g.vars = f.vars
<1>1. PICK h : h = [fn |-> f.fn, code |-> f.code, params |-> f.params,
                    vars |-> f.vars, setTop |-> b, result |-> f.result]
  OBVIOUS
<1>2. g = h
  BY <1>1 DEF Marked, FrameShape
<1> QED
  BY <1>1, <1>2 DEF FrameShape, SameFrame

(* and one that gets a new word in a variable.                             *)
LEMMA GivenFrame ==
  ASSUME NEW names, NEW f, NEW g, NEW v \in names, NEW w, FrameShape(f, names), g = Given(f, v, w)
  PROVE  /\ FrameShape(g, names) /\ SameFrame(f, g)
         /\ g.code = f.code /\ g.setTop = f.setTop
         /\ g.vars[v] = w /\ \A u \in names : u # v => g.vars[u] = f.vars[u]
<1>1. PICK x : x = [f.vars EXCEPT ![v] = w]
  OBVIOUS
<1>2. PICK h : h = [fn |-> f.fn, code |-> f.code, params |-> f.params,
                    vars |-> x, setTop |-> f.setTop, result |-> f.result]
  OBVIOUS
<1>3. g = h
  BY <1>1, <1>2 DEF Given, FrameShape
<1>4. DOMAIN f.vars = names
  BY DEF FrameShape
<1>5. x = [u \in names |-> x[u]] /\ x[v] = w /\ \A u \in names : u # v => x[u] = f.vars[u]
  BY <1>1, <1>4
<1> QED
  BY <1>2, <1>3, <1>5 DEF FrameShape, SameFrame

(* Only the innermost frame changes.                                       *)
LEMMA InnerReplaced ==
  ASSUME NEW n, NEW F, NEW f, NEW G, n \in Nat, n >= 2, Indexed(F, n),
         FrameShape(f, Names), SameFrame(F[n], f), G = Atop(Front(F), f)
  PROVE  Local(F, G, n) /\ G[n] = f /\ Len(G) = n
<1>1. PICK m \in Nat : n = m + 1
  BY n - 1 \in Nat /\ n = n - 1 + 1
<1>2. Indexed(G, n) /\ G[n] = f /\ \A k \in 1 .. m : G[k] = F[k]
  BY <1>1, Replaced
<1>3. \A k \in 1 .. n : k < n => k \in 1 .. m
  BY <1>1
<1>4. Len(G) = n
  BY <1>2, IndexedLen
<1> QED
  BY <1>2, <1>3, <1>4 DEF Local, SameFrame

(* The plan of the innermost function, and that of its next step.          *)
Ready(F, n, top, who, pl, sys, hp, P, E, B) ==
  /\ n = Len(F) /\ n >= 2
  /\ Good(F, n, top, who, pl, sys, hp, P, E, P[n].good)
  /\ MayStep(RoleOf(F, n, top), Head(F[n].code), P[n], B)
  /\ Planned(RoleOf(F, n, top), Tail(F[n].code), B)

(* Inside a call the next step of the script is one its plan allows.       *)
LEMMA InnerReady ==
  ASSUME RRInv, InCall
  PROVE  /\ \E P, E, B, n : /\ Ready(frames, n, gcTop, caller, pool, sysargs, heap, P, E, B)
                            /\ This = frames[n]
<1>1. PICK n : n = Len(frames)
  OBVIOUS
<1>2. exit = "none" /\ n > 1
  BY <1>1 DEF InCall
<1>3. PICK P, E : Good(frames, n, gcTop, caller, pool, sysargs, heap, P, E, P[n].good)
  BY <1>1, <1>2 DEF RRInv, Inv
<1>4. n \in Nat /\ Indexed(frames, n)
  BY <1>3 DEF Good, Shapes
<1>5. n \in 2 .. n
  BY <1>2, <1>4
<1>6. /\ Planned(RoleOf(frames, n, gcTop), frames[n].code, P[n])
      /\ Valid(RoleOf(frames, n, gcTop), P[n])
  BY <1>3, <1>5 DEF Good, Follows
<1>7. P[n].gc # "done"
  BY <1>6 DEF Valid
<1>8. PICK B : /\ MayStep(RoleOf(frames, n, gcTop), Head(frames[n].code), P[n], B)
               /\ Planned(RoleOf(frames, n, gcTop), Tail(frames[n].code), B)
  BY <1>6, <1>7, PlannedStep
<1>9. This = frames[n]
  <2>1. PICK m \in Nat : n = m + 1
    BY <1>4, <1>5
  <2> QED
    BY <1>4, <2>1, Popped DEF This
<1>10. Ready(frames, n, gcTop, caller, pool, sysargs, heap, P, E, B)
  BY <1>1, <1>3, <1>5, <1>8 DEF Ready
<1> QED
  BY <1>9, <1>10

(* What is known of the innermost function when it is ready.               *)
LEMMA ReadyFacts ==
  ASSUME NEW F, NEW n, NEW top, NEW who, NEW pl, NEW sys, NEW hp, NEW P, NEW E, NEW B,
         Ready(F, n, top, who, pl, sys, hp, P, E, B)
  PROVE  /\ n \in Nat /\ n >= 2 /\ n \in 2 .. n /\ n \in 1 .. n /\ Indexed(F, n) /\ top \in 0 .. n
         /\ FrameShape(F[n], Names)
         /\ Valid(RoleOf(F, n, top), P[n])
         /\ Fresh(F, n, P[n].good) /\ Refs(F, n, P[n].refs)
         /\ Shapes(F, n) /\ Waits(F, n, top, P) /\ TopSet(F, n, top, who, P)
         /\ Parts(n, P, E, pl, sys) /\ Words(F, n, sys, hp) /\ Heap(hp)
<1>1. n \in Nat /\ n >= 2 /\ n \in 2 .. n /\ n \in 1 .. n
  BY DEF Ready, Good
<1>2. Good(F, n, top, who, pl, sys, hp, P, E, P[n].good)
  BY DEF Ready
<1>3. Indexed(F, n) /\ FrameShape(F[n], Names) /\ Shapes(F, n)
  BY <1>1, <1>2 DEF Good, Shapes
<1>4. Valid(RoleOf(F, n, top), P[n])
  BY <1>1, <1>2 DEF Good, Follows
<1>5. Fresh(F, n, P[n].good) /\ Refs(F, n, P[n].refs)
  <2>1. ~(n < n)
    BY <1>1
  <2> QED
    BY <1>1, <1>2, <2>1 DEF Good, Keeps
<1> QED
  BY <1>1, <1>2, <1>3, <1>4, <1>5 DEF Good, TopSet

(* A step of the innermost function that follows its plan keeps the        *)
(* invariant.                                                              *)
LEMMA LocalInv ==
  ASSUME NEW F, NEW n, NEW top, NEW who, NEW pl, NEW sys, NEW hp, NEW P, NEW E, NEW B,
         NEW G, NEW t, NEW pm, NEW hq, NEW Q, NEW D,
         Ready(F, n, top, who, pl, sys, hp, P, E, B),
         Local(F, G, n), Len(G) = n, G[n].code = Tail(F[n].code), LocalTop(top, t, n),
         LocalPlans(P, Q, n), Q[n] = B, Valid(RoleOf(F, n, top), B),
         TopSet(G, n, t, who, Q), Parts(n, Q, D, pm, sys),
         \A k \in 1 .. n : k < n => D[k] = E[k],
         Words(G, n, sys, hq), Heap(hq), Fresh(G, n, B.good), Refs(G, n, B.refs)
  PROVE  Inv(G, t, pm, sys, hq, who, "none")
<1>1. Good(F, n, top, who, pl, sys, hp, P, E, P[n].good) /\ n >= 2
  BY DEF Ready
<1>2. Planned(RoleOf(F, n, top), G[n].code, Q[n]) /\ Valid(RoleOf(F, n, top), Q[n])
  BY DEF Ready
<1>3. Good(G, n, t, who, pm, sys, hq, Q, D, Q[n].good)
  <2>1. Framed(F, n, top, who, sys, P, E)
    BY <1>1, GoodIsFramed
  <2> QED
    BY <1>1, <1>2, <2>1, LocalStep
<1>4. Base(G, n, t, pm, sys, hq, Q, D)
  BY <1>3, BaseOfGood
<1> QED
  BY <1>3, <1>4 DEF Inv

(* The plans, with the innermost one a step further.                       *)
Further(P, n, B) == [k \in 1 .. n |-> IF k = n THEN B ELSE P[k]]

(* Only the plan of the innermost function goes further.                   *)
LEMMA FurtherPlans ==
  ASSUME NEW P, NEW n, NEW B, n \in Nat, n >= 2
  PROVE  LocalPlans(P, Further(P, n, B), n) /\ Further(P, n, B)[n] = B
BY DEF Further, LocalPlans

(* Steps that leave the protocol and the pool alone.                       *)
LEMMA StaysInv ==
  ASSUME NEW F, NEW n, NEW top, NEW who, NEW pl, NEW sys, NEW hp, NEW P, NEW E, NEW B,
         NEW G, NEW hq,
         Ready(F, n, top, who, pl, sys, hp, P, E, B),
         Local(F, G, n), Len(G) = n, G[n].code = Tail(F[n].code), G[n].setTop = F[n].setTop,
         Stays(P[n], B), Valid(RoleOf(F, n, top), B),
         Words(G, n, sys, hq), Heap(hq), Fresh(G, n, B.good), Refs(G, n, B.refs)
  PROVE  Inv(G, top, pl, sys, hq, who, "none")
<1>1. n \in Nat /\ n >= 2 /\ TopSet(F, n, top, who, P) /\ Parts(n, P, E, pl, sys)
  BY ReadyFacts
<1>2. PICK Q : Q = Further(P, n, B)
  OBVIOUS
<1>3. LocalPlans(P, Q, n) /\ Q[n] = B
  BY <1>1, <1>2, FurtherPlans
<1>4. Q[n].gc = P[n].gc /\ Q[n].stack = P[n].stack
  BY <1>3 DEF Stays
<1>5. TopSet(G, n, top, who, Q) /\ LocalTop(top, top, n)
  BY <1>1, <1>3, <1>4, SameTop
<1>6. Parts(n, Q, E, pl, sys)
  BY <1>1, <1>3, <1>4, SameParts
<1> QED
  BY <1>3, <1>5, <1>6, LocalInv

(* Steps that leave the variables alone.                                   *)
LEMMA SameVars ==
  ASSUME NEW F, NEW n, NEW top, NEW who, NEW pl, NEW sys, NEW hp, NEW P, NEW E, NEW B,
         NEW G, NEW hq,
         Ready(F, n, top, who, pl, sys, hp, P, E, B),
         Local(F, G, n), G[n].vars = F[n].vars, Forgets(P[n], B), DOMAIN hp \subseteq DOMAIN hq
  PROVE  Words(G, n, sys, hq) /\ Fresh(G, n, B.good) /\ Refs(G, n, B.refs)
<1>1. /\ n \in Nat /\ n >= 2 /\ Shapes(F, n) /\ Words(F, n, sys, hp)
      /\ Fresh(F, n, P[n].good) /\ Refs(F, n, P[n].refs)
  BY ReadyFacts
<1>2. \A u \in Names : G[n].vars[u] = F[n].vars[u]
  OBVIOUS
<1>3. Words(G, n, sys, hq)
  BY <1>1, <1>2, WordsStep
<1> QED
  BY <1>1, <1>3 DEF Fresh, Refs, Forgets

(* PRE_GC.                                                                 *)
LEMMA EnterGCKeeps ==
  ASSUME RRInv, EnterGC
  PROVE  RRInv'
<1>1. InCall
  BY DEF EnterGC
<1>2. PICK P, E, B, n : /\ Ready(frames, n, gcTop, caller, pool, sysargs, heap, P, E, B)
                        /\ This = frames[n]
  BY <1>1, InnerReady
<1>3. PICK F, f, G : F = frames /\ f = F[n] /\ G = frames'
  OBVIOUS
<1>4. PICK a : a = Advanced(f)
  OBVIOUS
<1>5. PICK g : g = Marked(a, gcTop = 0)
  OBVIOUS
<1>6. G = Atop(Front(F), g)
  BY <1>2, <1>3, <1>4, <1>5 DEF EnterGC, WithThis, Stepped, Advanced, Marked, Atop
<1>7. Ready(F, n, gcTop, caller, pool, sysargs, heap, P, E, B)
  BY <1>2, <1>3
<1>8. /\ n \in Nat /\ n >= 2 /\ Indexed(F, n) /\ FrameShape(f, Names)
      /\ Valid(RoleOf(F, n, gcTop), P[n])
      /\ TopSet(F, n, gcTop, caller, P) /\ Waits(F, n, gcTop, P)
      /\ Parts(n, P, E, pool, sysargs) /\ Heap(heap)
  BY <1>3, <1>7, ReadyFacts
<1>9. /\ FrameShape(g, Names) /\ SameFrame(f, g) /\ g.code = Tail(f.code) /\ g.vars = f.vars
      /\ g.setTop = (gcTop = 0)
  <2>1. FrameShape(a, Names) /\ SameFrame(f, a) /\ a.code = Tail(f.code) /\ a.vars = f.vars
    BY <1>4, <1>8, AdvancedFrame
  <2>2. /\ FrameShape(g, Names) /\ SameFrame(a, g) /\ g.code = a.code /\ g.vars = a.vars
        /\ g.setTop = (gcTop = 0)
    BY <1>5, <2>1, MarkedFrame
  <2> QED
    BY <2>1, <2>2 DEF SameFrame
<1>10. Local(F, G, n) /\ G[n] = g /\ Len(G) = n
  <2>1. SameFrame(F[n], g)
    BY <1>3, <1>9
  <2> QED
    BY ONLY <1>6, <1>8, <1>9, <2>1, InnerReplaced
<1>11. GCRule(Instr, P[n], B) /\ Valid(RoleOf(F, n, gcTop), B) /\ Instr.do = "pre"
  <2>1. Instr = Head(f.code) /\ Instr.do = "pre"
    BY <1>2, <1>3 DEF EnterGC, Instr
  <2>2. MayStep(RoleOf(F, n, gcTop), Instr, P[n], B)
    BY <1>3, <1>7, <2>1 DEF Ready
  <2> QED
    BY <1>8, <2>1, <2>2, RuleFor
<1>12. P[n].gc = "before" /\ B.gc = "in" /\ B.stack = P[n].stack /\ Forgets(P[n], B)
  BY <1>11 DEF GCRule
<1>13. PICK t : t = gcTop'
  OBVIOUS
<1>14. t = IF gcTop = 0 THEN n ELSE gcTop
  BY <1>2, <1>13 DEF EnterGC, Ready
<1>15. PICK Q : Q = Further(P, n, B)
  OBVIOUS
<1>16. LocalPlans(P, Q, n) /\ Q[n] = B
  BY <1>8, <1>15, FurtherPlans
<1>17. G[n].setTop <=> (gcTop = 0)
  BY <1>9, <1>10
<1>18. Q[n].gc = "in" /\ Q[n].stack = P[n].stack
  BY <1>12, <1>16
<1>19. TopSet(G, n, t, caller, Q) /\ LocalTop(gcTop, t, n)
  BY <1>8, <1>10, <1>12, <1>14, <1>16, <1>17, <1>18, EnterTop
<1>20. Parts(n, Q, E, pool, sysargs)
  BY <1>8, <1>16, <1>18, SameParts
<1>21. Words(G, n, sysargs, heap) /\ Fresh(G, n, B.good) /\ Refs(G, n, B.refs)
  BY <1>3, <1>7, <1>9, <1>10, <1>12, SameVars
<1>22. Inv(G, t, pool, sysargs, heap, caller, "none")
  <2>1. G[n].code = Tail(F[n].code)
    BY <1>3, <1>9, <1>10
  <2> QED
    BY <1>7, <1>8, <1>10, <1>11, <1>16, <1>19, <1>20, <1>21, <2>1, LocalInv
<1> QED
  BY <1>3, <1>13, <1>22 DEF EnterGC, RRInv, InCall, poolVars

(* POST_GC.                                                                *)
LEMMA LeaveGCKeeps ==
  ASSUME RRInv, LeaveGC
  PROVE  RRInv'
<1>1. InCall
  BY DEF LeaveGC
<1>2. PICK P, E, B, n : /\ Ready(frames, n, gcTop, caller, pool, sysargs, heap, P, E, B)
                        /\ This = frames[n]
  BY <1>1, InnerReady
<1>3. PICK F, f, G : F = frames /\ f = F[n] /\ G = frames'
  OBVIOUS
<1>4. PICK g : g = Advanced(f)
  OBVIOUS
<1>5. Ready(F, n, gcTop, caller, pool, sysargs, heap, P, E, B)
  BY <1>2, <1>3
<1>6. /\ n \in Nat /\ n >= 2 /\ n \in 2 .. n /\ n \in 1 .. n /\ Indexed(F, n)
      /\ FrameShape(f, Names) /\ Valid(RoleOf(F, n, gcTop), P[n])
      /\ Fresh(F, n, P[n].good) /\ Refs(F, n, P[n].refs)
      /\ TopSet(F, n, gcTop, caller, P) /\ Waits(F, n, gcTop, P) /\ Shapes(F, n)
      /\ Parts(n, P, E, pool, sysargs) /\ Heap(heap) /\ Words(F, n, sysargs, heap)
  BY <1>3, <1>5, ReadyFacts
<1>7. /\ FrameShape(g, Names) /\ SameFrame(F[n], g) /\ g.code = Tail(F[n].code)
      /\ g.vars = F[n].vars /\ g.setTop = F[n].setTop
  BY <1>3, <1>4, <1>6, AdvancedFrame
<1>8. Instr = Head(F[n].code) /\ MayStep(RoleOf(F, n, gcTop), Instr, P[n], B)
  BY <1>2, <1>3, <1>5 DEF Instr, Ready
<1>9. G = Atop(Front(F), g)
  BY <1>2, <1>3, <1>4 DEF LeaveGC, WithThis, Stepped, Advanced, Atop
<1>10. Local(F, G, n) /\ G[n] = g /\ Len(G) = n
  BY ONLY <1>6, <1>7, <1>9, InnerReplaced
<1>11. G[n].code = Tail(F[n].code) /\ G[n].vars = F[n].vars /\ G[n].setTop = F[n].setTop
  BY ONLY <1>7, <1>10
<1>12. GCRule(Instr, P[n], B) /\ Valid(RoleOf(F, n, gcTop), B) /\ Instr.do = "post"
  <2>1. Instr.do = "post"
    BY DEF LeaveGC
  <2> QED
    BY <1>6, <1>8, <2>1, RuleFor
<1>13. P[n].gc = "in" /\ B.gc = "after" /\ B.stack = P[n].stack /\ Forgets(P[n], B)
  BY <1>12 DEF GCRule
<1>14. PICK t : t = gcTop'
  OBVIOUS
<1>15. t = IF F[n].setTop THEN 0 ELSE gcTop
  BY <1>2, <1>3, <1>14 DEF LeaveGC
<1>16. PICK Q : Q = Further(P, n, B)
  OBVIOUS
<1>17. LocalPlans(P, Q, n) /\ Q[n] = B
  BY <1>6, <1>16, FurtherPlans
<1>18. Q[n].gc = "after" /\ Q[n].stack = P[n].stack
  BY <1>13, <1>17
<1>19. TopSet(G, n, t, caller, Q) /\ LocalTop(gcTop, t, n)
  BY <1>6, <1>10, <1>11, <1>13, <1>15, <1>17, <1>18, LeaveTop
<1>20. Parts(n, Q, E, pool, sysargs)
  BY <1>6, <1>17, <1>18, SameParts
<1>21. Words(G, n, sysargs, heap) /\ Fresh(G, n, B.good) /\ Refs(G, n, B.refs)
  BY <1>5, <1>10, <1>11, <1>13, SameVars
<1>22. Inv(G, t, pool, sysargs, heap, caller, "none")
  BY <1>5, <1>6, <1>10, <1>11, <1>12, <1>17, <1>19, <1>20, <1>21, LocalInv
<1> QED
  BY <1>3, <1>14, <1>22 DEF LeaveGC, RRInv, InCall, poolVars

(* pop_extra_root.                                                         *)
LEMMA UnregisterKeeps ==
  ASSUME RRInv, Unregister
  PROVE  RRInv'
<1>1. InCall
  BY DEF Unregister
<1>2. PICK P, E, B, n : /\ Ready(frames, n, gcTop, caller, pool, sysargs, heap, P, E, B)
                        /\ This = frames[n]
  BY <1>1, InnerReady
<1>3. PICK F, f, G : F = frames /\ f = F[n] /\ G = frames'
  OBVIOUS
<1>4. PICK g : g = Advanced(f)
  OBVIOUS
<1>5. Ready(F, n, gcTop, caller, pool, sysargs, heap, P, E, B)
  BY <1>2, <1>3
<1>6. /\ n \in Nat /\ n >= 2 /\ n \in 2 .. n /\ n \in 1 .. n /\ Indexed(F, n)
      /\ FrameShape(f, Names) /\ Valid(RoleOf(F, n, gcTop), P[n])
      /\ Fresh(F, n, P[n].good) /\ Refs(F, n, P[n].refs)
      /\ TopSet(F, n, gcTop, caller, P) /\ Waits(F, n, gcTop, P) /\ Shapes(F, n)
      /\ Parts(n, P, E, pool, sysargs) /\ Heap(heap) /\ Words(F, n, sysargs, heap)
  BY <1>3, <1>5, ReadyFacts
<1>7. /\ FrameShape(g, Names) /\ SameFrame(F[n], g) /\ g.code = Tail(F[n].code)
      /\ g.vars = F[n].vars /\ g.setTop = F[n].setTop
  BY <1>3, <1>4, <1>6, AdvancedFrame
<1>8. Instr = Head(F[n].code) /\ MayStep(RoleOf(F, n, gcTop), Instr, P[n], B)
  BY <1>2, <1>3, <1>5 DEF Instr, Ready
<1>9. G = Atop(Front(F), g)
  BY <1>2, <1>3, <1>4 DEF Unregister, WithThis, Stepped, Advanced, Atop
<1>10. Local(F, G, n) /\ G[n] = g /\ Len(G) = n
  BY ONLY <1>6, <1>7, <1>9, InnerReplaced
<1>11. G[n].code = Tail(F[n].code) /\ G[n].vars = F[n].vars /\ G[n].setTop = F[n].setTop
  BY ONLY <1>7, <1>10
<1>12. PopRule(Instr, P[n], B) /\ Valid(RoleOf(F, n, gcTop), B)
  <2>1. Instr.do = "pop"
    BY DEF Unregister
  <2> QED
    BY <1>6, <1>8, <2>1, RuleFor
<1>13. /\ Longer(B.stack, P[n].stack, Instr.v) /\ Len(B.stack) \in Nat
       /\ B.gc = P[n].gc /\ Forgets(P[n], B)
  BY <1>12 DEF PopRule
<1>14. PICK Q : Q = Further(P, n, B)
  OBVIOUS
<1>15. LocalPlans(P, Q, n) /\ Q[n] = B
  BY <1>6, <1>14, FurtherPlans
<1>16. PICK e, d : e = E[n] /\ d = e - 1
  OBVIOUS
<1>17. PICK D : D = [k \in 1 .. n |-> IF k = n THEN d ELSE E[k]]
  OBVIOUS
<1>18. D[n] = d /\ \A k \in 1 .. n : k < n => D[k] = E[k]
  BY <1>6, <1>17
<1>19. e \in Nat /\ e >= 1 /\ Indexed(pool, e) /\ d \in Nat /\ e = d + 1
  <2>1. E[n] = E[n - 1] + Len(P[n].stack) /\ E[n - 1] \in Nat
    BY <1>6 DEF Parts
  <2>2. Len(P[n].stack) = Len(B.stack) + 1
    BY <1>13 DEF Longer
  <2>3. e \in Nat /\ e >= 1
    BY <1>13, <1>16, <2>1, <2>2
  <2> QED
    BY <1>6, <1>16, <2>3 DEF Parts
<1>20. PICK pm : pm = Front(pool)
  OBVIOUS
<1>21. /\ Indexed(pm, d) /\ (\A i \in 1 .. d : pm[i] = pool[i])
       /\ Last(pool) = pool[e] /\ pool # << >>
  BY <1>19, <1>20, Popped
<1>22. \A k \in 2 .. n : Len(P[k].stack) \in Nat
  <2>1. Good(F, n, gcTop, caller, pool, sysargs, heap, P, E, P[n].good)
    BY <1>5 DEF Ready
  <2> QED
    BY <2>1 DEF Good, Follows, Valid
<1>23. Parts(n, Q, D, pm, sysargs) /\ pool[e] = <<n, Instr.v>>
  <2>1. Longer(Q[n].stack, P[n].stack, Instr.v) /\ Len(Q[n].stack) \in Nat
    BY <1>13, <1>15
  <2>2. /\ n \in Nat /\ n >= 2 /\ Parts(n, P, E, pool, sysargs) /\ LocalPlans(P, Q, n)
        /\ Lower(E, D, n, e, d)
    BY <1>6, <1>15, <1>16, <1>18 DEF Lower
  <2>3. Indexed(pm, d) /\ \A i \in 1 .. d : pm[i] = pool[i]
    BY <1>21
  <2>4. Parts(n, Q, D, pm, sysargs)
    BY ONLY <1>22, <2>1, <2>2, <2>3, PopParts
  <2>5. Holds(pool, E[n], n, Instr.v)
    BY ONLY <2>1, <2>2, LastRoot
  <2> QED
    BY <1>16, <2>4, <2>5 DEF Holds
<1>24. pool' = pm /\ exit' = exit
  <2>1. Last(pool) = <<Len(frames), Instr.v>>
    BY <1>2, <1>21, <1>23 DEF Ready
  <2> QED
    BY <1>20, <1>21, <2>1 DEF Unregister, PopRoot
<1>25. TopSet(G, n, gcTop, caller, Q) /\ LocalTop(gcTop, gcTop, n)
  <2>1. Q[n].gc = P[n].gc
    BY <1>13, <1>15
  <2> QED
    BY <1>6, <1>10, <1>11, <1>15, <2>1, SameTop
<1>26. Words(G, n, sysargs, heap) /\ Fresh(G, n, B.good) /\ Refs(G, n, B.refs)
  BY <1>5, <1>10, <1>11, <1>13, SameVars
<1>27. Inv(G, gcTop, pm, sysargs, heap, caller, "none")
  BY <1>5, <1>6, <1>10, <1>11, <1>12, <1>15, <1>18, <1>23, <1>25, <1>26, LocalInv
<1> QED
  BY <1>3, <1>24, <1>27 DEF Unregister, RRInv, InCall

(* A read through a variable.                                              *)
LEMMA AccessKeeps ==
  ASSUME RRInv, Access
  PROVE  RRInv'
<1>1. InCall
  BY DEF Access
<1>2. PICK P, E, B, n : /\ Ready(frames, n, gcTop, caller, pool, sysargs, heap, P, E, B)
                        /\ This = frames[n]
  BY <1>1, InnerReady
<1>3. PICK F, f, G : F = frames /\ f = F[n] /\ G = frames'
  OBVIOUS
<1>4. PICK g : g = Advanced(f)
  OBVIOUS
<1>5. Ready(F, n, gcTop, caller, pool, sysargs, heap, P, E, B)
  BY <1>2, <1>3
<1>6. /\ n \in Nat /\ n >= 2 /\ n \in 2 .. n /\ n \in 1 .. n /\ Indexed(F, n)
      /\ FrameShape(f, Names) /\ Valid(RoleOf(F, n, gcTop), P[n])
      /\ Fresh(F, n, P[n].good) /\ Refs(F, n, P[n].refs)
      /\ TopSet(F, n, gcTop, caller, P) /\ Waits(F, n, gcTop, P) /\ Shapes(F, n)
      /\ Parts(n, P, E, pool, sysargs) /\ Heap(heap) /\ Words(F, n, sysargs, heap)
  BY <1>3, <1>5, ReadyFacts
<1>7. /\ FrameShape(g, Names) /\ SameFrame(F[n], g) /\ g.code = Tail(F[n].code)
      /\ g.vars = F[n].vars /\ g.setTop = F[n].setTop
  BY <1>3, <1>4, <1>6, AdvancedFrame
<1>8. Instr = Head(F[n].code) /\ MayStep(RoleOf(F, n, gcTop), Instr, P[n], B)
  BY <1>2, <1>3, <1>5 DEF Instr, Ready
<1>9. G = Atop(Front(F), g)
  BY <1>2, <1>3, <1>4 DEF Access, WithThis, Stepped, Advanced, Atop
<1>10. Local(F, G, n) /\ G[n] = g /\ Len(G) = n
  BY ONLY <1>6, <1>7, <1>9, InnerReplaced
<1>11. G[n].code = Tail(F[n].code) /\ G[n].vars = F[n].vars /\ G[n].setTop = F[n].setTop
  BY ONLY <1>7, <1>10
<1>12. AccessRule(RoleOf(F, n, gcTop), Instr, P[n], B) /\ Valid(RoleOf(F, n, gcTop), B)
  <2>1. Instr.do = "use"
    BY DEF Access
  <2> QED
    BY <1>6, <1>8, <2>1, RuleFor
<1>13. Stays(P[n], B) /\ Forgets(P[n], B)
  BY <1>12 DEF AccessRule
<1>14. Words(G, n, sysargs, heap) /\ Fresh(G, n, B.good) /\ Refs(G, n, B.refs)
  BY <1>5, <1>10, <1>11, <1>13, SameVars
<1>15. Inv(G, gcTop, pool, sysargs, heap, caller, "none")
  BY <1>5, <1>6, <1>10, <1>11, <1>12, <1>13, <1>14, StaysInv
<1> QED
  BY <1>3, <1>15 DEF Access, Goes, RRInv, InCall, poolVars

(* There are finitely many names of variables.                             *)
LEMMA NamesFinite ==
  IsFiniteSet(Names)
<1>1. \A x : IsFiniteSet({x})
  BY FS_Singleton
<1>2. \A x, y : IsFiniteSet({x, y})
  <2> TAKE x, y
  <2>1. IsFiniteSet({x} \cup {y})
    BY <1>1, FS_Union
  <2>2. {x, y} = {x} \cup {y}
    OBVIOUS
  <2> QED
    BY ONLY <2>1, <2>2
<1>3. \A w, x, y, z : IsFiniteSet({w, x, y, z})
  <2> TAKE w, x, y, z
  <2>1. IsFiniteSet({w, x} \cup {y, z})
    BY <1>2, FS_Union
  <2>2. {w, x, y, z} = {w, x} \cup {y, z}
    OBVIOUS
  <2> QED
    BY ONLY <2>1, <2>2
<1>4. IsFiniteSet({"p", "q", "r", "s"} \cup {"c"})
  BY <1>1, <1>3, FS_Union
<1>5. IsFiniteSet(1 .. MaxValues)
  BY RootsAssumption, FS_Interval
<1>6. IsFiniteSet(Passed) /\ IsFiniteSet(Above)
  <2>1. /\ [i \in 1 .. MaxValues |-> ArgNames[i]] \in Surjection(1 .. MaxValues, Passed)
        /\ [i \in 1 .. MaxValues |-> WordNames[i]] \in Surjection(1 .. MaxValues, Above)
    BY DEF Surjection, Passed, Above
  <2> QED
    BY <1>5, <2>1, FS_Surjection
<1>7. Names = (({"p", "q", "r", "s"} \cup {"c"}) \cup Passed) \cup Above
  BY DEF Names
<1> QED
  BY <1>4, <1>6, <1>7, FS_Union

(* push_extra_root: the pool is full only for Bclosure.                    *)
LEMMA RegisterKeeps ==
  ASSUME MaxRoots >= 3, RRInv, Register
  PROVE  RRInv'
<1>1. InCall
  BY DEF Register
<1>2. PICK P, E, B, n : /\ Ready(frames, n, gcTop, caller, pool, sysargs, heap, P, E, B)
                        /\ This = frames[n]
  BY <1>1, InnerReady
<1>3. PICK F, f, G : F = frames /\ f = F[n] /\ G = frames'
  OBVIOUS
<1>4. PICK g : g = Advanced(f)
  OBVIOUS
<1>5. Ready(F, n, gcTop, caller, pool, sysargs, heap, P, E, B)
  BY <1>2, <1>3
<1>6. /\ n \in Nat /\ n >= 2 /\ n \in 2 .. n /\ n \in 1 .. n /\ Indexed(F, n)
      /\ FrameShape(f, Names) /\ Valid(RoleOf(F, n, gcTop), P[n])
      /\ Fresh(F, n, P[n].good) /\ Refs(F, n, P[n].refs)
      /\ TopSet(F, n, gcTop, caller, P) /\ Waits(F, n, gcTop, P) /\ Shapes(F, n)
      /\ Parts(n, P, E, pool, sysargs) /\ Heap(heap) /\ Words(F, n, sysargs, heap)
  BY <1>3, <1>5, ReadyFacts
<1>7. /\ FrameShape(g, Names) /\ SameFrame(F[n], g) /\ g.code = Tail(F[n].code)
      /\ g.vars = F[n].vars /\ g.setTop = F[n].setTop
  BY <1>3, <1>4, <1>6, AdvancedFrame
<1>8. Instr = Head(F[n].code) /\ MayStep(RoleOf(F, n, gcTop), Instr, P[n], B)
  BY <1>2, <1>3, <1>5 DEF Instr, Ready
<1>9. G = Atop(Front(F), g)
  BY <1>2, <1>3, <1>4 DEF Register, WithThis, Stepped, Advanced, Atop
<1>10. Local(F, G, n) /\ G[n] = g /\ Len(G) = n
  BY ONLY <1>6, <1>7, <1>9, InnerReplaced
<1>11. G[n].code = Tail(F[n].code) /\ G[n].vars = F[n].vars /\ G[n].setTop = F[n].setTop
  BY ONLY <1>7, <1>10
<1>12. PushRule(Instr, P[n], B) /\ Valid(RoleOf(F, n, gcTop), B)
  <2>1. Instr.do = "push"
    BY DEF Register
  <2> QED
    BY <1>6, <1>8, <2>1, RuleFor
<1>13. Longer(P[n].stack, B.stack, Instr.v) /\ B.gc = P[n].gc /\ Forgets(P[n], B)
  BY <1>12 DEF PushRule
<1>14. PICK Q : Q = Further(P, n, B)
  OBVIOUS
<1>15. LocalPlans(P, Q, n) /\ Q[n] = B
  BY <1>6, <1>14, FurtherPlans
<1>16. PICK e, d : e = E[n] /\ d = e + 1
  OBVIOUS
<1>17. e \in Nat /\ Indexed(pool, e) /\ Len(pool) = e
  <2>1. e \in Nat /\ Indexed(pool, e)
    BY <1>6, <1>16 DEF Parts
  <2> QED
    BY <2>1, IndexedLen
<1>18. \A k \in 2 .. n : Len(P[k].stack) \in Nat
  <2>1. Good(F, n, gcTop, caller, pool, sysargs, heap, P, E, P[n].good)
    BY <1>5 DEF Ready
  <2> QED
    BY <2>1 DEF Good, Follows, Valid
<1>19. TopSet(G, n, gcTop, caller, Q) /\ LocalTop(gcTop, gcTop, n)
  <2>1. Q[n].gc = P[n].gc
    BY <1>13, <1>15
  <2> QED
    BY <1>6, <1>10, <1>11, <1>15, <2>1, SameTop
<1>20. Words(G, n, sysargs, heap) /\ Fresh(G, n, B.good) /\ Refs(G, n, B.refs)
  BY <1>5, <1>10, <1>11, <1>13, SameVars
<1>21. CASE Len(pool) < MaxRoots
  <2>1. PICK D : D = [k \in 1 .. n |-> IF k = n THEN d ELSE E[k]]
    OBVIOUS
  <2>2. D[n] = d /\ \A k \in 1 .. n : k < n => D[k] = E[k]
    BY <1>6, <2>1
  <2>3. PICK c : c = <<n, Instr.v>>
    OBVIOUS
  <2>4. PICK pm : pm = Atop(pool, c)
    OBVIOUS
  <2>5. Indexed(pm, d) /\ pm[d] = c /\ \A i \in 1 .. e : pm[i] = pool[i]
    BY <1>16, <1>17, <2>4, Grown
  <2>6. /\ n \in Nat /\ n >= 2 /\ Parts(n, P, E, pool, sysargs) /\ LocalPlans(P, Q, n)
        /\ Longer(P[n].stack, Q[n].stack, Instr.v) /\ Higher(E, D, n, e, d)
        /\ pm[d] = <<n, Instr.v>>
    BY <1>6, <1>13, <1>15, <1>16, <2>2, <2>3, <2>5 DEF Higher
  <2>7. Parts(n, Q, D, pm, sysargs)
    BY ONLY <1>18, <2>5, <2>6, PushParts
  <2>8. Inv(G, gcTop, pm, sysargs, heap, caller, "none")
    BY <1>5, <1>6, <1>10, <1>11, <1>12, <1>15, <1>19, <1>20, <2>2, <2>7, LocalInv
  <2>9. pool' = pm /\ exit' = exit
    <3>1. c = <<Len(frames), Instr.v>>
      BY <1>3, <1>5, <2>3 DEF Ready
    <3> QED
      BY <1>21, <2>4, <3>1 DEF Register, PushRoot, Atop
  <2> QED
    BY <1>3, <2>8, <2>9 DEF Register, RRInv, InCall
<1>22. CASE ~(Len(pool) < MaxRoots)
  <2>1. PICK r, a, b, l, m : /\ r = RoleOf(F, n, gcTop) /\ a = E[n - 1] /\ b = Len(B.stack)
                             /\ l = Len(P[n].stack) /\ m = Room(r)
    OBVIOUS
  <2>2. r.fn = F[n].fn /\ r.params = F[n].params
    BY <2>1 DEF RoleOf, Role
  <2>3. a \in Nat /\ l \in Nat /\ e = a + l /\ b = l + 1 /\ b <= m
    <3>1. n - 1 \in 1 .. n
      BY ONLY <1>6
    <3>2. E[n - 1] \in Nat /\ E[n] = E[n - 1] + Len(P[n].stack)
      BY ONLY <1>6, <3>1 DEF Parts
    <3>3. l \in Nat
      BY ONLY <1>6, <1>18, <2>1
    <3>4. Len(B.stack) = Len(P[n].stack) + 1
      BY ONLY <1>13 DEF Longer
    <3>5. Len(B.stack) <= Room(RoleOf(F, n, gcTop))
      BY ONLY <1>12 DEF Valid
    <3> QED
      BY ONLY <1>16, <2>1, <3>2, <3>3, <3>4, <3>5
  <2>4. F[n].fn = "Bclosure"
    <3>1. SUFFICES ASSUME F[n].fn # "Bclosure"
                   PROVE  FALSE
      OBVIOUS
    <3>2. Good(F, n, gcTop, caller, pool, sysargs, heap, P, E, P[n].good)
      BY <1>5 DEF Ready
    <3>3. a + m <= 3
      BY <1>6, <2>1, <3>1, <3>2 DEF Good, Rooms
    <3>4. m \in Nat
      BY <2>1, <2>2, <3>1 DEF Room, RoomOf
    <3>5. e < 3
      BY ONLY <2>3, <3>3, <3>4
    <3> QED
      BY <1>17, <1>22, <3>5, MaxRootsAssumption
  <2>5. n = 2
    <3>1. SUFFICES ASSUME n > 2
                   PROVE  FALSE
      BY <1>6
    <3>2. n - 1 \in 2 .. n /\ n - 1 < n /\ n - 1 + 1 = n
      BY <1>6, <3>1
    <3>3. F[n].fn \in Callees
      BY <1>6, <3>2 DEF Waits, Awaits
    <3> QED
      BY <2>4, <3>3 DEF Callees
  <2>6. m = Cardinality(F[2].params) + 1 /\ Cardinality(F[2].params) \in Nat
    <3>1. F[n].params \subseteq Names
      BY <1>3, <1>6 DEF FrameShape
    <3>2. IsFiniteSet(F[n].params)
      BY <3>1, NamesFinite, FS_Subset
    <3>3. Cardinality(F[n].params) \in Nat
      BY <3>2, FS_CardinalityType
    <3> QED
      BY <2>1, <2>2, <2>4, <2>5, <3>3 DEF Room
  <2>7. a = IF sysargs = Int0 THEN 0 ELSE 1
    BY <1>6, <2>1, <2>5 DEF Parts
  <2>8. Cardinality(F[2].params) + 1 + (IF sysargs = Int0 THEN 0 ELSE 1) > MaxRoots
    <3>1. PICK c : c = Cardinality(F[2].params)
      OBVIOUS
    <3>2. e >= MaxRoots
      BY <1>17, <1>22, MaxRootsAssumption
    <3>3. c + 1 + a > MaxRoots
      BY ONLY <2>3, <2>6, <3>1, <3>2, MaxRootsAssumption
    <3> QED
      BY <2>7, <3>1, <3>3
  <2>9. G[2].fn = F[2].fn /\ G[2].params = F[2].params
    BY <1>10, <2>5 DEF Local
  <2>10. Ended(G, n, sysargs, "overflow")
    BY <2>4, <2>5, <2>8, <2>9 DEF Ended
  <2>11. Base(G, n, gcTop, pool, sysargs, heap, P, E)
    <3>1. gcTop \in 0 .. n /\ (gcTop > 1 => G[gcTop].setTop)
      <4>1. gcTop \in 0 .. n /\ (gcTop > 1 => gcTop \in 2 .. n)
        BY <1>6, <1>19 DEF TopSet
      <4> QED
        BY <1>19, <4>1 DEF TopSet
    <3>2. Indexed(G, n) /\ n >= 1
      BY <1>6, <1>10 DEF Local
    <3> QED
      BY <1>6, <1>20, <3>1, <3>2 DEF Base
  <2>12. pool' = pool /\ exit' = "overflow"
    BY <1>22 DEF Register, PushRoot
  <2>13. Inv(G, gcTop, pool, sysargs, heap, caller, "overflow")
    BY <1>10, <2>10, <2>11 DEF Inv
  <2> QED
    BY <1>3, <2>12, <2>13 DEF Register, RRInv
<1> QED
  BY <1>21, <1>22

(* What an object can hold.                                                *)
Holdable(ws, hp) ==
  /\ ws = [i \in DOMAIN ws |-> ws[i]]
  /\ \A i \in DOMAIN ws : Word(ws[i]) /\ ws[i].fresh /\ Leads(ws[i], hp)

WithFields(hp, o, ws) == [hp EXCEPT ![o].fields = ws]

(* New fields of an object that is there.                                  *)
LEMMA FieldsSet ==
  ASSUME NEW hp, NEW o, NEW ws, NEW hq, Heap(hp), o \in DOMAIN hp, Holdable(ws, hp),
         hq = WithFields(hp, o, ws)
  PROVE  Heap(hq) /\ DOMAIN hq = DOMAIN hp
<1>1. hp = [j \in DOMAIN hp |-> hp[j]] /\ IsFiniteSet(DOMAIN hp)
  BY DEF Heap
<1>2. PICK x : x = [hp[o] EXCEPT !.fields = ws]
  OBVIOUS
<1>3. PICK y : y = [type |-> hp[o].type, fields |-> ws]
  OBVIOUS
<1>4. x = y
  <2>1. hp[o] = [type |-> hp[o].type, fields |-> hp[o].fields]
    BY DEF Heap
  <2> QED
    BY <1>2, <1>3, <2>1
<1>5. hq = [j \in DOMAIN hp |-> IF j = o THEN y ELSE hp[j]]
  BY <1>1, <1>2, <1>4 DEF WithFields
<1>6. DOMAIN hq = DOMAIN hp /\ hq = [j \in DOMAIN hq |-> hq[j]]
  BY <1>5
<1>7. hq[o] = y /\ \A j \in DOMAIN hp : j # o => hq[j] = hp[j]
  BY <1>5
<1>8. \A w : Leads(w, hp) => Leads(w, hq)
  BY <1>6 DEF Leads
<1>9. ASSUME NEW j \in DOMAIN hq
      PROVE  /\ hq[j] = [type |-> hq[j].type, fields |-> hq[j].fields]
             /\ hq[j].fields = [i \in DOMAIN hq[j].fields |-> hq[j].fields[i]]
             /\ \A i \in DOMAIN hq[j].fields :
                  LET w == hq[j].fields[i] IN Word(w) /\ w.fresh /\ Leads(w, hq)
  <2>1. CASE j = o
    <3>1. y.fields = ws /\ y = [type |-> y.type, fields |-> y.fields]
      BY <1>3
    <3>2. hq[j].fields = ws /\ hq[j] = [type |-> hq[j].type, fields |-> hq[j].fields]
      BY <1>7, <2>1, <3>1
    <3> QED
      BY <1>8, <3>2 DEF Holdable
  <2>2. CASE j # o
    <3>1. hq[j] = hp[j] /\ j \in DOMAIN hp
      BY <1>6, <1>7, <2>2
    <3> QED
      BY <1>8, <3>1 DEF Heap
  <2> QED
    BY <2>1, <2>2
<1> QED
  BY <1>1, <1>6, <1>9 DEF Heap

(* The words of a new object.                                              *)
LEMMA FillObjectKeeps ==
  ASSUME RRInv, FillObject
  PROVE  RRInv'
<1>1. InCall
  BY DEF FillObject
<1>2. PICK P, E, B, n : /\ Ready(frames, n, gcTop, caller, pool, sysargs, heap, P, E, B)
                        /\ This = frames[n]
  BY <1>1, InnerReady
<1>3. PICK F, f, G : F = frames /\ f = F[n] /\ G = frames'
  OBVIOUS
<1>4. PICK g : g = Advanced(f)
  OBVIOUS
<1>5. Ready(F, n, gcTop, caller, pool, sysargs, heap, P, E, B)
  BY <1>2, <1>3
<1>6. /\ n \in Nat /\ n >= 2 /\ n \in 2 .. n /\ n \in 1 .. n /\ Indexed(F, n)
      /\ FrameShape(f, Names) /\ Valid(RoleOf(F, n, gcTop), P[n])
      /\ Fresh(F, n, P[n].good) /\ Refs(F, n, P[n].refs)
      /\ TopSet(F, n, gcTop, caller, P) /\ Waits(F, n, gcTop, P) /\ Shapes(F, n)
      /\ Parts(n, P, E, pool, sysargs) /\ Heap(heap) /\ Words(F, n, sysargs, heap)
  BY <1>3, <1>5, ReadyFacts
<1>7. /\ FrameShape(g, Names) /\ SameFrame(F[n], g) /\ g.code = Tail(F[n].code)
      /\ g.vars = F[n].vars /\ g.setTop = F[n].setTop
  BY <1>3, <1>4, <1>6, AdvancedFrame
<1>8. Instr = Head(F[n].code) /\ MayStep(RoleOf(F, n, gcTop), Instr, P[n], B)
  BY <1>2, <1>3, <1>5 DEF Instr, Ready
<1>9. G = Atop(Front(F), g)
  BY <1>2, <1>3, <1>4 DEF FillObject, WithThis, Stepped, Advanced, Atop
<1>10. Local(F, G, n) /\ G[n] = g /\ Len(G) = n
  BY ONLY <1>6, <1>7, <1>9, InnerReplaced
<1>11. G[n].code = Tail(F[n].code) /\ G[n].vars = F[n].vars /\ G[n].setTop = F[n].setTop
  BY ONLY <1>7, <1>10
<1>12. /\ AccessRule(RoleOf(F, n, gcTop), Instr, P[n], B) /\ Valid(RoleOf(F, n, gcTop), B)
       /\ Instr.do = "fill"
  <2>1. Instr.do = "fill"
    BY DEF FillObject
  <2> QED
    BY <1>6, <1>8, <2>1, RuleFor
<1>13. Stays(P[n], B) /\ Forgets(P[n], B)
  BY <1>12 DEF AccessRule
<1>14. \A u \in Names : Word(F[n].vars[u]) /\ Leads(F[n].vars[u], heap)
  <2>1. DOMAIN F[n].vars = Names
    BY <1>3, <1>6 DEF FrameShape
  <2> QED
    BY <1>6, <2>1 DEF Words
<1>15. \A u : Value(u) = F[n].vars[u]
  BY <1>2, <1>3 DEF Value
<1>16. PICK o : o = F[n].vars[Instr.v].obj /\ o \in DOMAIN heap
  <2>1. Instr.v \in P[n].refs /\ P[n].refs \subseteq Names
    BY <1>6, <1>12 DEF AccessRule, Valid
  <2>2. IsRef(F[n].vars[Instr.v])
    BY <1>6, <2>1 DEF Refs
  <2>3. F[n].vars[Instr.v].fresh
    BY <1>12, <1>15 DEF FillObject, FollowsStale, Followed
  <2> QED
    BY <1>14, <2>1, <2>2, <2>3 DEF Leads
<1>17. PICK ws : ws = [k \in DOMAIN Instr.from |-> Value(Instr.from[k])] /\ Holdable(ws, heap)
  <2>1. PICK ws : ws = [k \in DOMAIN Instr.from |-> Value(Instr.from[k])]
    OBVIOUS
  <2>2. ASSUME NEW k \in DOMAIN ws
        PROVE  Word(ws[k]) /\ ws[k].fresh /\ Leads(ws[k], heap)
    <3>1. k \in DOMAIN Instr.from /\ ws[k] = F[n].vars[Instr.from[k]]
      BY <1>15, <2>1
    <3>2. Instr.from[k] \in ToSet(Instr.from)
      BY <3>1 DEF ToSet
    <3>3. ToSet(Instr.from) \subseteq Names
      BY <1>12 DEF AccessRule
    <3>4. Value(Instr.from[k]).fresh
      BY <1>12, <3>2 DEF FillObject, FollowsStale, Followed
    <3> QED
      BY <1>14, <1>15, <3>1, <3>2, <3>3, <3>4
  <2> QED
    BY <2>1, <2>2 DEF Holdable
<1>18. PICK hq : hq = WithFields(heap, o, ws) /\ heap' = hq
  BY <1>15, <1>16, <1>17 DEF FillObject, SetFields, WithFields
<1>19. Heap(hq) /\ DOMAIN hq = DOMAIN heap
  <2>1. Heap(heap) /\ o \in DOMAIN heap
    BY <1>6, <1>16
  <2> QED
    BY ONLY <1>17, <1>18, <2>1, FieldsSet
<1>20. Words(G, n, sysargs, hq) /\ Fresh(G, n, B.good) /\ Refs(G, n, B.refs)
  BY <1>5, <1>10, <1>11, <1>13, <1>19, SameVars
<1>21. Inv(G, gcTop, pool, sysargs, hq, caller, "none")
  BY <1>5, <1>6, <1>10, <1>11, <1>12, <1>13, <1>19, <1>20, StaysInv
<1>22. heap' = hq
  BY <1>18
<1> QED
  BY <1>3, <1>21, <1>22 DEF FillObject, Goes, RRInv, InCall, poolVars

(* memcpy of one object to another.                                        *)
LEMMA CopyObjectKeeps ==
  ASSUME RRInv, CopyObject
  PROVE  RRInv'
<1>1. InCall
  BY DEF CopyObject
<1>2. PICK P, E, B, n : /\ Ready(frames, n, gcTop, caller, pool, sysargs, heap, P, E, B)
                        /\ This = frames[n]
  BY <1>1, InnerReady
<1>3. PICK F, f, G : F = frames /\ f = F[n] /\ G = frames'
  OBVIOUS
<1>4. PICK g : g = Advanced(f)
  OBVIOUS
<1>5. Ready(F, n, gcTop, caller, pool, sysargs, heap, P, E, B)
  BY <1>2, <1>3
<1>6. /\ n \in Nat /\ n >= 2 /\ n \in 2 .. n /\ n \in 1 .. n /\ Indexed(F, n)
      /\ FrameShape(f, Names) /\ Valid(RoleOf(F, n, gcTop), P[n])
      /\ Fresh(F, n, P[n].good) /\ Refs(F, n, P[n].refs)
      /\ TopSet(F, n, gcTop, caller, P) /\ Waits(F, n, gcTop, P) /\ Shapes(F, n)
      /\ Parts(n, P, E, pool, sysargs) /\ Heap(heap) /\ Words(F, n, sysargs, heap)
  BY <1>3, <1>5, ReadyFacts
<1>7. /\ FrameShape(g, Names) /\ SameFrame(F[n], g) /\ g.code = Tail(F[n].code)
      /\ g.vars = F[n].vars /\ g.setTop = F[n].setTop
  BY <1>3, <1>4, <1>6, AdvancedFrame
<1>8. Instr = Head(F[n].code) /\ MayStep(RoleOf(F, n, gcTop), Instr, P[n], B)
  BY <1>2, <1>3, <1>5 DEF Instr, Ready
<1>9. G = Atop(Front(F), g)
  BY <1>2, <1>3, <1>4 DEF CopyObject, WithThis, Stepped, Advanced, Atop
<1>10. Local(F, G, n) /\ G[n] = g /\ Len(G) = n
  BY ONLY <1>6, <1>7, <1>9, InnerReplaced
<1>11. G[n].code = Tail(F[n].code) /\ G[n].vars = F[n].vars /\ G[n].setTop = F[n].setTop
  BY ONLY <1>7, <1>10
<1>12. /\ AccessRule(RoleOf(F, n, gcTop), Instr, P[n], B) /\ Valid(RoleOf(F, n, gcTop), B)
       /\ Instr.do = "copy"
  <2>1. Instr.do = "copy"
    BY DEF CopyObject
  <2> QED
    BY <1>6, <1>8, <2>1, RuleFor
<1>13. Stays(P[n], B) /\ Forgets(P[n], B)
  BY <1>12 DEF AccessRule
<1>14. \A u \in Names : Word(F[n].vars[u]) /\ Leads(F[n].vars[u], heap)
  <2>1. DOMAIN F[n].vars = Names
    BY <1>3, <1>6 DEF FrameShape
  <2> QED
    BY <1>6, <2>1 DEF Words
<1>15. \A u : Value(u) = F[n].vars[u]
  BY <1>2, <1>3 DEF Value
<1>16. PICK o, p : /\ o = F[n].vars[Instr.v].obj /\ o \in DOMAIN heap
                  /\ p = F[n].vars[Instr.from].obj /\ p \in DOMAIN heap
  <2>1. {Instr.v, Instr.from} \subseteq P[n].refs /\ P[n].refs \subseteq Names
    BY <1>6, <1>12 DEF AccessRule, Valid
  <2>2. IsRef(F[n].vars[Instr.v]) /\ IsRef(F[n].vars[Instr.from])
    BY <1>6, <2>1 DEF Refs
  <2>3. F[n].vars[Instr.v].fresh /\ F[n].vars[Instr.from].fresh
    BY <1>12, <1>15 DEF CopyObject, FollowsStale, Followed
  <2> QED
    BY <1>14, <2>1, <2>2, <2>3 DEF Leads
<1>17. PICK ws : ws = heap[p].fields /\ Holdable(ws, heap)
  <2>1. PICK ws : ws = heap[p].fields
    OBVIOUS
  <2> QED
    BY <1>6, <1>16, <2>1 DEF Heap, Holdable
<1>18. PICK hq : hq = WithFields(heap, o, ws) /\ heap' = hq
  BY <1>15, <1>16, <1>17 DEF CopyObject, SetFields, WithFields
<1>19. Heap(hq) /\ DOMAIN hq = DOMAIN heap
  <2>1. Heap(heap) /\ o \in DOMAIN heap
    BY <1>6, <1>16
  <2> QED
    BY ONLY <1>17, <1>18, <2>1, FieldsSet
<1>20. Words(G, n, sysargs, hq) /\ Fresh(G, n, B.good) /\ Refs(G, n, B.refs)
  BY <1>5, <1>10, <1>11, <1>13, <1>19, SameVars
<1>21. Inv(G, gcTop, pool, sysargs, hq, caller, "none")
  BY <1>5, <1>6, <1>10, <1>11, <1>12, <1>13, <1>19, <1>20, StaysInv
<1>22. heap' = hq
  BY <1>18
<1> QED
  BY <1>3, <1>21, <1>22 DEF CopyObject, Goes, RRInv, InCall, poolVars

(* A word stored in an object.                                             *)
LEMMA StoreElementKeeps ==
  ASSUME RRInv, StoreElement
  PROVE  RRInv'
<1>1. InCall
  BY DEF StoreElement
<1>2. PICK P, E, B, n : /\ Ready(frames, n, gcTop, caller, pool, sysargs, heap, P, E, B)
                        /\ This = frames[n]
  BY <1>1, InnerReady
<1>3. PICK F, f, G : F = frames /\ f = F[n] /\ G = frames'
  OBVIOUS
<1>4. PICK g : g = Advanced(f)
  OBVIOUS
<1>5. Ready(F, n, gcTop, caller, pool, sysargs, heap, P, E, B)
  BY <1>2, <1>3
<1>6. /\ n \in Nat /\ n >= 2 /\ n \in 2 .. n /\ n \in 1 .. n /\ Indexed(F, n)
      /\ FrameShape(f, Names) /\ Valid(RoleOf(F, n, gcTop), P[n])
      /\ Fresh(F, n, P[n].good) /\ Refs(F, n, P[n].refs)
      /\ TopSet(F, n, gcTop, caller, P) /\ Waits(F, n, gcTop, P) /\ Shapes(F, n)
      /\ Parts(n, P, E, pool, sysargs) /\ Heap(heap) /\ Words(F, n, sysargs, heap)
  BY <1>3, <1>5, ReadyFacts
<1>7. /\ FrameShape(g, Names) /\ SameFrame(F[n], g) /\ g.code = Tail(F[n].code)
      /\ g.vars = F[n].vars /\ g.setTop = F[n].setTop
  BY <1>3, <1>4, <1>6, AdvancedFrame
<1>8. Instr = Head(F[n].code) /\ MayStep(RoleOf(F, n, gcTop), Instr, P[n], B)
  BY <1>2, <1>3, <1>5 DEF Instr, Ready
<1>9. G = Atop(Front(F), g)
  BY <1>2, <1>3, <1>4 DEF StoreElement, WithThis, Stepped, Advanced, Atop
<1>10. Local(F, G, n) /\ G[n] = g /\ Len(G) = n
  BY ONLY <1>6, <1>7, <1>9, InnerReplaced
<1>11. G[n].code = Tail(F[n].code) /\ G[n].vars = F[n].vars /\ G[n].setTop = F[n].setTop
  BY ONLY <1>7, <1>10
<1>12. /\ AccessRule(RoleOf(F, n, gcTop), Instr, P[n], B) /\ Valid(RoleOf(F, n, gcTop), B)
       /\ Instr.do = "store"
  <2>1. Instr.do = "store"
    BY DEF StoreElement
  <2> QED
    BY <1>6, <1>8, <2>1, RuleFor
<1>13. Stays(P[n], B) /\ Forgets(P[n], B)
  BY <1>12 DEF AccessRule
<1>14. \A u \in Names : Word(F[n].vars[u]) /\ Leads(F[n].vars[u], heap)
  <2>1. DOMAIN F[n].vars = Names
    BY <1>3, <1>6 DEF FrameShape
  <2> QED
    BY <1>6, <2>1 DEF Words
<1>15. \A u : Value(u) = F[n].vars[u]
  BY <1>2, <1>3 DEF Value
<1>16. PICK o : o = F[n].vars[Instr.v].obj /\ o \in DOMAIN heap
  <2>1. Instr.v \in P[n].refs /\ P[n].refs \subseteq Names
    BY <1>6, <1>12 DEF AccessRule, Valid
  <2>2. IsRef(F[n].vars[Instr.v])
    BY <1>6, <2>1 DEF Refs
  <2>3. F[n].vars[Instr.v].fresh
    BY <1>12, <1>15 DEF StoreElement, FollowsStale, Followed
  <2> QED
    BY <1>14, <2>1, <2>2, <2>3 DEF Leads
<1>17. PICK ws : ws = [heap[o].fields EXCEPT ![Instr.k] = Value(Instr.from)] /\ Holdable(ws, heap)
  <2>1. PICK w : w = Value(Instr.from)
    OBVIOUS
  <2>2. Word(w) /\ w.fresh /\ Leads(w, heap)
    <3>1. Instr.from \in Names
      BY <1>12 DEF AccessRule
    <3>2. Value(Instr.from).fresh
      BY <1>12 DEF StoreElement, FollowsStale, Followed
    <3> QED
      BY <1>14, <1>15, <2>1, <3>1, <3>2
  <2>3. PICK fs : fs = heap[o].fields
    OBVIOUS
  <2>4. fs = [i \in DOMAIN fs |-> fs[i]] /\ \A i \in DOMAIN fs : Word(fs[i]) /\ fs[i].fresh /\ Leads(fs[i], heap)
    BY <1>6, <1>16, <2>3 DEF Heap
  <2>5. PICK ws : ws = [fs EXCEPT ![Instr.k] = w]
    OBVIOUS
  <2>6. Holdable(ws, heap)
    BY <2>2, <2>4, <2>5 DEF Holdable
  <2> QED
    BY <2>1, <2>3, <2>5, <2>6
<1>18. PICK hq : hq = WithFields(heap, o, ws) /\ heap' = hq
  BY <1>15, <1>16, <1>17 DEF StoreElement, WithFields
<1>19. Heap(hq) /\ DOMAIN hq = DOMAIN heap
  <2>1. Heap(heap) /\ o \in DOMAIN heap
    BY <1>6, <1>16
  <2> QED
    BY ONLY <1>17, <1>18, <2>1, FieldsSet
<1>20. Words(G, n, sysargs, hq) /\ Fresh(G, n, B.good) /\ Refs(G, n, B.refs)
  BY <1>5, <1>10, <1>11, <1>13, <1>19, SameVars
<1>21. Inv(G, gcTop, pool, sysargs, hq, caller, "none")
  BY <1>5, <1>6, <1>10, <1>11, <1>12, <1>13, <1>19, <1>20, StaysInv
<1>22. heap' = hq
  BY <1>18
<1> QED
  BY <1>3, <1>21, <1>22 DEF StoreElement, Goes, RRInv, InCall, poolVars

(* A word read out of an object.                                           *)
LEMMA TakeVariableKeeps ==
  ASSUME RRInv, TakeVariable
  PROVE  RRInv'
<1>1. InCall
  BY DEF TakeVariable
<1>2. PICK P, E, B, n : /\ Ready(frames, n, gcTop, caller, pool, sysargs, heap, P, E, B)
                        /\ This = frames[n]
  BY <1>1, InnerReady
<1>3. PICK F, f, G : F = frames /\ f = F[n] /\ G = frames'
  OBVIOUS
<1>4. PICK a, w, g : a = Advanced(f) /\ w = Value(Instr.from) /\ g = Given(a, Instr.v, w)
  OBVIOUS
<1>5. Ready(F, n, gcTop, caller, pool, sysargs, heap, P, E, B)
  BY <1>2, <1>3
<1>6. /\ n \in Nat /\ n >= 2 /\ n \in 2 .. n /\ n \in 1 .. n /\ Indexed(F, n)
      /\ FrameShape(f, Names) /\ Valid(RoleOf(F, n, gcTop), P[n])
      /\ Fresh(F, n, P[n].good) /\ Refs(F, n, P[n].refs)
      /\ TopSet(F, n, gcTop, caller, P) /\ Waits(F, n, gcTop, P) /\ Shapes(F, n)
      /\ Parts(n, P, E, pool, sysargs) /\ Heap(heap) /\ Words(F, n, sysargs, heap)
  BY <1>3, <1>5, ReadyFacts
<1>7. Instr = Head(F[n].code) /\ MayStep(RoleOf(F, n, gcTop), Instr, P[n], B)
  BY <1>2, <1>3, <1>5 DEF Instr, Ready
<1>8. /\ TakeRule(RoleOf(F, n, gcTop), Instr, P[n], B) /\ Valid(RoleOf(F, n, gcTop), B)
      /\ Instr.do = "take"
  <2>1. Instr.do = "take"
    BY DEF TakeVariable
  <2> QED
    BY <1>6, <1>7, <2>1, RuleFor
<1>9. Stays(P[n], B) /\ Assigned(RoleOf(F, n, gcTop), P[n], Instr.v)
  BY <1>8 DEF TakeRule, Learns
<1>10. Instr.v \in Names /\ Instr.v # "c"
  BY <1>9 DEF Assigned
<1>11. /\ FrameShape(g, Names) /\ SameFrame(F[n], g) /\ g.code = Tail(F[n].code)
       /\ g.setTop = F[n].setTop
       /\ g.vars[Instr.v] = w /\ \A u \in Names : u # Instr.v => g.vars[u] = F[n].vars[u]
  <2>1. /\ FrameShape(a, Names) /\ SameFrame(F[n], a) /\ a.code = Tail(F[n].code)
        /\ a.vars = F[n].vars /\ a.setTop = F[n].setTop
    BY <1>3, <1>4, <1>6, AdvancedFrame
  <2>2. g = Given(a, Instr.v, w)
    BY <1>4
  <2>3. /\ FrameShape(g, Names) /\ SameFrame(a, g) /\ g.code = a.code /\ g.setTop = a.setTop
        /\ g.vars[Instr.v] = w /\ \A u \in Names : u # Instr.v => g.vars[u] = a.vars[u]
    BY ONLY <1>10, <2>1, <2>2, GivenFrame
  <2> QED
    BY <2>1, <2>3 DEF SameFrame
<1>12. G = Atop(Front(F), g)
  BY <1>2, <1>3, <1>4 DEF TakeVariable, WithThis, Stepped, Advanced, Given, Atop
<1>13. Local(F, G, n) /\ G[n] = g /\ Len(G) = n
  BY ONLY <1>6, <1>11, <1>12, InnerReplaced
<1>14. /\ G[n].code = Tail(F[n].code) /\ G[n].setTop = F[n].setTop
       /\ G[n].vars[Instr.v] = w /\ \A u \in Names : u # Instr.v => G[n].vars[u] = F[n].vars[u]
  BY ONLY <1>11, <1>13
<1>15. w = F[n].vars[Instr.from] /\ Instr.from \in Names
  BY <1>2, <1>3, <1>4, <1>8 DEF Value, TakeRule
<1>16. Word(w) /\ Leads(w, heap)
  <2>1. DOMAIN F[n].vars = Names
    BY <1>3, <1>6 DEF FrameShape
  <2> QED
    BY <1>6, <1>15, <2>1 DEF Words
<1>17. Words(G, n, sysargs, heap)
  <2>1. \A u \in Names : \/ G[n].vars[u] = F[n].vars[u]
                         \/ u # "c" /\ Word(G[n].vars[u]) /\ Leads(G[n].vars[u], heap)
    BY <1>10, <1>14, <1>16
  <2> QED
    BY <1>6, <1>13, <2>1, WordsStep
<1>18. Fresh(G, n, B.good)
  <2>1. ASSUME NEW u \in B.good
        PROVE  G[n].vars[u].fresh
    <3>1. u \in Names
      BY <1>8 DEF Valid
    <3>2. u = Instr.v => Instr.from \in P[n].good
      BY <1>8 DEF TakeRule
    <3>3. u # Instr.v => u \in P[n].good
      BY <1>8 DEF TakeRule
    <3> QED
      BY <1>6, <1>14, <1>15, <3>1, <3>2, <3>3 DEF Fresh
  <2> QED
    BY <2>1 DEF Fresh
<1>19. Refs(G, n, B.refs)
  <2>1. ASSUME NEW u \in B.refs
        PROVE  IsRef(G[n].vars[u])
    <3>1. u \in Names
      BY <1>8 DEF Valid
    <3>2. u = Instr.v => Instr.from \in P[n].refs
      BY <1>8 DEF TakeRule
    <3>3. u # Instr.v => u \in P[n].refs
      BY <1>8 DEF TakeRule
    <3> QED
      BY <1>6, <1>14, <1>15, <3>1, <3>2, <3>3 DEF Refs
  <2> QED
    BY <2>1 DEF Refs
<1>20. Inv(G, gcTop, pool, sysargs, heap, caller, "none")
  BY <1>5, <1>6, <1>8, <1>9, <1>13, <1>14, <1>17, <1>18, <1>19, StaysInv
<1> QED
  BY <1>3, <1>20 DEF TakeVariable, Goes, RRInv, InCall, poolVars

-----------------------------------------------------------------------------
(***************************************************************************)
(* What is reachable                                                       *)
(***************************************************************************)

(* The objects that those in Z lead to in one step, and they themselves.   *)
Wider(hp, Z) == Z \cup ObjectsIn(UNION {ToSet(hp[o].fields) : o \in Z})

(* Objects lead to objects.                                                *)
LEMMA WiderStays ==
  ASSUME NEW hp, Heap(hp), NEW Z, Z \subseteq DOMAIN hp
  PROVE  Z \subseteq Wider(hp, Z) /\ Wider(hp, Z) \subseteq DOMAIN hp
<1>1. ASSUME NEW x \in ObjectsIn(UNION {ToSet(hp[o].fields) : o \in Z})
      PROVE  x \in DOMAIN hp
  <2>1. PICK o \in Z : \E w \in ToSet(hp[o].fields) : IsRef(w) /\ x = w.obj
    BY <1>1 DEF ObjectsIn
  <2>2. PICK i \in DOMAIN hp[o].fields : IsRef(hp[o].fields[i]) /\ x = hp[o].fields[i].obj
    BY <2>1 DEF ToSet
  <2> QED
    BY <2>1, <2>2 DEF Heap, Leads
<1> QED
  BY <1>1 DEF Wider

Widens(R, m, A, hp) ==
  R = [k \in 0 .. m |-> IF k = 0 THEN A ELSE Wider(hp, R[k - 1])]

(* Marking ends with a set that has all it leads to: it can widen no more  *)
(* often than there are objects.                                           *)
LEMMA ReachableIsClosed ==
  ASSUME Heap(heap), ObjectsIn(RootWords) \subseteq DOMAIN heap
  PROVE  /\ ObjectsIn(RootWords) \subseteq Reachable /\ Reachable \subseteq DOMAIN heap
         /\ Wider(heap, Reachable) = Reachable
<1>1. PICK A, U : A = ObjectsIn(RootWords) /\ U = DOMAIN heap
  OBVIOUS
<1>2. PICK m \in Nat : m = Cardinality(U)
  BY <1>1, FS_CardinalityType DEF Heap
<1>3. PICK F : F = [Z \in SUBSET U |-> Wider(heap, Z)]
  OBVIOUS
<1>4. A \subseteq U /\ WidensIn(F, U)
  <2>1. ASSUME NEW Z \in SUBSET U
        PROVE  F[Z] \in SUBSET U /\ Z \subseteq F[Z]
    BY <1>1, <1>3, WiderStays
  <2> QED
    BY <1>1, <2>1 DEF WidensIn, Heap
<1>5. PICK R : Iterates(R, m, A, F)
  BY <1>2, IteratesExists
<1>6. PICK a \in Nat : a = Cardinality(A)
  BY <1>1, <1>4, FS_Subset, FS_CardinalityType DEF Heap
<1>7. /\ \A k \in 0 .. m : A \subseteq R[k] /\ R[k] \subseteq U
      /\ F[R[m]] = R[m]
  <2>1. Cardinality(U) <= Cardinality(A) + m
    BY <1>2, <1>6
  <2> QED
    BY <1>2, <1>4, <1>5, <2>1, IterationSettles
<1>8. R[0] = A /\ \A k \in 1 .. m : R[k] = Wider(heap, R[k - 1])
  <2>1. ASSUME NEW k \in 1 .. m
        PROVE  R[k] = Wider(heap, R[k - 1])
    <3>1. k \in 0 .. m /\ k # 0 /\ k - 1 \in 0 .. m
      BY <1>2
    <3>2. R[k] = F[R[k - 1]]
      BY <1>5, <3>1 DEF Iterates
    <3> QED
      BY <1>3, <1>7, <3>1, <3>2
  <2>2. R[0] = A
    BY <1>2, <1>5 DEF Iterates
  <2> QED
    BY <2>1, <2>2
<1>9. \E Q : Widens(Q, m, A, heap)
  <2>1. PICK Q : Q = [k \in 0 .. m |-> IF k = 0 THEN A ELSE Wider(heap, R[k - 1])]
    OBVIOUS
  <2>2. \A k \in 0 .. m : Q[k] = R[k]
    BY <1>8, <2>1
  <2>3. \A k \in 0 .. m : k # 0 => k - 1 \in 0 .. m
    BY <1>2
  <2>4. Widens(Q, m, A, heap)
    BY <2>1, <2>2, <2>3 DEF Widens
  <2> QED
    BY <2>4
<1>10. PICK Q : Reachable = Q[m] /\ Widens(Q, m, A, heap)
  <2>1. Widens(CHOOSE Q : Widens(Q, m, A, heap), m, A, heap)
    BY <1>9, Zenon
  <2>2. Reachable = (CHOOSE Q : Widens(Q, m, A, heap))[m]
    BY <1>1, <1>2, Zenon DEF Reachable, Widens, Wider
  <2> QED
    BY <2>1, <2>2
<1>11. Q[m] = R[m]
  <2>1. Q[0] = A /\ \A k \in 1 .. m : Q[k] = Wider(heap, Q[k - 1])
    BY <1>2, <1>10 DEF Widens
  <2>2. Q[0] = R[0] /\ \A k \in 1 .. m : Q[k - 1] = R[k - 1] => Q[k] = R[k]
    BY <1>8, <2>1
  <2> QED
    BY ONLY <1>2, <2>2, SameIteration
<1>12. m \in 0 .. m
  BY <1>2
<1> QED
  BY <1>1, <1>3, <1>7, <1>10, <1>11, <1>12

-----------------------------------------------------------------------------
(***************************************************************************)
(* A collection                                                            *)
(***************************************************************************)
LEMMA OneInPool ==
  ASSUME NEW c, NEW d \in DOMAIN pool, pool[d] = c, \A i \in DOMAIN pool : pool[i] = c => i = d
  PROVE  TimesInPool(c) = 1
<1>1. {i \in DOMAIN pool : pool[i] = c} = {d}
  OBVIOUS
<1> QED
  BY <1>1, FS_Singleton DEF TimesInPool

(* Every registered variable is in the pool once.                          *)
LEMMA RegisteredOnce ==
  ASSUME NEW n, NEW P, NEW E, n \in Nat, n >= 1, Parts(n, P, E, pool, sysargs),
         \A k \in 2 .. n : \A i, j \in 1 .. Len(P[k].stack) : P[k].stack[i] = P[k].stack[j] => i = j,
         \A k \in 2 .. n : Len(P[k].stack) \in Nat
  PROVE  /\ sysargs # Int0 => TimesInPool(SysArgs) = 1
         /\ \A k \in 2 .. n : \A v \in Registered(P[k]) : TimesInPool(<<k, v>>) = 1
<1>1. DOMAIN pool = 1 .. E[n] /\ \A k \in 1 .. n : E[k] \in Nat
  BY DEF Parts, Indexed
<1>2. \A k, l \in 1 .. n : k <= l => E[k] <= E[l]
  BY DEF Parts
<1>3. ASSUME NEW i \in 1 .. E[n]
      PROVE  \/ i = 1 /\ sysargs # Int0 /\ pool[i] = SysArgs
             \/ \E k \in 2 .. n : \E j \in 1 .. Len(P[k].stack) :
                  i = E[k - 1] + j /\ pool[i] = <<k, P[k].stack[j]>>
  <2>1. (i = 1 /\ sysargs # Int0) \/ \E k \in 2 .. n : InPart(k, P, E, pool, i)
    BY DEF Parts
  <2>2. CASE i = 1 /\ sysargs # Int0
    BY <2>2 DEF Parts
  <2>3. CASE \E k \in 2 .. n : InPart(k, P, E, pool, i)
    BY <2>3 DEF InPart
  <2> QED
    BY <2>1, <2>2, <2>3
<1>4. ASSUME NEW k \in 2 .. n, NEW v
      PROVE  <<k, v>> # SysArgs
  <2>1. <<k, v>>[1] = k /\ SysArgs[1] = 0 /\ k # 0
    BY DEF SysArgs
  <2> QED
    BY <2>1
<1>5. ASSUME sysargs # Int0
      PROVE  TimesInPool(SysArgs) = 1
  <2>1. E[1] = 1 /\ 1 \in 1 .. n /\ n \in 1 .. n
    BY <1>5 DEF Parts
  <2>2. 1 \in 1 .. E[n]
    BY <1>1, <1>2, <2>1
  <2>3. pool[1] = SysArgs
    BY <1>5 DEF Parts
  <2>4. ASSUME NEW i \in DOMAIN pool, pool[i] = SysArgs
        PROVE  i = 1
    <3>1. SUFFICES ASSUME i # 1
                   PROVE  FALSE
      OBVIOUS
    <3>2. PICK k \in 2 .. n : \E j \in 1 .. Len(P[k].stack) :
             i = E[k - 1] + j /\ pool[i] = <<k, P[k].stack[j]>>
      BY <1>1, <1>3, <3>1
    <3>3. PICK j \in 1 .. Len(P[k].stack) : pool[i] = <<k, P[k].stack[j]>>
      BY <3>2
    <3> QED
      BY <1>4, <2>4, <3>3
  <2> QED
    BY <1>1, <2>2, <2>3, <2>4, OneInPool
<1>6. ASSUME NEW k \in 2 .. n, NEW v \in Registered(P[k])
      PROVE  TimesInPool(<<k, v>>) = 1
  <2>1. PICK j \in 1 .. Len(P[k].stack) : v = P[k].stack[j]
    BY DEF Registered
  <2>2. PICK b, l \in Nat : b = E[k - 1] /\ l = Len(P[k].stack) /\ E[k] = b + l
    <3>1. k - 1 \in 1 .. n
      OBVIOUS
    <3>2. E[k - 1] \in Nat /\ Len(P[k].stack) \in Nat
      BY <1>1, <3>1
    <3>3. E[k] = E[k - 1] + Len(P[k].stack)
      BY DEF Parts
    <3> QED
      BY ONLY <3>2, <3>3
  <2>3. E[k] <= E[n] /\ E[n] \in Nat /\ E[k] \in Nat
    BY <1>1, <1>2
  <2>4. j \in 1 .. l
    BY <2>2
  <2>5. PICK d \in Nat : d = b + j
    BY <2>4
  <2>6. d \in 1 .. E[n]
    <3>1. PICK x \in Nat, y \in Nat : x = E[k] /\ y = E[n]
      BY <2>3
    <3>2. x = b + l /\ x <= y
      BY <2>2, <2>3, <3>1
    <3>3. d <= y /\ d >= 1
      BY <2>4, <2>5, <3>2
    <3> QED
      BY <3>1, <3>3
  <2>7. pool[d] = <<k, v>>
    <3>1. pool[E[k - 1] + j] = <<k, P[k].stack[j]>>
      BY DEF Parts
    <3> QED
      BY <2>1, <2>2, <2>5, <3>1
  <2>8. ASSUME NEW i \in DOMAIN pool, pool[i] = <<k, v>>
        PROVE  i = d
    <3>1. PICK h \in 2 .. n : \E g \in 1 .. Len(P[h].stack) :
             i = E[h - 1] + g /\ pool[i] = <<h, P[h].stack[g]>>
      <4>1. pool[i] # SysArgs
        BY <1>4, <2>8
      <4>2. i \in 1 .. E[n]
        BY ONLY <1>1, <2>8
      <4> QED
        BY ONLY <1>3, <4>1, <4>2
    <3>2. PICK g \in 1 .. Len(P[h].stack) : i = E[h - 1] + g /\ pool[i] = <<h, P[h].stack[g]>>
      BY <3>1
    <3>3. h = k /\ P[h].stack[g] = v
      BY <2>8, <3>2
    <3>4. g = j
      BY <2>1, <3>3
    <3> QED
      BY <2>2, <2>5, <3>2, <3>3, <3>4
  <2> QED
    BY <1>1, <2>6, <2>7, <2>8, OneInPool
<1> QED
  BY <1>5, <1>6

(* A collection fixes each word that a plan keeps exactly once: those of   *)
(* the scanned stack there, any other because it is in the pool once.      *)
LEMMA KeptFixed ==
  ASSUME NEW n, NEW P, NEW E, NEW good, n >= 2,
         Good(frames, n, gcTop, caller, pool, sysargs, heap, P, E, good), P[n].gc = "in"
  PROVE  /\ \A s \in Slots : Fixes(<<1, s>>) = 1
         /\ \A k \in 2 .. n : \A v \in Kept(RoleOf(frames, k, gcTop), P[k]) : Fixes(<<k, v>>) = 1
         /\ sysargs # Int0 => Fixes(SysArgs) = 1
<1>1. n \in Nat /\ n \in 2 .. n
  BY DEF Good
<1>2. gcTop \in 0 .. n /\ gcTop # 0
  BY <1>1 DEF Good, TopSet
<1>3. ASSUME NEW k \in Nat, k # 0, NEW v
      PROVE  <<k, v>> # SysArgs /\ <<k, v>>[1] = k /\ <<k, v>>[2] = v
  <2>1. <<k, v>>[1] = k /\ SysArgs[1] = 0 /\ <<k, v>>[2] = v
    BY DEF SysArgs
  <2> QED
    BY <1>3, <2>1
<1>4. ASSUME NEW k \in Nat, k # 0, NEW v, k < gcTop \/ (k = gcTop /\ v \in frames[k].params)
      PROVE  Fixes(<<k, v>>) = 1
  <2>1. PICK c : c = <<k, v>>
    OBVIOUS
  <2>2. c # SysArgs /\ c[1] = k /\ c[2] = v
    BY <1>3, <1>4, <2>1
  <2>3. OnScannedStack(c)
    BY <1>4, <2>2 DEF OnScannedStack
  <2> QED
    BY <2>1, <2>3 DEF Fixes
<1>5. /\ sysargs # Int0 => TimesInPool(SysArgs) = 1
      /\ \A k \in 2 .. n : \A v \in Registered(P[k]) : TimesInPool(<<k, v>>) = 1
  <2>1. ASSUME NEW k \in 2 .. n
        PROVE  Valid(RoleOf(frames, k, gcTop), P[k])
    BY DEF Good, Follows
  <2>2. /\ \A k \in 2 .. n : \A i, j \in 1 .. Len(P[k].stack) :
             P[k].stack[i] = P[k].stack[j] => i = j
        /\ \A k \in 2 .. n : Len(P[k].stack) \in Nat
    BY <2>1 DEF Valid
  <2>3. Parts(n, P, E, pool, sysargs) /\ n >= 1
    BY DEF Good
  <2> QED
    BY <1>1, <2>2, <2>3, RegisteredOnce
<1>6. ASSUME NEW s \in Slots
      PROVE  Fixes(<<1, s>>) = 1
  <2>1. frames[1].params = Slots
    BY DEF Good, Shapes
  <2>2. 1 < gcTop \/ (1 = gcTop /\ s \in frames[1].params)
    BY <1>2, <2>1
  <2> QED
    BY <1>4, <2>2
<1>7. ASSUME NEW k \in 2 .. n, NEW v \in Kept(RoleOf(frames, k, gcTop), P[k])
      PROVE  Fixes(<<k, v>>) = 1
  <2>1. PICK r : r = RoleOf(frames, k, gcTop)
    OBVIOUS
  <2>2. r.own = Own(k, gcTop) /\ r.params = frames[k].params
    BY <2>1 DEF RoleOf, Role
  <2>3. CASE r.own /\ P[k].gc = "before"
    <3>1. k <= gcTop /\ k # gcTop
      BY <1>2, <2>2, <2>3 DEF Own, Good, TopSet
    <3> QED
      BY <1>1, <1>2, <1>4, <3>1
  <2>4. CASE ~(r.own /\ P[k].gc = "before")
    <3>1. v \in Registered(P[k]) \/ (r.own /\ v \in r.params)
      BY <2>1, <2>4 DEF Kept, Scanned
    <3>2. CASE v \in Registered(P[k])
      BY <1>5, <3>2 DEF Fixes
    <3>3. CASE r.own /\ v \in r.params
      <4>1. k <= gcTop
        BY <1>2, <2>2, <3>3 DEF Own
      <4>2. k < gcTop \/ (k = gcTop /\ v \in frames[k].params)
        BY <1>1, <1>2, <2>2, <3>3, <4>1
      <4> QED
        BY <1>1, <1>4, <4>2
    <3> QED
      BY <3>1, <3>2, <3>3
  <2> QED
    BY <2>3, <2>4
<1>8. sysargs # Int0 => Fixes(SysArgs) = 1
  <2>1. ~OnScannedStack(SysArgs)
    BY DEF OnScannedStack
  <2> QED
    BY <1>5, <2>1 DEF Fixes
<1> QED
  BY <1>6, <1>7, <1>8

(* What the collector can see, it keeps.                                   *)
LEMMA FixedIsRoot ==
  /\ Fixes(SysArgs) = 1 => sysargs \in RootWords
  /\ \A k \in DOMAIN frames : \A v \in DOMAIN frames[k].vars :
       k # 0 /\ Fixes(<<k, v>>) = 1 => frames[k].vars[v] \in RootWords
<1>1. ASSUME NEW c, Fixes(c) = 1
      PROVE  OnScannedStack(c) \/ TimesInPool(c) > 0
  BY <1>1 DEF Fixes
<1>2. ASSUME NEW c \in Cells, Fixes(c) = 1
      PROVE  WordIn(c) \in RootWords
  BY <1>1, <1>2 DEF RootWords
<1>3. SysArgs \in Cells /\ WordIn(SysArgs) = sysargs
  BY DEF Cells, WordIn
<1>4. ASSUME NEW k \in DOMAIN frames, NEW v \in DOMAIN frames[k].vars, k # 0
      PROVE  <<k, v>> \in Cells /\ WordIn(<<k, v>>) = frames[k].vars[v]
  <2>1. PICK c : c = <<k, v>>
    OBVIOUS
  <2>2. c[1] = k /\ c[2] = v
    BY <2>1
  <2>3. c # SysArgs
    BY <1>4, <2>2 DEF SysArgs
  <2>4. c \in Cells
    BY <2>1 DEF Cells
  <2> QED
    BY <2>1, <2>2, <2>3, <2>4 DEF WordIn
<1> QED
  BY <1>2, <1>3, <1>4

(* A word after a collection: it is good exactly when it was fixed once,   *)
(* or is no reference.                                                     *)
LEMMA MovedWord ==
  ASSUME NEW w, Word(w), NEW m
  PROVE  /\ Word(Moved(w, m)) /\ IsRef(Moved(w, m)) = IsRef(w)
         /\ IsRef(w) => Moved(w, m).obj = w.obj
         /\ m = 1 \/ ~IsRef(w) => Moved(w, m) = w
         /\ IsRef(w) /\ m # 1 => ~Moved(w, m).fresh
<1>1. w = [kind |-> w.kind, obj |-> w.obj, fresh |-> w.fresh] /\ w.kind \in {"int", "c", "ref"}
  BY DEF Word
<1>2. CASE m = 1 \/ ~IsRef(w)
  BY <1>2 DEF Moved
<1>3. CASE m # 1 /\ IsRef(w)
  <2>1. PICK k, o, b, c : k = w.kind /\ o = w.obj /\ b = w.fresh /\ c = FALSE
    OBVIOUS
  <2>2. PICK x : x = [kind |-> k, obj |-> o, fresh |-> c]
    OBVIOUS
  <2>3. Moved(w, m) = x
    <3>1. Moved(w, m) = [w EXCEPT !.fresh = FALSE]
      BY <1>3 DEF Moved
    <3>2. [w EXCEPT !.fresh = FALSE] = [w EXCEPT !.fresh = c]
      BY <2>1
    <3>3. w = [kind |-> k, obj |-> o, fresh |-> b]
      BY <1>1, <2>1
    <3>4. [w EXCEPT !.fresh = c] = x
      BY ONLY <2>2, <3>3
    <3> QED
      BY <3>1, <3>2, <3>4
  <2>4. x = [kind |-> x.kind, obj |-> x.obj, fresh |-> x.fresh]
    BY <2>2
  <2>5. x.kind = w.kind /\ x.obj = w.obj /\ x.fresh = FALSE
    BY <2>1, <2>2
  <2>6. Word(x) /\ (IsRef(x) <=> IsRef(w))
    BY <1>1, <2>4, <2>5 DEF Word, IsRef
  <2> QED
    BY <1>3, <2>3, <2>5, <2>6
<1> QED
  BY <1>2, <1>3

(* M are the n frames of F after a collection.                             *)
AllMoved(F, n, M) ==
  /\ Indexed(M, n)
  /\ \A k \in 1 .. n : \A names : FrameShape(F[k], names) =>
       /\ FrameShape(M[k], names) /\ SameFrame(F[k], M[k])
       /\ M[k].code = F[k].code /\ M[k].setTop = F[k].setTop
       /\ \A v \in names : M[k].vars[v] = Moved(F[k].vars[v], Fixes(<<k, v>>))

(* A collection moves the variables of every frame and changes nothing     *)
(* else there.                                                             *)
LEMMA MovedFrame ==
  ASSUME NEW n, n \in Nat, Indexed(frames, n)
  PROVE  AllMoved(frames, n, MovedFrames)
<1>0. PICK M : M = MovedFrames
  OBVIOUS
<1>1. DOMAIN frames = 1 .. n
  BY DEF Indexed
<1>2. /\ Indexed(M, n)
      /\ \A k \in 1 .. n : M[k] = [frames[k] EXCEPT !.vars =
            [v \in DOMAIN frames[k].vars |-> Moved(frames[k].vars[v], Fixes(<<k, v>>))]]
  BY <1>0, <1>1 DEF MovedFrames, Indexed
<1>3. ASSUME NEW k \in 1 .. n, NEW names, FrameShape(frames[k], names)
      PROVE  /\ FrameShape(M[k], names) /\ SameFrame(frames[k], M[k])
             /\ M[k].code = frames[k].code /\ M[k].setTop = frames[k].setTop
             /\ \A v \in names : M[k].vars[v] = Moved(frames[k].vars[v], Fixes(<<k, v>>))
  <2>1. PICK f, g : f = frames[k] /\ g = M[k]
    OBVIOUS
  <2>2. PICK x : x = [v \in DOMAIN f.vars |-> Moved(f.vars[v], Fixes(<<k, v>>))]
    OBVIOUS
  <2>3. g = [f EXCEPT !.vars = x]
    BY <1>2, <2>1, <2>2
  <2>4. FrameShape(f, names)
    BY <1>3, <2>1
  <2>5. DOMAIN f.vars = names
    BY <2>4 DEF FrameShape
  <2>6. PICK h : h = [fn |-> f.fn, code |-> f.code, params |-> f.params,
                      vars |-> x, setTop |-> f.setTop, result |-> f.result]
    OBVIOUS
  <2>7. g = h
    BY ONLY <2>3, <2>4, <2>6 DEF FrameShape
  <2>8. x = [v \in names |-> x[v]] /\ \A v \in names : x[v] = Moved(f.vars[v], Fixes(<<k, v>>))
    BY <2>2, <2>5
  <2>9. /\ g.fn = f.fn /\ g.code = f.code /\ g.params = f.params /\ g.vars = x
        /\ g.setTop = f.setTop /\ g.result = f.result
    BY <2>6, <2>7
  <2>10. FrameShape(g, names)
    BY <2>4, <2>6, <2>7, <2>8, <2>9 DEF FrameShape
  <2> QED
    BY <2>1, <2>8, <2>9, <2>10 DEF SameFrame
<1> QED
  BY <1>0, <1>2, <1>3 DEF AllMoved

(* The heap a collection leaves.                                           *)
LEMMA CollectedHeap ==
  ASSUME NEW n, NEW sys, NEW hq, Words(frames, n, sys, heap), Heap(heap), n = Len(frames),
         Indexed(frames, n), sys = sysargs, \A w \in RootWords : w.fresh,
         n \in Nat, hq = [j \in Reachable |-> heap[j]]
  PROVE  Heap(hq) /\ \A w \in RootWords : Leads(w, hq)
<1>1. ASSUME NEW w \in RootWords
      PROVE  Leads(w, heap)
  <2>1. PICK c \in Cells : w = WordIn(c)
    BY DEF RootWords
  <2>2. CASE c = SysArgs
    BY <2>1, <2>2 DEF WordIn, Words
  <2>3. CASE c # SysArgs
    <3>1. PICK k \in DOMAIN frames : c \in {<<k, v>> : v \in DOMAIN frames[k].vars}
      BY <2>3 DEF Cells
    <3>2. PICK v \in DOMAIN frames[k].vars : c = <<k, v>>
      BY <3>1
    <3>3. c[1] = k /\ c[2] = v
      BY <3>2
    <3>4. w = frames[k].vars[v]
      BY <2>1, <2>3, <3>3 DEF WordIn
    <3>5. k \in 1 .. n
      BY DEF Indexed
    <3> QED
      BY <3>4, <3>5 DEF Words
  <2> QED
    BY <2>2, <2>3
<1>2. ObjectsIn(RootWords) \subseteq DOMAIN heap
  BY <1>1 DEF ObjectsIn, Leads
<1>3. /\ ObjectsIn(RootWords) \subseteq Reachable /\ Reachable \subseteq DOMAIN heap
      /\ Wider(heap, Reachable) = Reachable
  BY <1>2, ReachableIsClosed
<1>4. PICK R : R = Reachable
  OBVIOUS
<1>5. DOMAIN hq = R /\ \A j \in R : hq[j] = heap[j] /\ j \in DOMAIN heap
  BY <1>3, <1>4
<1>6. IsFiniteSet(DOMAIN hq) /\ hq = [j \in DOMAIN hq |-> hq[j]]
  <2>1. IsFiniteSet(R)
    BY <1>3, <1>4, FS_Subset DEF Heap
  <2> QED
    BY <1>4, <1>5, <2>1
<1>7. ASSUME NEW o \in DOMAIN hq
      PROVE  /\ hq[o] = [type |-> hq[o].type, fields |-> hq[o].fields]
             /\ hq[o].fields = [i \in DOMAIN hq[o].fields |-> hq[o].fields[i]]
             /\ \A i \in DOMAIN hq[o].fields :
                  LET w == hq[o].fields[i] IN Word(w) /\ w.fresh /\ Leads(w, hq)
  <2>1. hq[o] = heap[o] /\ o \in DOMAIN heap /\ o \in R
    BY <1>5
  <2>2. ASSUME NEW i \in DOMAIN heap[o].fields, IsRef(heap[o].fields[i])
        PROVE  heap[o].fields[i].obj \in R
    <3>1. heap[o].fields[i] \in ToSet(heap[o].fields)
      BY DEF ToSet
    <3>2. heap[o].fields[i] \in UNION {ToSet(heap[j].fields) : j \in R}
      BY <2>1, <3>1
    <3>3. heap[o].fields[i].obj \in ObjectsIn(UNION {ToSet(heap[j].fields) : j \in R})
      BY <2>2, <3>2 DEF ObjectsIn
    <3> QED
      BY <1>3, <1>4, <3>3 DEF Wider
  <2> QED
    BY <1>5, <2>1, <2>2 DEF Heap, Leads
<1>8. \A w \in RootWords : Leads(w, hq)
  BY <1>3, <1>4, <1>5 DEF Leads, ObjectsIn
<1> QED
  BY <1>6, <1>7, <1>8 DEF Heap

(* A collection keeps what the waiting functions need.                     *)
LEMMA CollectedGood ==
  ASSUME NEW n, NEW P, NEW E, NEW good, NEW M, NEW hq, n >= 2, n = Len(frames),
         Good(frames, n, gcTop, caller, pool, sysargs, heap, P, E, good), P[n].gc = "in",
         M = MovedFrames, \A w \in RootWords : w.fresh, hq = [j \in Reachable |-> heap[j]]
  PROVE  /\ Good(M, n, gcTop, caller, pool, sysargs, hq, P, E, {})
         /\ Moved(sysargs, Fixes(SysArgs)) = sysargs
<1>1. PICK F, t : F = frames /\ t = gcTop
  OBVIOUS
<1>2. Good(F, n, t, caller, pool, sysargs, heap, P, E, good)
  BY <1>1
<1>3. /\ n \in Nat /\ n >= 1 /\ Indexed(F, n) /\ Words(F, n, sysargs, heap) /\ Heap(heap)
      /\ Shapes(F, n)
  BY <1>2 DEF Good, Shapes
<1>4. /\ \A s \in Slots : Fixes(<<1, s>>) = 1
      /\ \A k \in 2 .. n : \A v \in Kept(RoleOf(F, k, t), P[k]) : Fixes(<<k, v>>) = 1
      /\ sysargs # Int0 => Fixes(SysArgs) = 1
  BY <1>1, KeptFixed
<1>5. Heap(hq) /\ \A w \in RootWords : Leads(w, hq)
  BY <1>1, <1>3, CollectedHeap
<1>6. /\ Indexed(M, n)
      /\ \A k \in 1 .. n : \A names : FrameShape(F[k], names) =>
           /\ FrameShape(M[k], names) /\ SameFrame(F[k], M[k])
           /\ M[k].code = F[k].code /\ M[k].setTop = F[k].setTop
           /\ \A v \in names : M[k].vars[v] = Moved(F[k].vars[v], Fixes(<<k, v>>))
  <2>1. n \in Nat /\ Indexed(frames, n)
    BY <1>1, <1>3
  <2>2. AllMoved(frames, n, MovedFrames)
    BY ONLY <2>1, MovedFrame
  <2>3. AllMoved(F, n, M)
    BY ONLY <1>1, <2>2, M = MovedFrames
  <2> QED
    BY ONLY <2>3 DEF AllMoved
<1>7. 1 \in 1 .. n /\ FrameShape(F[1], Slots) /\ \A k \in 2 .. n : k \in 1 .. n /\ FrameShape(F[k], Names)
  BY <1>3 DEF Shapes
<1>8. ASSUME NEW k \in 1 .. n
      PROVE  /\ M[k].fn = F[k].fn /\ M[k].params = F[k].params /\ M[k].result = F[k].result
             /\ M[k].code = F[k].code /\ M[k].setTop = F[k].setTop
             /\ DOMAIN M[k].vars = DOMAIN F[k].vars
             /\ \A v \in DOMAIN F[k].vars : M[k].vars[v] = Moved(F[k].vars[v], Fixes(<<k, v>>))
  <2>1. PICK names : FrameShape(F[k], names)
    <3>1. k = 1 \/ k \in 2 .. n
      OBVIOUS
    <3> QED
      BY <1>7, <3>1
  <2>2. /\ FrameShape(M[k], names) /\ SameFrame(F[k], M[k])
        /\ M[k].code = F[k].code /\ M[k].setTop = F[k].setTop
        /\ \A v \in names : M[k].vars[v] = Moved(F[k].vars[v], Fixes(<<k, v>>))
    BY <1>6, <2>1
  <2>3. DOMAIN F[k].vars = names /\ DOMAIN M[k].vars = names
    BY <2>1, <2>2 DEF FrameShape
  <2> QED
    BY <2>2, <2>3 DEF SameFrame
<1>9. \A k \in 1 .. n : RoleOf(M, k, t) = RoleOf(F, k, t)
  BY <1>8 DEF RoleOf
<1>10. ASSUME NEW k \in 1 .. n, NEW v \in DOMAIN F[k].vars
       PROVE  /\ Word(M[k].vars[v]) /\ Leads(M[k].vars[v], hq)
              /\ (IsRef(M[k].vars[v]) <=> IsRef(F[k].vars[v]))
              /\ Fixes(<<k, v>>) = 1 \/ ~IsRef(F[k].vars[v]) => M[k].vars[v] = F[k].vars[v]
  <2>1. PICK m, w, x : m = Fixes(<<k, v>>) /\ w = F[k].vars[v] /\ x = M[k].vars[v]
    OBVIOUS
  <2>2. x = Moved(w, m)
    BY <1>8, <2>1
  <2>3. Word(w)
    BY <1>3, <2>1 DEF Words
  <2>4. /\ Word(x) /\ (IsRef(x) <=> IsRef(w)) /\ (m = 1 \/ ~IsRef(w) => x = w)
        /\ IsRef(w) /\ m # 1 => ~x.fresh
    BY <2>2, <2>3, MovedWord
  <2>5. m = 1 => w \in RootWords
    <3>1. k \in DOMAIN frames /\ k # 0 /\ v \in DOMAIN frames[k].vars
      BY <1>1, <1>3 DEF Indexed
    <3> QED
      BY <1>1, <2>1, <3>1, FixedIsRoot
  <2>6. Leads(x, hq)
    <3>1. CASE IsRef(x) /\ x.fresh
      BY <1>5, <2>4, <2>5, <3>1
    <3>2. CASE ~(IsRef(x) /\ x.fresh)
      BY <3>2 DEF Leads
    <3> QED
      BY <3>1, <3>2
  <2> QED
    BY <2>1, <2>4, <2>6
<1>11. Shapes(M, n)
  <2>1. FrameShape(M[1], Slots)
    BY <1>6, <1>7
  <2>2. \A k \in 2 .. n : FrameShape(M[k], Names)
    BY <1>6, <1>7
  <2>3. M[1].params = Slots
    BY <1>3, <1>7, <1>8 DEF Shapes
  <2> QED
    BY <1>6, <2>1, <2>2, <2>3 DEF Shapes
<1>12. Follows(M, n, t, P)
  <2>1. ASSUME NEW k \in 2 .. n
        PROVE  Planned(RoleOf(M, k, t), M[k].code, P[k]) /\ Valid(RoleOf(M, k, t), P[k])
    <3>1. RoleOf(M, k, t) = RoleOf(F, k, t) /\ M[k].code = F[k].code
      BY <1>7, <1>8, <1>9
    <3>2. Planned(RoleOf(F, k, t), F[k].code, P[k]) /\ Valid(RoleOf(F, k, t), P[k])
      BY <1>2 DEF Good, Follows
    <3> QED
      BY <3>1, <3>2
  <2> QED
    BY <2>1 DEF Follows
<1>13. Waits(M, n, t, P)
  <2>1. ASSUME NEW k \in 2 .. n, k < n
        PROVE  Awaits(M, k, t, P[k])
    <3>1. k \in 1 .. n /\ k + 1 \in 1 .. n
      BY <1>3, <2>1
    <3>2. /\ RoleOf(M, k, t) = RoleOf(F, k, t) /\ M[k].fn = F[k].fn
          /\ M[k + 1].fn = F[k + 1].fn /\ M[k + 1].result = F[k + 1].result
      BY <1>8, <1>9, <3>1
    <3>3. Awaits(F, k, t, P[k])
      BY <1>2, <2>1 DEF Good, Waits
    <3> QED
      BY <3>2, <3>3 DEF Awaits
  <2> QED
    BY <2>1 DEF Waits
<1>14. Begins(M, n, caller, sysargs)
  <2>1. 2 \in 1 .. n
    BY <1>3
  <2>2. M[2].fn = F[2].fn /\ M[2].result = F[2].result
    BY <1>8, <2>1
  <2> QED
    BY <1>2, <2>2 DEF Good, Begins
<1>15. TopSet(M, n, t, caller, P)
  <2>1. \A k \in 2 .. n : M[k].setTop = F[k].setTop
    BY <1>7, <1>8
  <2> QED
    BY <1>2, <2>1 DEF Good, TopSet
<1>16. Parts(n, P, E, pool, sysargs)
  BY <1>2 DEF Good
<1>17. Rooms(M, n, t, E)
  <2>1. ASSUME NEW k \in 2 .. n
        PROVE  RoleOf(M, k, t) = RoleOf(F, k, t) /\ M[k].fn = F[k].fn
    BY <1>7, <1>8, <1>9
  <2> QED
    BY <1>2, <2>1 DEF Good, Rooms
<1>18. Word(sysargs) /\ Leads(sysargs, hq) /\ sysargs.fresh /\ (sysargs = Int0 \/ IsRef(sysargs))
  <2>1. Word(sysargs) /\ Leads(sysargs, heap) /\ sysargs.fresh /\ (sysargs = Int0 \/ IsRef(sysargs))
    BY <1>3 DEF Words
  <2>2. sysargs # Int0 => sysargs \in RootWords
    BY <1>4, FixedIsRoot
  <2>3. sysargs = Int0 => ~IsRef(sysargs)
    BY DEF Int0, IsRef
  <2> QED
    BY <1>5, <2>1, <2>2, <2>3 DEF Leads
<1>19. Words(M, n, sysargs, hq)
  <2>1. \A k \in 1 .. n : \A v \in DOMAIN M[k].vars : Word(M[k].vars[v]) /\ Leads(M[k].vars[v], hq)
    BY <1>8, <1>10
  <2>2. ASSUME NEW s \in Slots
        PROVE  M[1].vars[s].fresh
    <3>1. s \in DOMAIN F[1].vars
      BY <1>7 DEF FrameShape
    <3>2. M[1].vars[s] = F[1].vars[s]
      BY <1>4, <1>7, <1>10, <3>1
    <3> QED
      BY <1>3, <3>2 DEF Words
  <2>3. ASSUME NEW k \in 2 .. n
        PROVE  M[k].vars["c"].fresh /\ ~IsRef(M[k].vars["c"])
    <3>1. "c" \in DOMAIN F[k].vars
      <4>1. DOMAIN F[k].vars = Names
        BY <1>7 DEF FrameShape
      <4>2. "c" \in Names
        BY DEF Names
      <4> QED
        BY <4>1, <4>2
    <3>2. F[k].vars["c"].fresh /\ ~IsRef(F[k].vars["c"])
      BY <1>3 DEF Words
    <3>3. M[k].vars["c"] = F[k].vars["c"]
      BY <1>7, <1>10, <3>1, <3>2
    <3> QED
      BY <3>2, <3>3
  <2> QED
    BY <1>18, <2>1, <2>2, <2>3 DEF Words
<1>20. Keeps(M, n, t, P, {})
  <2>1. ASSUME NEW k \in 2 .. n, NEW v \in Kept(RoleOf(F, k, t), P[k])
        PROVE  M[k].vars[v].fresh
    <3>1. v \in Names
      <4>1. Valid(RoleOf(F, k, t), P[k])
        BY <1>2 DEF Good, Follows
      <4> QED
        BY <4>1 DEF Valid
    <3>2. v \in DOMAIN F[k].vars
      BY <1>7, <3>1 DEF FrameShape
    <3>3. M[k].vars[v] = F[k].vars[v]
      BY <1>4, <1>7, <1>10, <3>2
    <3>4. F[k].vars[v].fresh
      BY <1>2 DEF Good, Keeps, Fresh
    <3> QED
      BY <3>3, <3>4
  <2>2. ASSUME NEW k \in 2 .. n, NEW A, Refs(F, k, A), A \subseteq Names
        PROVE  Refs(M, k, A)
    <3>1. DOMAIN F[k].vars = Names
      BY <1>7 DEF FrameShape
    <3> QED
      BY <1>7, <1>10, <2>2, <3>1 DEF Refs
  <2>3. ASSUME NEW k \in 2 .. n
        PROVE  Refs(M, k, IF k < n THEN P[k].refs \ {M[k + 1].result} ELSE P[k].refs)
    <3>1. P[k].refs \subseteq Names
      BY <1>2 DEF Good, Follows, Valid
    <3>2. CASE k < n
      <4>1. k + 1 \in 1 .. n
        BY <1>3, <3>2
      <4>2. M[k + 1].result = F[k + 1].result
        BY <1>8, <4>1
      <4>3. Refs(F, k, P[k].refs \ {F[k + 1].result})
        BY <1>2, <3>2 DEF Good, Keeps
      <4> QED
        BY <2>2, <3>1, <3>2, <4>2, <4>3
    <3>3. CASE ~(k < n)
      <4>1. Refs(F, k, P[k].refs)
        BY <1>2, <3>3 DEF Good, Keeps
      <4> QED
        BY <2>2, <3>1, <3>3, <4>1
    <3> QED
      BY <3>2, <3>3
  <2>4. \A k \in 2 .. n : RoleOf(M, k, t) = RoleOf(F, k, t)
    BY <1>7, <1>9
  <2> QED
    BY <2>1, <2>3, <2>4 DEF Keeps, Fresh
<1>21. Moved(sysargs, Fixes(SysArgs)) = sysargs
  <2>1. sysargs = Int0 => ~IsRef(sysargs)
    BY DEF Int0, IsRef
  <2> QED
    BY <1>4, <2>1 DEF Moved
<1>22. Good(M, n, t, caller, pool, sysargs, hq, P, E, {})
  BY <1>3, <1>5, <1>11, <1>12, <1>13, <1>14, <1>15, <1>16, <1>17, <1>19, <1>20 DEF Good
<1> QED
  BY <1>1, <1>21, <1>22

-----------------------------------------------------------------------------
(***************************************************************************)
(* New objects                                                             *)
(***************************************************************************)
LEMMA ObjectAdded ==
  ASSUME NEW hp, NEW k, NEW type, NEW n, NEW hq, Heap(hp),
         hq = WithObject(hp, k, Object(type, [i \in 1 .. n |-> Int0]))
  PROVE  Heap(hq) /\ DOMAIN hp \subseteq DOMAIN hq /\ k \in DOMAIN hq
<1>1. PICK ws, o : ws = [i \in 1 .. n |-> Int0] /\ o = [type |-> type, fields |-> ws]
  OBVIOUS
<1>2. hq = [j \in DOMAIN hp \cup {k} |-> IF j = k THEN o ELSE hp[j]]
  BY <1>1 DEF WithObject, Object
<1>3. IsFiniteSet(DOMAIN hp \cup {k})
  BY FS_AddElement DEF Heap
<1>4. DOMAIN hq = DOMAIN hp \cup {k}
  BY <1>2
<1>5. hq = [j \in DOMAIN hq |-> hq[j]]
  BY <1>2
<1>6. \A w : Leads(w, hp) => Leads(w, hq)
  BY <1>4 DEF Leads
<1>7. Word(Int0) /\ Int0.fresh /\ Leads(Int0, hq)
  BY DEF Word, Int0, Leads, IsRef
<1>8. ASSUME NEW j \in DOMAIN hq
      PROVE  /\ hq[j] = [type |-> hq[j].type, fields |-> hq[j].fields]
             /\ hq[j].fields = [i \in DOMAIN hq[j].fields |-> hq[j].fields[i]]
             /\ \A i \in DOMAIN hq[j].fields :
                  LET w == hq[j].fields[i] IN Word(w) /\ w.fresh /\ Leads(w, hq)
  <2>1. CASE j = k
    <3>1. hq[j] = o
      BY <1>2, <1>4, <2>1
    <3>2. o = [type |-> o.type, fields |-> o.fields] /\ o.fields = ws
      BY <1>1
    <3>3. ws = [i \in DOMAIN ws |-> ws[i]] /\ \A i \in DOMAIN ws : ws[i] = Int0
      BY <1>1
    <3> QED
      BY <1>7, <3>1, <3>2, <3>3
  <2>2. CASE j # k
    <3>1. hq[j] = hp[j] /\ j \in DOMAIN hp
      BY <1>2, <1>4, <2>2
    <3> QED
      BY <1>6, <3>1 DEF Heap
  <2> QED
    BY <2>1, <2>2
<1> QED
  BY <1>3, <1>4, <1>5, <1>8 DEF Heap

(* A reference to an object of the heap.                                   *)
LEMMA RefLeads ==
  ASSUME NEW k, NEW hp, k \in DOMAIN hp
  PROVE  Word(Ref(k)) /\ Ref(k).fresh /\ IsRef(Ref(k)) /\ Leads(Ref(k), hp)
BY DEF Word, Ref, IsRef, Leads

(* Of the innermost function's variables only v changes.                   *)
Gives(F, G, n, v, w) ==
  G[n].vars[v] = w /\ \A u \in Names : u # v => G[n].vars[u] = F[n].vars[u]

(* A variable gets a word that leads to an object, and nothing but what a  *)
(* collection keeps is known of the others any more.                       *)
LEMMA NewStep ==
  ASSUME NEW F, NEW n, NEW top, NEW who, NEW pl, NEW sys, NEW hp, NEW P, NEW E, NEW good,
         NEW B, NEW G, NEW hq, NEW i, NEW w,
         Good(F, n, top, who, pl, sys, hp, P, E, good), n >= 2,
         Learns(RoleOf(F, n, top), i, P[n], B), Valid(RoleOf(F, n, top), B),
         Planned(RoleOf(F, n, top), Tail(F[n].code), B),
         Local(F, G, n), Len(G) = n, G[n].code = Tail(F[n].code), G[n].setTop = F[n].setTop,
         Gives(F, G, n, i.v, w), Heap(hq), DOMAIN hp \subseteq DOMAIN hq,
         Word(w), w.fresh, IsRef(w), Leads(w, hq)
  PROVE  Inv(G, top, pl, sys, hq, who, "none")
<1>0. G[n].vars[i.v] = w /\ \A u \in Names : u # i.v => G[n].vars[u] = F[n].vars[u]
  BY DEF Gives
<1> USE <1>0
<1>1. /\ n \in Nat /\ n \in 2 .. n /\ ~(n < n) /\ Shapes(F, n) /\ Words(F, n, sys, hp)
      /\ TopSet(F, n, top, who, P) /\ Parts(n, P, E, pl, sys)
  BY DEF Good
<1>2. /\ Assigned(RoleOf(F, n, top), P[n], i.v) /\ Stays(P[n], B) /\ B.refs \subseteq P[n].refs \cup {i.v}
      /\ B.good \subseteq Kept(RoleOf(F, n, top), P[n]) \cup {i.v, "c"}
  BY DEF Learns
<1>3. i.v \in Names /\ i.v # "c"
  BY <1>2 DEF Assigned
<1>4. Fresh(F, n, Kept(RoleOf(F, n, top), P[n])) /\ Refs(F, n, P[n].refs)
  BY <1>1 DEF Good, Keeps
<1>5. B.refs \subseteq Names /\ B.good \subseteq Names
  BY DEF Valid
<1>6. Words(G, n, sys, hq)
  <2>1. \A u \in Names : \/ G[n].vars[u] = F[n].vars[u]
                         \/ u # "c" /\ Word(G[n].vars[u]) /\ Leads(G[n].vars[u], hq)
    BY <1>3
  <2> QED
    BY <1>1, <2>1, WordsStep
<1>7. Fresh(G, n, B.good)
  <2>1. ASSUME NEW u \in B.good
        PROVE  G[n].vars[u].fresh
    <3>1. u = i.v \/ u = "c" \/ u \in Kept(RoleOf(F, n, top), P[n])
      BY <1>2
    <3>2. F[n].vars["c"].fresh
      BY <1>1 DEF Words
    <3>3. u # i.v => F[n].vars[u].fresh
      BY <1>4, <3>1, <3>2 DEF Fresh
    <3> QED
      BY <1>5, <3>3
  <2> QED
    BY <2>1 DEF Fresh
<1>8. Refs(G, n, B.refs)
  <2>1. ASSUME NEW u \in B.refs
        PROVE  IsRef(G[n].vars[u])
    <3>1. u # i.v => IsRef(F[n].vars[u])
      BY <1>2, <1>4 DEF Refs
    <3> QED
      BY <1>5, <3>1
  <2> QED
    BY <2>1 DEF Refs
<1>9. PICK Q : Q = Further(P, n, B)
  OBVIOUS
<1>10. LocalPlans(P, Q, n) /\ Q[n] = B
  BY <1>1, <1>9, FurtherPlans
<1>11. Q[n].gc = P[n].gc /\ Q[n].stack = P[n].stack
  BY <1>2, <1>10 DEF Stays
<1>12. TopSet(G, n, top, who, Q) /\ LocalTop(top, top, n)
  BY <1>1, <1>10, <1>11, SameTop
<1>13. Parts(n, Q, E, pl, sys)
  BY <1>1, <1>10, <1>11, SameParts
<1>14. Planned(RoleOf(F, n, top), G[n].code, Q[n]) /\ Valid(RoleOf(F, n, top), Q[n])
  BY <1>10
<1>15. Good(G, n, top, who, pl, sys, hq, Q, E, Q[n].good)
  <2>1. /\ \A k \in 1 .. n : k < n => E[k] = E[k]
        /\ Fresh(G, n, Q[n].good) /\ Refs(G, n, Q[n].refs)
    BY <1>7, <1>8, <1>10
  <2>2. Framed(F, n, top, who, sys, P, E)
    BY GoodIsFramed
  <2> QED
    BY ONLY n >= 2, Local(F, G, n), Heap(hq),
            <1>6, <1>10, <1>12, <1>13, <1>14, <2>1, <2>2, LocalStep
<1>16. Base(G, n, top, pl, sys, hq, Q, E)
  BY <1>15, BaseOfGood
<1> QED
  BY <1>15, <1>16 DEF Inv

(* An allocation, with a collection before it or without.                  *)
LEMMA NewObjectKeeps ==
  ASSUME RRInv, NewObject
  PROVE  RRInv'
<1>1. InCall
  BY DEF NewObject
<1>2. PICK P, E, B, n : /\ Ready(frames, n, gcTop, caller, pool, sysargs, heap, P, E, B)
                        /\ This = frames[n]
  BY <1>1, InnerReady
<1>3. PICK F, f, G : F = frames /\ f = F[n] /\ G = frames'
  OBVIOUS
<1>4. PICK w, k : k = NewNumber /\ w = Ref(k)
  OBVIOUS
<1>5. Ready(F, n, gcTop, caller, pool, sysargs, heap, P, E, B)
  BY <1>2, <1>3
<1>6. /\ n \in Nat /\ n >= 2 /\ n \in 2 .. n /\ n \in 1 .. n /\ Indexed(F, n)
      /\ FrameShape(f, Names) /\ Valid(RoleOf(F, n, gcTop), P[n])
      /\ Fresh(F, n, P[n].good) /\ Refs(F, n, P[n].refs)
      /\ TopSet(F, n, gcTop, caller, P) /\ Waits(F, n, gcTop, P) /\ Shapes(F, n)
      /\ Parts(n, P, E, pool, sysargs) /\ Heap(heap) /\ Words(F, n, sysargs, heap)
  BY <1>3, <1>5, ReadyFacts
<1>7. Instr = Head(F[n].code) /\ MayStep(RoleOf(F, n, gcTop), Instr, P[n], B)
  BY <1>2, <1>3, <1>5 DEF Instr, Ready
<1>8. /\ NewRule(RoleOf(F, n, gcTop), Instr, P[n], B) /\ Valid(RoleOf(F, n, gcTop), B)
      /\ Instr.do = "new"
  <2>1. Instr.do = "new"
    BY DEF NewObject
  <2> QED
    BY <1>6, <1>7, <2>1, RuleFor
<1>9. Stays(P[n], B) /\ Assigned(RoleOf(F, n, gcTop), P[n], Instr.v)
  BY <1>8 DEF NewRule, Learns
<1>10. Instr.v \in Names /\ Instr.v # "c"
  BY <1>9 DEF Assigned
<1>11. ASSUME NEW M, NEW hp, NEW hq, NEW good,
              Good(M, n, gcTop, caller, pool, sysargs, hp, P, E, good),
              RoleOf(M, n, gcTop) = RoleOf(F, n, gcTop), M[n].code = F[n].code,
              G = Atop(Front(M), Given(Advanced(M[n]), Instr.v, w)),
              hq = WithObject(hp, k, Object(Instr.type, [j \in 1 .. Instr.n |-> Int0]))
       PROVE  Inv(G, gcTop, pool, sysargs, hq, caller, "none")
  <2>1. Indexed(M, n) /\ FrameShape(M[n], Names) /\ Heap(hp)
    BY <1>6, <1>11 DEF Good, Shapes
  <2>2. PICK a, g : a = Advanced(M[n]) /\ g = Given(a, Instr.v, w)
    OBVIOUS
  <2>3. /\ FrameShape(a, Names) /\ SameFrame(M[n], a) /\ a.code = Tail(M[n].code)
        /\ a.vars = M[n].vars /\ a.setTop = M[n].setTop
    BY <2>1, <2>2, AdvancedFrame
  <2>4. g = Given(a, Instr.v, w)
    BY <2>2
  <2>5. /\ FrameShape(g, Names) /\ SameFrame(a, g) /\ g.code = a.code /\ g.setTop = a.setTop
        /\ g.vars[Instr.v] = w /\ \A u \in Names : u # Instr.v => g.vars[u] = a.vars[u]
    BY ONLY <1>10, <2>3, <2>4, GivenFrame
  <2>6. SameFrame(M[n], g)
    BY <2>3, <2>5 DEF SameFrame
  <2>7. G = Atop(Front(M), g)
    BY <1>11, <2>2
  <2>8. Local(M, G, n) /\ G[n] = g /\ Len(G) = n
    BY ONLY <1>6, <2>1, <2>5, <2>6, <2>7, InnerReplaced
  <2>9. Heap(hq) /\ DOMAIN hp \subseteq DOMAIN hq /\ k \in DOMAIN hq
    BY <1>11, <2>1, ObjectAdded
  <2>10. Word(w) /\ w.fresh /\ IsRef(w) /\ Leads(w, hq)
    BY <1>4, <2>9, RefLeads
  <2>11. Planned(RoleOf(M, n, gcTop), Tail(M[n].code), B)
    BY <1>5, <1>11 DEF Ready
  <2>12. Learns(RoleOf(M, n, gcTop), Instr, P[n], B) /\ Valid(RoleOf(M, n, gcTop), B)
    BY <1>8, <1>11 DEF NewRule
  <2>13. /\ G[n].code = Tail(M[n].code) /\ G[n].setTop = M[n].setTop
         /\ Gives(M, G, n, Instr.v, w)
    BY <2>3, <2>5, <2>8 DEF Gives
  <2> QED
    BY ONLY <1>6, <1>11, <2>8, <2>9, <2>10, <2>11, <2>12, <2>13, NewStep
<1>12. Good(F, n, gcTop, caller, pool, sysargs, heap, P, E, P[n].good)
  BY <1>5 DEF Ready
<1>13. PICK o : o = Object(Instr.type, [j \in 1 .. Instr.n |-> Int0])
  OBVIOUS
<1>14. CASE /\ heap' = WithObject(heap, k, o)
            /\ frames' = WithThis([Stepped EXCEPT !.vars[Instr.v] = Ref(k)])
            /\ UNCHANGED sysargs
  <2>1. G = Atop(Front(F), Given(Advanced(F[n]), Instr.v, w))
    BY <1>2, <1>3, <1>4, <1>14 DEF WithThis, Stepped, Advanced, Given, Atop
  <2>2. PICK hq : hq = WithObject(heap, k, o)
    OBVIOUS
  <2>3. Inv(G, gcTop, pool, sysargs, hq, caller, "none")
    BY <1>11, <1>12, <1>13, <2>1, <2>2
  <2> QED
    BY <1>3, <1>14, <2>2, <2>3 DEF NewObject, RRInv, InCall, poolVars
<1>15. CASE /\ \A x \in RootWords : x.fresh
            /\ heap' = WithObject([j \in Reachable |-> heap[j]], k, o)
            /\ frames' = Append(Front(MovedFrames),
                                [Last(MovedFrames) EXCEPT !.code = Tail(@), !.vars[Instr.v] = Ref(k)])
            /\ sysargs' = Moved(sysargs, Fixes(SysArgs))
  <2>1. PICK M, hp : M = MovedFrames /\ hp = [j \in Reachable |-> heap[j]]
    OBVIOUS
  <2>2. n = Len(frames) /\ P[n].gc = "in"
    BY <1>3, <1>5, <1>8 DEF Ready, NewRule
  <2>3. /\ Good(M, n, gcTop, caller, pool, sysargs, hp, P, E, {})
        /\ Moved(sysargs, Fixes(SysArgs)) = sysargs
    BY <1>3, <1>6, <1>12, <1>15, <2>1, <2>2, CollectedGood
  <2>4. RoleOf(M, n, gcTop) = RoleOf(F, n, gcTop) /\ M[n].code = F[n].code
    <3>1. SameFrame(F[n], M[n]) /\ M[n].code = F[n].code
      <4>1. n \in Nat /\ Indexed(frames, n)
        BY <1>3, <1>6
      <4>2. AllMoved(frames, n, MovedFrames)
        BY ONLY <4>1, MovedFrame
      <4> QED
        BY <1>3, <1>6, <2>1, <4>2 DEF AllMoved
    <3> QED
      BY <3>1 DEF SameFrame, RoleOf
  <2>5. Last(M) = M[n]
    <3>1. PICK m \in Nat : n = m + 1
      BY <1>6, n - 1 \in Nat /\ n = n - 1 + 1
    <3>2. Indexed(M, n)
      BY <2>3 DEF Good, Shapes
    <3> QED
      BY <1>6, <3>1, <3>2, Popped
  <2>6. G = Atop(Front(M), Given(Advanced(M[n]), Instr.v, w))
    BY <1>3, <1>4, <1>15, <2>1, <2>5 DEF Advanced, Given, Atop
  <2>7. PICK hq : hq = WithObject(hp, k, o)
    OBVIOUS
  <2>8. Inv(G, gcTop, pool, sysargs, hq, caller, "none")
    BY <1>11, <1>13, <2>3, <2>4, <2>6, <2>7
  <2> QED
    BY <1>3, <1>15, <2>1, <2>3, <2>7, <2>8 DEF NewObject, RRInv, InCall, poolVars
<1> QED
  BY <1>4, <1>13, <1>14, <1>15 DEF NewObject

-----------------------------------------------------------------------------
(***************************************************************************)
(* Calls and returns                                                       *)
(***************************************************************************)

(* The plan of a function that is entered with these references.           *)
Entry(refs) == Plan(<< >>, "before", refs, Names)

(* The plan of a function that is entered: no roots, before PRE_GC, all of *)
(* its words good.                                                         *)
LEMMA EntryPlan ==
  ASSUME NEW refs
  PROVE  /\ Entry(refs).stack = << >> /\ Len(Entry(refs).stack) = 0 /\ Entry(refs).gc = "before"
         /\ Entry(refs).refs = refs /\ Entry(refs).good = Names
BY DEF Entry, Plan

(* It is a valid one.                                                      *)
LEMMA EntryValid ==
  ASSUME NEW r, Room(r) \in Nat, r.params \subseteq Names, NEW refs, refs \subseteq Names
  PROVE  Valid(r, Entry(refs))
<1>1. Scanned(r) \subseteq Names
  BY DEF Scanned
<1> QED
  BY <1>1, ValidNone DEF Entry

(* Every function that another one calls has a planned script.             *)
LEMMA CalleePlanned ==
  ASSUME NEW r, NEW f, NEW n, f \in Callees, n \in 0 .. MaxValues,
         r.fn = f, r.params = ToSet(Parameters(f, n))
  PROVE  Planned(r, Code(f, n), Entry({})) /\ Valid(r, Entry({})) /\ r.params \subseteq Names \ {"c"}
<1>1. /\ ToSet(<< >>) = {} /\ ToSet(<<"p">>) = {"p"}
      /\ ToSet(ValueNames(n)) \subseteq Names \ {"c"}
  BY ToSetSmall, FirstNames
<1>2. r.params \subseteq Names \ {"c"}
  BY <1>1 DEF Parameters, Callees, Names
<1>3. Room(r) \in Nat
  BY DEF Room, RoomOf, Callees
<1>4. Valid(r, Entry({}))
  BY <1>2, <1>3, EntryValid
<1>5. CASE f = "LmakeString"
  <2>1. r.params = {} /\ r.fn = "LmakeString" /\ Code(f, n) = LmakeString
    BY <1>1, <1>5 DEF Parameters, Code
  <2> QED
    BY <1>2, <1>4, <2>1, LmakeStringPlanned DEF Entry
<1>6. CASE f = "LmakeArray"
  <2>1. r.params = {} /\ r.fn = "LmakeArray" /\ Code(f, n) = LmakeArray(n)
    BY <1>1, <1>6 DEF Parameters, Code
  <2> QED
    BY <1>2, <1>4, <2>1, LmakeArrayPlanned DEF Entry
<1>7. CASE f = "Bstring"
  <2>1. r.params = {"p"} /\ r.fn = "Bstring" /\ Code(f, n) = Bstring
    BY <1>1, <1>7 DEF Parameters, Code
  <2> QED
    BY <1>2, <1>4, <2>1, BstringPlanned DEF Entry
<1>8. CASE f = "Bsexp"
  <2>1. r.params = ToSet(ValueNames(n)) /\ r.fn = "Bsexp" /\ Code(f, n) = Bsexp(n)
    BY <1>8 DEF Parameters, Code
  <2> QED
    BY <1>2, <1>4, <2>1, BsexpPlanned DEF Entry
<1> QED
  BY <1>5, <1>6, <1>7, <1>8 DEF Callees

(* The words of a function that is entered.                                *)
Handed(words, hp) == \A j \in DOMAIN words : Word(words[j]) /\ words[j].fresh /\ Leads(words[j], hp)

Enters(fr, f, code, params, words, result) == fr = Frame(f, code, params, words, result)

(* The frame of a function that is entered.                                *)
LEMMA EnteredFrame ==
  ASSUME NEW f, NEW code, NEW params, NEW words, NEW result, NEW hp, NEW fr,
         Enters(fr, f, code, params, words, result),
         ToSet(params) \subseteq Names \ {"c"}, DOMAIN words = DOMAIN params, Handed(words, hp)
  PROVE  /\ FrameShape(fr, Names) /\ fr.fn = f /\ fr.code = code /\ fr.params = ToSet(params)
         /\ ~fr.setTop /\ fr.result = result
         /\ \A v \in Names : /\ Word(fr.vars[v]) /\ fr.vars[v].fresh /\ Leads(fr.vars[v], hp)
                             /\ v \in ToSet(params) => \E j \in DOMAIN params : fr.vars[v] = words[j]
         /\ ~IsRef(fr.vars["c"])
<1>1. PICK x, s, b : x = Entered(params, words) /\ s = ToSet(params) /\ b = FALSE
  OBVIOUS
<1>2. PICK h : h = [fn |-> f, code |-> code, params |-> s, vars |-> x, setTop |-> b, result |-> result]
  OBVIOUS
<1>3. fr = h
  <2>1. fr = [fn |-> f, code |-> code, params |-> s, vars |-> x, setTop |-> FALSE, result |-> result]
    BY <1>1 DEF Enters, Frame
  <2>2. fr = [fn |-> f, code |-> code, params |-> s, vars |-> x, setTop |-> b, result |-> result]
    BY <1>1, <2>1
  <2> QED
    BY <1>2, <2>2
<1>4. x = [v \in Names |->
             IF \E i \in DOMAIN params : params[i] = v
               THEN words[CHOOSE i \in DOMAIN params : params[i] = v]
               ELSE IF v = "c" THEN CString ELSE Int0]
  BY <1>1 DEF Entered
<1>5. /\ Word(Int0) /\ Int0.fresh /\ Leads(Int0, hp) /\ ~IsRef(Int0)
      /\ Word(CString) /\ CString.fresh /\ Leads(CString, hp) /\ ~IsRef(CString)
  BY DEF Word, Int0, CString, Leads, IsRef
<1>6. ASSUME NEW v \in Names
      PROVE  /\ Word(x[v]) /\ x[v].fresh /\ Leads(x[v], hp)
             /\ v \in s => \E j \in DOMAIN params : x[v] = words[j]
  <2>1. CASE v \in s
    <3>1. \E i \in DOMAIN params : params[i] = v
      BY <1>1, <2>1 DEF ToSet
    <3>2. PICK j : j = CHOOSE i \in DOMAIN params : params[i] = v
      OBVIOUS
    <3>3. j \in DOMAIN params
      BY <3>1, <3>2
    <3>4. x[v] = words[j]
      BY <1>4, <3>1, <3>2
    <3> QED
      BY <3>3, <3>4 DEF Handed
  <2>2. CASE v \notin s
    <3>1. ~(\E i \in DOMAIN params : params[i] = v)
      BY <1>1, <2>2 DEF ToSet
    <3>2. x[v] = CString \/ x[v] = Int0
      BY <1>4, <3>1
    <3> QED
      BY <1>5, <2>2, <3>2
  <2> QED
    BY <2>1, <2>2
<1>7. ~IsRef(x["c"])
  <2>1. "c" \in Names /\ "c" \notin s
    BY <1>1 DEF Names
  <2>2. ~(\E i \in DOMAIN params : params[i] = "c")
    BY <1>1, <2>1 DEF ToSet
  <2>3. x["c"] = CString
    BY <1>4, <2>1, <2>2
  <2> QED
    BY <1>5, <2>3
<1>8. x = [v \in Names |-> x[v]]
  BY <1>4
<1>9. /\ h.fn = f /\ h.code = code /\ h.params = s /\ h.vars = x /\ h.setTop = b /\ h.result = result
      /\ h = [fn |-> h.fn, code |-> h.code, params |-> h.params,
              vars |-> h.vars, setTop |-> h.setTop, result |-> h.result]
  BY <1>2
<1>10. FrameShape(h, Names)
  BY <1>1, <1>8, <1>9 DEF FrameShape
<1> QED
  BY <1>1, <1>3, <1>6, <1>7, <1>9, <1>10

-----------------------------------------------------------------------------
(***************************************************************************)
(* A frame more, and one less                                              *)
(***************************************************************************)
(* A function that is entered has no roots yet,                            *)
LEMMA PartsEntered ==
  ASSUME NEW n, NEW m, NEW Q, NEW E, NEW pl, NEW sys, NEW R, NEW D, NEW e,
         n \in Nat, n >= 1, m = n + 1, Parts(n, Q, E, pl, sys),
         \A k \in 1 .. n : R[k] = Q[k] /\ D[k] = E[k],
         Len(R[m].stack) = 0, e = E[n], D[m] = e
  PROVE  Parts(m, R, D, pl, sys)
<1>1. /\ e \in Nat /\ Indexed(pl, D[m]) /\ D[n] = e
      /\ \A k \in 1 .. n : D[k] \in Nat /\ D[k] <= e
  <2>1. n \in 1 .. n
    OBVIOUS
  <2>2. \A k \in 1 .. n : E[k] \in Nat /\ E[k] <= E[n]
    <3>1. \A k \in 1 .. n : E[k] \in Nat
      BY DEF Parts
    <3>2. \A k \in 1 .. n : E[k] <= E[n]
      <4>1. \A k, l \in 1 .. n : k <= l => E[k] <= E[l]
        BY DEF Parts
      <4> QED
        BY ONLY <2>1, <4>1, n \in Nat
    <3> QED
      BY ONLY <3>1, <3>2
  <2>3. Indexed(pl, E[n])
    BY DEF Parts
  <2> QED
    BY <2>1, <2>2, <2>3
<1>2. \A k \in 1 .. m : k \in 1 .. n \/ k = m
  OBVIOUS
<1>3. \A k, l \in 1 .. m : k <= l => D[k] <= D[l]
  <2>1. \A k, l \in 1 .. n : k <= l => D[k] <= D[l]
    BY DEF Parts
  <2> QED
    BY <1>1, <1>2, <2>1
<1>4. D[1] = (IF sys = Int0 THEN 0 ELSE 1)
  <2>1. 1 \in 1 .. n
    OBVIOUS
  <2> QED
    BY <2>1 DEF Parts
<1>5. ASSUME NEW k \in 2 .. n
      PROVE  /\ k \in 1 .. n /\ k - 1 \in 1 .. n /\ R[k] = Q[k] /\ D[k] = E[k] /\ D[k - 1] = E[k - 1]
  OBVIOUS
<1>6. ASSUME NEW k \in 2 .. m
      PROVE  k \in 2 .. n \/ (k = m /\ k - 1 = n)
  OBVIOUS
<1>7. ASSUME NEW k \in 2 .. m
      PROVE  D[k] = D[k - 1] + Len(R[k].stack)
  <2>1. CASE k \in 2 .. n
    <3>1. E[k] = E[k - 1] + Len(Q[k].stack)
      BY <2>1 DEF Parts
    <3> QED
      BY ONLY <1>5, <2>1, <3>1
  <2>2. CASE k = m /\ k - 1 = n
    <3>1. R[k].stack = R[m].stack /\ D[k] = e /\ D[k - 1] = e
      BY ONLY <1>1, <2>2, D[m] = e
    <3>2. Len(R[k].stack) = 0
      BY ONLY <3>1, Len(R[m].stack) = 0
    <3> QED
      BY ONLY <1>1, <3>1, <3>2
  <2> QED
    BY <1>6, <2>1, <2>2
<1>8. ASSUME NEW k \in 2 .. m, NEW j \in 1 .. Len(R[k].stack)
      PROVE  pl[D[k - 1] + j] = <<k, R[k].stack[j]>>
  <2>1. CASE k \in 2 .. n
    <3>1. \A i \in 1 .. Len(Q[k].stack) : pl[E[k - 1] + i] = <<k, Q[k].stack[i]>>
      BY <2>1 DEF Parts
    <3>2. R[k] = Q[k] /\ D[k - 1] = E[k - 1]
      BY ONLY <1>5, <2>1
    <3>3. j \in 1 .. Len(Q[k].stack) /\ R[k].stack[j] = Q[k].stack[j]
      BY <1>8, <3>2
    <3> QED
      BY ONLY <3>1, <3>2, <3>3
  <2>2. CASE k = m
    BY <1>8, <2>2
  <2> QED
    BY <1>6, <2>1, <2>2
<1>9. ASSUME NEW i \in 1 .. D[m], ~(i = 1 /\ sys # Int0)
      PROVE  \E k \in 2 .. m : InPart(k, R, D, pl, i)
  <2>1. PICK k \in 2 .. n : InPart(k, Q, E, pl, i)
    BY <1>9 DEF Parts
  <2>2. InPart(k, R, D, pl, i)
    BY <1>5, <2>1 DEF InPart
  <2>3. k \in 2 .. m
    OBVIOUS
  <2> QED
    BY <2>2, <2>3
<1>10. sys # Int0 => pl[1] = SysArgs
  BY DEF Parts
<1>11. \A k \in 1 .. m : D[k] \in Nat
  BY <1>1, <1>2
<1> QED
  BY <1>1, <1>3, <1>4, <1>7, <1>8, <1>9, <1>10, <1>11 DEF Parts

(* and one that ends has none any more.                                    *)
LEMMA PartsLeft ==
  ASSUME NEW n, NEW m, NEW P, NEW E, NEW pl, NEW sys, n \in Nat, n >= 1, m = n + 1,
         Parts(m, P, E, pl, sys), Len(P[m].stack) = 0
  PROVE  Parts(n, P, E, pl, sys) /\ E[m] = E[n]
<1>1. \A k \in 1 .. n : k \in 1 .. m
  OBVIOUS
<1>2. \A k \in 2 .. n : k \in 2 .. m
  OBVIOUS
<1>3. \A k \in 1 .. m : E[k] \in Nat
  BY DEF Parts
<1>4. E[m] = E[n]
  <2>1. m \in 2 .. m /\ m - 1 = n /\ n \in 1 .. m
    OBVIOUS
  <2>2. E[m] = E[n] + 0
    BY <2>1 DEF Parts
  <2> QED
    BY <1>3, <2>1, <2>2
<1>5. ASSUME NEW i \in 1 .. E[n], ~(i = 1 /\ sys # Int0)
      PROVE  \E k \in 2 .. n : InPart(k, P, E, pl, i)
  <2>1. PICK k \in 2 .. m : InPart(k, P, E, pl, i)
    BY <1>4, <1>5 DEF Parts
  <2>2. k # m
    BY <2>1 DEF InPart
  <2>3. k \in 2 .. n
    BY <2>2
  <2> QED
    BY <2>1, <2>3
<1> QED
  BY <1>1, <1>2, <1>3, <1>4, <1>5 DEF Parts

(* All functions but the next one to be entered.                           *)
Rest(H, n, top, who, pl, sys, hp, Q, E) ==
  /\ n \in Nat /\ n >= 1
  /\ Shapes(H, n) /\ Follows(H, n, top, Q) /\ Waits(H, n, top, Q) /\ TopSet(H, n, top, who, Q)
  /\ Parts(n, Q, E, pl, sys) /\ Rooms(H, n, top, E) /\ Words(H, n, sys, hp) /\ Heap(hp)
  /\ \A k \in 2 .. n : Fresh(H, k, Kept(RoleOf(H, k, top), Q[k]))

(* The frame of a function, as it is entered.                              *)
Fits(fr, hp, refs) ==
  /\ FrameShape(fr, Names) /\ ~fr.setTop
  /\ \A v \in Names : Word(fr.vars[v]) /\ fr.vars[v].fresh /\ Leads(fr.vars[v], hp)
  /\ ~IsRef(fr.vars["c"])
  /\ refs \subseteq Names /\ \A v \in refs : IsRef(fr.vars[v])

(* Entering a function that is planned keeps the invariant.                *)
LEMMA EnterInv ==
  ASSUME NEW H, NEW n, NEW m, NEW top, NEW who, NEW pl, NEW sys, NEW hp, NEW Q, NEW E,
         NEW fr, NEW refs, NEW G, NEW r,
         Rest(H, n, top, who, pl, sys, hp, Q, E), m = n + 1, Fits(fr, hp, refs), G = Atop(H, fr),
         n >= 2 => Awaits(G, n, top, Q[n]),
         \A k \in 2 .. n : Refs(G, k, Q[k].refs \ {G[k + 1].result}),
         r = Role(Own(m, top), fr.fn, fr.params),
         Planned(r, fr.code, Entry(refs)), Valid(r, Entry(refs)),
         fr.fn # "Bclosure" => E[n] + Room(r) <= 3,
         Begins(G, m, who, sys)
  PROVE  Inv(G, top, pl, sys, hp, who, "none")
<1>1. /\ n \in Nat /\ n >= 1 /\ m \in Nat /\ m >= 2 /\ top \in 0 .. n /\ m \in 1 .. m /\ m \in 2 .. m
      /\ Indexed(H, n) /\ n \in 1 .. n /\ n \in 1 .. m
  BY DEF Rest, Shapes, TopSet
<1>2. Indexed(G, m) /\ G[m] = fr /\ Len(G) = m /\ \A k \in 1 .. n : G[k] = H[k]
  <2>1. Indexed(G, m) /\ G[m] = fr /\ \A k \in 1 .. n : G[k] = H[k]
    BY <1>1, Grown
  <2> QED
    BY <1>1, <2>1, IndexedLen
<1>3. PICK R, D : /\ R = [k \in 1 .. m |-> IF k = m THEN Entry(refs) ELSE Q[k]]
                  /\ D = [k \in 1 .. m |-> IF k = m THEN E[n] ELSE E[k]]
  OBVIOUS
<1>4. /\ R[m] = Entry(refs) /\ D[m] = E[n]
      /\ \A k \in 1 .. n : R[k] = Q[k] /\ D[k] = E[k]
  BY <1>1, <1>3
<1>5. \A k \in 2 .. m : k = m \/ (k \in 2 .. n /\ k < m /\ k \in 1 .. n)
  BY <1>1
<1>6. RoleOf(G, m, top) = r /\ \A k \in 2 .. n : RoleOf(G, k, top) = RoleOf(H, k, top)
  BY <1>2, <1>5 DEF RoleOf
<1>7. Shapes(G, m)
  <2>1. 1 \in 1 .. n
    BY <1>1
  <2>2. FrameShape(G[1], Slots) /\ G[1].params = Slots
    BY <1>2, <2>1 DEF Rest, Shapes
  <2>3. \A k \in 2 .. m : FrameShape(G[k], Names)
    BY <1>2, <1>5 DEF Rest, Shapes, Fits
  <2> QED
    BY <1>2, <2>2, <2>3 DEF Shapes
<1>8. Follows(G, m, top, R)
  <2>1. ASSUME NEW k \in 2 .. m
        PROVE  Planned(RoleOf(G, k, top), G[k].code, R[k]) /\ Valid(RoleOf(G, k, top), R[k])
    <3>1. CASE k = m
      BY <1>2, <1>4, <1>6, <3>1
    <3>2. CASE k \in 2 .. n
      <4>1. G[k] = H[k] /\ R[k] = Q[k] /\ RoleOf(G, k, top) = RoleOf(H, k, top)
        BY <1>2, <1>4, <1>5, <1>6, <3>2
      <4> QED
        BY <3>2, <4>1 DEF Rest, Follows
    <3> QED
      BY <1>5, <3>1, <3>2
  <2> QED
    BY <2>1 DEF Follows
<1>9. Waits(G, m, top, R)
  <2>1. ASSUME NEW k \in 2 .. m, k < m
        PROVE  Awaits(G, k, top, R[k])
    <3>1. k \in 2 .. n /\ k \in 1 .. n /\ R[k] = Q[k]
      BY <1>4, <1>5, <2>1
    <3>2. CASE k = n
      BY <3>1, <3>2
    <3>3. CASE k < n
      <4>1. k + 1 \in 1 .. n
        BY <1>1, <3>1, <3>3
      <4>2. G[k] = H[k] /\ G[k + 1] = H[k + 1] /\ RoleOf(G, k, top) = RoleOf(H, k, top)
        BY <1>2, <1>6, <3>1, <4>1
      <4>3. Awaits(H, k, top, Q[k])
        BY <3>1, <3>3 DEF Rest, Waits
      <4> QED
        BY <3>1, <4>2, <4>3 DEF Awaits
    <3> QED
      BY <1>1, <3>1, <3>2, <3>3
  <2> QED
    BY <2>1 DEF Waits
<1>10. TopSet(G, m, top, who, R)
  <2>1. R[m].gc = "before"
    BY <1>4, EntryPlan
  <2>2. ASSUME NEW k \in 2 .. n
        PROVE  R[k] = Q[k] /\ G[k] = H[k]
    BY <1>2, <1>4, <1>5
  <2>3. ASSUME NEW k \in 2 .. m
        PROVE  /\ top = 0 => R[k].gc # "in"
               /\ k < top => R[k].gc = "before"
               /\ k = top => R[k].gc = "in" /\ G[k].setTop
               /\ R[k].gc = "in" /\ G[k].setTop => k = top
    <3>1. CASE k = m
      BY <1>1, <2>1, <3>1
    <3>2. CASE k \in 2 .. n
      BY <2>2, <3>2 DEF Rest, TopSet
    <3> QED
      BY <1>5, <3>1, <3>2
  <2>4. top \in 0 .. m /\ (top = 1 <=> who = "interpreter")
    BY <1>1 DEF Rest, TopSet
  <2> QED
    BY <2>3, <2>4 DEF TopSet
<1>11. Parts(m, R, D, pl, sys)
  <2>1. Len(R[m].stack) = 0
    BY <1>4, EntryPlan
  <2>2. Parts(n, Q, E, pl, sys)
    BY DEF Rest
  <2>3. PICK e : e = E[n]
    OBVIOUS
  <2>4. D[m] = e
    BY <1>4, <2>3
  <2> QED
    BY <1>1, <1>4, <2>1, <2>2, <2>3, <2>4, PartsEntered
<1>12. Rooms(G, m, top, D)
  <2>1. ASSUME NEW k \in 2 .. m, G[k].fn # "Bclosure"
        PROVE  D[k - 1] + Room(RoleOf(G, k, top)) <= 3
    <3>1. CASE k = m
      <4>1. k - 1 = n /\ D[n] = E[n]
        BY <1>1, <1>4, <3>1
      <4> QED
        BY <1>2, <1>6, <2>1, <3>1, <4>1
    <3>2. CASE k \in 2 .. n
      <4>1. k - 1 \in 1 .. n /\ k \in 1 .. n
        BY <1>1, <3>2
      <4>2. G[k] = H[k] /\ D[k - 1] = E[k - 1] /\ RoleOf(G, k, top) = RoleOf(H, k, top)
        BY <1>2, <1>4, <1>6, <3>2, <4>1
      <4> QED
        BY <2>1, <3>2, <4>2 DEF Rest, Rooms
    <3> QED
      BY <1>5, <3>1, <3>2
  <2> QED
    BY <2>1 DEF Rooms
<1>13. Words(G, m, sys, hp)
  <2>1. Words(H, n, sys, hp)
    BY DEF Rest
  <2>2. DOMAIN G[m].vars = Names
    BY <1>2 DEF Fits, FrameShape
  <2>3. ASSUME NEW k \in 1 .. m, NEW v \in DOMAIN G[k].vars
        PROVE  Word(G[k].vars[v]) /\ Leads(G[k].vars[v], hp)
    <3>1. CASE k = m
      BY <1>2, <2>2, <2>3, <3>1 DEF Fits
    <3>2. CASE k \in 1 .. n
      <4>1. G[k] = H[k]
        BY <1>2, <3>2
      <4> QED
        BY <2>1, <2>3, <3>2, <4>1 DEF Words
    <3> QED
      BY <1>1, <3>1, <3>2
  <2>4. \A s \in Slots : G[1].vars[s].fresh
    <3>1. G[1] = H[1]
      BY <1>1, <1>2
    <3> QED
      BY <2>1, <3>1 DEF Words
  <2>5. ASSUME NEW k \in 2 .. m
        PROVE  G[k].vars["c"].fresh /\ ~IsRef(G[k].vars["c"])
    <3>1. CASE k = m
      <4>1. "c" \in Names
        BY DEF Names
      <4> QED
        BY <1>2, <3>1, <4>1 DEF Fits
    <3>2. CASE k \in 2 .. n
      <4>1. G[k] = H[k]
        BY <1>2, <1>5, <3>2
      <4> QED
        BY <2>1, <3>2, <4>1 DEF Words
    <3> QED
      BY <1>5, <3>1, <3>2
  <2> QED
    BY <2>1, <2>3, <2>4, <2>5 DEF Words
<1>14. Keeps(G, m, top, R, R[m].good)
  <2>1. Fresh(G, m, Names)
    BY <1>2 DEF Fits, Fresh
  <2>2. R[m].good = Names /\ R[m].refs = refs
    BY <1>4, EntryPlan
  <2>3. Kept(r, R[m]) \subseteq Names
    <3>1. Kept(r, Entry(refs)) \subseteq Entry(refs).good
      BY DEF Valid
    <3> QED
      BY <1>4, <2>2, <3>1
  <2>4. ASSUME NEW k \in 2 .. m
        PROVE  Fresh(G, k, Kept(RoleOf(G, k, top), R[k]))
    <3>1. CASE k = m
      BY <1>6, <2>1, <2>3, <3>1 DEF Fresh
    <3>2. CASE k \in 2 .. n
      <4>1. G[k] = H[k] /\ R[k] = Q[k] /\ RoleOf(G, k, top) = RoleOf(H, k, top)
        BY <1>2, <1>4, <1>5, <1>6, <3>2
      <4>2. Fresh(H, k, Kept(RoleOf(H, k, top), Q[k]))
        BY <3>2 DEF Rest
      <4> QED
        BY <4>1, <4>2 DEF Fresh
    <3> QED
      BY <1>5, <3>1, <3>2
  <2>5. ASSUME NEW k \in 2 .. m
        PROVE  Refs(G, k, IF k < m THEN R[k].refs \ {G[k + 1].result} ELSE R[k].refs)
    <3>1. CASE k = m
      BY <1>2, <2>2, <3>1 DEF Fits, Refs
    <3>2. CASE k \in 2 .. n
      <4>1. k < m /\ R[k] = Q[k]
        BY <1>1, <1>4, <1>5, <3>2
      <4> QED
        BY <3>2, <4>1
    <3> QED
      BY <1>5, <3>1, <3>2
  <2> QED
    BY <2>1, <2>2, <2>4, <2>5 DEF Keeps
<1>15. Good(G, m, top, who, pl, sys, hp, R, D, R[m].good)
  <2>1. Heap(hp) /\ m >= 1
    BY <1>1 DEF Rest
  <2> QED
    BY <1>1, <1>7, <1>8, <1>9, <1>10, <1>11, <1>12, <1>13, <1>14, <2>1 DEF Good
<1>16. Base(G, m, top, pl, sys, hp, R, D)
  BY <1>15, BaseOfGood
<1> QED
  BY <1>2, <1>15, <1>16 DEF Inv

-----------------------------------------------------------------------------
(***************************************************************************)
(* Calls of functions                                                      *)
(***************************************************************************)
LEMMA CallFunctionKeeps ==
  ASSUME RRInv, CallFunction
  PROVE  RRInv'
<1>1. InCall
  BY DEF CallFunction
<1>2. PICK P, E, B, n : /\ Ready(frames, n, gcTop, caller, pool, sysargs, heap, P, E, B)
                        /\ This = frames[n]
  BY <1>1, InnerReady
<1>3. PICK F, f, H : F = frames /\ f = F[n] /\ H = Atop(Front(F), Advanced(f))
  OBVIOUS
<1>4. PICK g : g = Advanced(f)
  OBVIOUS
<1>5. Ready(F, n, gcTop, caller, pool, sysargs, heap, P, E, B)
  BY <1>2, <1>3
<1>6. /\ n \in Nat /\ n >= 2 /\ n \in 2 .. n /\ n \in 1 .. n /\ Indexed(F, n)
      /\ FrameShape(f, Names) /\ Valid(RoleOf(F, n, gcTop), P[n])
      /\ Fresh(F, n, P[n].good) /\ Refs(F, n, P[n].refs)
      /\ TopSet(F, n, gcTop, caller, P) /\ Waits(F, n, gcTop, P) /\ Shapes(F, n)
      /\ Parts(n, P, E, pool, sysargs) /\ Heap(heap) /\ Words(F, n, sysargs, heap)
  BY <1>3, <1>5, ReadyFacts
<1>7. /\ FrameShape(g, Names) /\ SameFrame(F[n], g) /\ g.code = Tail(F[n].code)
      /\ g.vars = F[n].vars /\ g.setTop = F[n].setTop
  BY <1>3, <1>4, <1>6, AdvancedFrame
<1>8. Instr = Head(F[n].code) /\ MayStep(RoleOf(F, n, gcTop), Instr, P[n], B)
  BY <1>2, <1>3, <1>5 DEF Instr, Ready
<1>9. PICK i, r : i = Instr /\ r = RoleOf(F, n, gcTop)
  OBVIOUS
<1>10. CallRule(r, i, P[n], B) /\ Valid(r, B)
  <2>1. Instr.do = "call"
    BY DEF CallFunction
  <2> QED
    BY <1>6, <1>8, <1>9, <2>1, RuleFor
<1>11. /\ P[n].gc \in {"before", "in"} /\ i.f \in Callees /\ i.n \in 0 .. MaxValues
       /\ DOMAIN i.args = DOMAIN Parameters(i.f, i.n) /\ ToSet(i.args) \subseteq P[n].good
       /\ Len(P[n].stack) + RoomOf(i.f) <= Room(r) /\ r.fn # "Bclosure"
       /\ i.f = "Bsexp" => r.fn = "ListCons"
  BY <1>10 DEF CallRule, Callable
<1>12. /\ Assigned(r, P[n], i.v) /\ B.stack = P[n].stack /\ B.gc = P[n].gc
       /\ B.refs \subseteq P[n].refs \cup {i.v} /\ B.good \subseteq Kept(r, P[n]) \cup {i.v, "c"}
  BY <1>10 DEF CallRule, Learns, Stays
<1>13. Kept(r, B) = Kept(r, P[n]) /\ Registered(B) = Registered(P[n])
  BY <1>12 DEF Kept, Registered
<1>14. Local(F, H, n) /\ H[n] = g /\ Len(H) = n
  <2>1. H = Atop(Front(F), g)
    BY <1>3, <1>4
  <2> QED
    BY ONLY <1>6, <1>7, <2>1, InnerReplaced
<1>15. H[n].code = Tail(F[n].code) /\ H[n].vars = F[n].vars /\ H[n].setTop = F[n].setTop
  BY ONLY <1>7, <1>14
<1>16. PICK Q : Q = Further(P, n, B)
  OBVIOUS
<1>17. LocalPlans(P, Q, n) /\ Q[n] = B
  BY <1>6, <1>16, FurtherPlans
<1>18. Q[n].gc = P[n].gc /\ Q[n].stack = P[n].stack
  BY <1>12, <1>17
<1>19. TopSet(H, n, gcTop, caller, Q) /\ LocalTop(gcTop, gcTop, n)
  BY <1>6, <1>14, <1>15, <1>17, <1>18, SameTop
<1>20. Parts(n, Q, E, pool, sysargs)
  BY <1>6, <1>17, <1>18, SameParts
<1>21. Words(H, n, sysargs, heap)
  <2>1. \A u \in Names : H[n].vars[u] = F[n].vars[u]
    BY <1>15
  <2> QED
    BY <1>6, <1>14, <2>1, WordsStep
<1>22. Good(F, n, gcTop, caller, pool, sysargs, heap, P, E, P[n].good)
  BY <1>5 DEF Ready
<1>23. /\ Shapes(H, n) /\ Follows(H, n, gcTop, Q) /\ Waits(H, n, gcTop, Q)
       /\ Begins(H, n, caller, sysargs) /\ Rooms(H, n, gcTop, E)
       /\ \A k \in 1 .. n : RoleOf(H, k, gcTop) = RoleOf(F, k, gcTop)
       /\ \A k \in 2 .. n : k < n => /\ Fresh(H, k, Kept(RoleOf(H, k, gcTop), Q[k]))
                                     /\ Refs(H, k, Q[k].refs \ {H[k + 1].result})
  <2>1. Planned(RoleOf(F, n, gcTop), H[n].code, Q[n]) /\ Valid(RoleOf(F, n, gcTop), Q[n])
    BY <1>5, <1>9, <1>10, <1>15, <1>17 DEF Ready
  <2>2. Below(E, E, n)
    BY DEF Below
  <2>3. Framed(F, n, gcTop, caller, sysargs, P, E)
    BY <1>22, GoodIsFramed
  <2>4. n >= 2 /\ Local(F, H, n) /\ LocalPlans(P, Q, n) /\ LocalTop(gcTop, gcTop, n)
    BY <1>6, <1>14, <1>17, <1>19
  <2> QED
    BY ONLY <2>1, <2>2, <2>3, <2>4, LocalRest
<1>24. Fresh(H, n, Kept(r, B))
  <2>1. Kept(r, B) \subseteq P[n].good
    BY <1>6, <1>9, <1>13 DEF Valid
  <2> QED
    BY <1>6, <1>15, <2>1 DEF Fresh
<1>25. Rest(H, n, gcTop, caller, pool, sysargs, heap, Q, E)
  <2>1. ASSUME NEW k \in 2 .. n
        PROVE  Fresh(H, k, Kept(RoleOf(H, k, gcTop), Q[k]))
    <3>1. CASE k = n
      <4>1. RoleOf(H, n, gcTop) = r
        BY <1>6, <1>9, <1>23
      <4> QED
        BY <1>17, <1>24, <3>1, <4>1
    <3>2. CASE k < n
      BY <1>23, <3>2
    <3> QED
      BY <1>6, <3>1, <3>2
  <2>2. n >= 1
    BY <1>6
  <2> QED
    BY <1>6, <1>19, <1>20, <1>21, <1>23, <2>1, <2>2 DEF Rest
<1>26. PICK ps, ws, co, fr : /\ ps = Parameters(i.f, i.n) /\ co = Code(i.f, i.n)
                             /\ ws = [j \in DOMAIN i.args |-> Value(i.args[j])]
                             /\ fr = Frame(i.f, co, ps, ws, i.v)
  OBVIOUS
<1>27. PICK m, c : m = n + 1 /\ c = Role(Own(m, gcTop), i.f, ToSet(ps))
  OBVIOUS
<1>28. c.fn = i.f /\ c.params = ToSet(ps)
  BY <1>27 DEF Role
<1>29. Planned(c, co, Entry({})) /\ Valid(c, Entry({})) /\ ToSet(ps) \subseteq Names \ {"c"}
  <2>1. c.params = ToSet(Parameters(i.f, i.n))
    BY <1>26, <1>28
  <2>2. /\ Planned(c, Code(i.f, i.n), Entry({})) /\ Valid(c, Entry({}))
        /\ c.params \subseteq Names \ {"c"}
    BY <1>11, <1>28, <2>1, CalleePlanned
  <2> QED
    BY <1>26, <1>28, <2>2
<1>30. Handed(ws, heap) /\ DOMAIN ws = DOMAIN ps
  <2>1. DOMAIN ws = DOMAIN i.args /\ DOMAIN i.args = DOMAIN ps
    BY <1>11, <1>26
  <2>2. ASSUME NEW j \in DOMAIN ws
        PROVE  Word(ws[j]) /\ ws[j].fresh /\ Leads(ws[j], heap)
    <3>1. PICK v : v = i.args[j]
      OBVIOUS
    <3>2. v \in P[n].good /\ v \in Names
      <4>1. v \in ToSet(i.args)
        BY <2>1, <3>1 DEF ToSet
      <4> QED
        BY <1>6, <1>11, <4>1 DEF Valid
    <3>3. ws[j] = F[n].vars[v]
      BY <1>2, <1>3, <1>26, <2>1, <3>1 DEF Value
    <3>4. DOMAIN F[n].vars = Names
      BY <1>3, <1>6 DEF FrameShape
    <3> QED
      BY <1>6, <3>2, <3>3, <3>4 DEF Fresh, Words
  <2> QED
    BY <2>1, <2>2 DEF Handed
<1>31. /\ FrameShape(fr, Names) /\ fr.fn = i.f /\ fr.code = co /\ fr.params = ToSet(ps)
       /\ ~fr.setTop /\ fr.result = i.v
       /\ \A v \in Names : Word(fr.vars[v]) /\ fr.vars[v].fresh /\ Leads(fr.vars[v], heap)
       /\ ~IsRef(fr.vars["c"])
  <2>1. Enters(fr, i.f, co, ps, ws, i.v)
    BY <1>26 DEF Enters
  <2>2. ToSet(ps) \subseteq Names \ {"c"} /\ DOMAIN ws = DOMAIN ps /\ Handed(ws, heap)
    BY <1>29, <1>30
  <2> QED
    BY ONLY <2>1, <2>2, EnteredFrame
<1>32. Fits(fr, heap, {})
  BY <1>31 DEF Fits
<1>33. PICK G : G = Atop(H, fr)
  OBVIOUS
<1>34. G[m] = fr /\ \A k \in 1 .. n : G[k] = H[k]
  <2>1. Indexed(H, n)
    BY <1>14 DEF Local
  <2> QED
    BY <1>6, <1>27, <1>33, <2>1, Grown
<1>35. Awaits(G, n, gcTop, Q[n])
  <2>1. G[n] = H[n] /\ G[n + 1] = fr /\ RoleOf(G, n, gcTop) = r /\ r.fn = G[n].fn
    <3>1. G[n] = H[n] /\ G[n + 1] = fr
      BY <1>6, <1>27, <1>34
    <3>2. RoleOf(H, n, gcTop) = r
      BY <1>6, <1>9, <1>23
    <3> QED
      BY <3>1, <3>2 DEF RoleOf, Role
  <2>2. Assigned(r, B, i.v)
    BY <1>12, <1>13 DEF Assigned
  <2>3. B.gc \in {"before", "in"} /\ B.good \subseteq Kept(r, B) \cup {i.v, "c"}
    BY <1>11, <1>12, <1>13
  <2> QED
    BY <1>11, <1>17, <1>31, <2>1, <2>2, <2>3 DEF Awaits
<1>36. \A k \in 2 .. n : Refs(G, k, Q[k].refs \ {G[k + 1].result})
  <2>1. ASSUME NEW k \in 2 .. n
        PROVE  Refs(G, k, Q[k].refs \ {G[k + 1].result})
    <3>1. CASE k = n
      <4>1. G[n + 1].result = i.v /\ G[n].vars = F[n].vars
        BY <1>6, <1>15, <1>27, <1>31, <1>34
      <4>2. Q[n].refs \ {i.v} \subseteq P[n].refs
        BY <1>12, <1>17
      <4> QED
        BY <1>6, <3>1, <4>1, <4>2 DEF Refs
    <3>2. CASE k < n
      <4>1. k \in 1 .. n /\ k + 1 \in 1 .. n
        BY <1>6, <3>2
      <4>2. G[k] = H[k] /\ G[k + 1] = H[k + 1]
        BY <1>34, <4>1
      <4>3. Refs(H, k, Q[k].refs \ {H[k + 1].result})
        BY <1>23, <3>2
      <4> QED
        BY <4>2, <4>3 DEF Refs
    <3> QED
      BY <1>6, <3>1, <3>2
  <2> QED
    BY <2>1
<1>37. E[n] + Room(c) <= 3
  <2>1. PICK a, b, l, x : a = E[n - 1] /\ b = Room(r) /\ l = Len(P[n].stack) /\ x = RoomOf(i.f)
    OBVIOUS
  <2>2. Room(c) = x /\ x \in Nat
    BY <1>11, <1>28, <2>1 DEF Room, RoomOf, Callees
  <2>3. a \in Nat /\ E[n] = a + l
    BY <1>6, <2>1 DEF Parts
  <2>4. l \in Nat
    BY <1>6, <2>1 DEF Valid
  <2>5. r.fn = F[n].fn
    BY <1>9 DEF RoleOf, Role
  <2>6. a + b <= 3
    BY <1>6, <1>9, <1>11, <1>22, <2>1, <2>5 DEF Good, Rooms
  <2>7. b \in Nat
    BY <1>11, <2>1 DEF Room, RoomOf
  <2>8. l + x <= b
    BY <1>11, <2>1
  <2> QED
    BY <2>2, <2>3, <2>4, <2>6, <2>7, <2>8
<1>38. Begins(G, m, caller, sysargs)
  <2>1. 2 \in 1 .. n
    BY <1>6
  <2>2. G[2] = H[2]
    BY <1>34, <2>1
  <2> QED
    BY <1>6, <1>23, <2>2 DEF Begins
<1>39. Inv(G, gcTop, pool, sysargs, heap, caller, "none")
  <2>1. c = Role(Own(m, gcTop), fr.fn, fr.params) /\ m = n + 1
    BY <1>27, <1>31
  <2>2. Planned(c, fr.code, Entry({})) /\ Valid(c, Entry({}))
    BY <1>29, <1>31
  <2> QED
    BY ONLY <1>25, <1>32, <1>33, <1>35, <1>36, <1>37, <1>38, <2>1, <2>2, EnterInv
<1>40. frames' = G
  BY <1>2, <1>3, <1>9, <1>26, <1>33 DEF CallFunction, WithThis, Stepped, Advanced, Atop
<1> QED
  BY <1>39, <1>40 DEF CallFunction, Goes, RRInv, InCall, poolVars

-----------------------------------------------------------------------------
(***************************************************************************)
(* Returns                                                                 *)
(***************************************************************************)
(* H is what is left of the n functions when the innermost has returned.   *)
Leaves(F, n, m, H, P) ==
  /\ m \in Nat /\ m >= 1 /\ n = m + 1 /\ H = Front(F)
  /\ P[n].gc # "in" /\ Len(P[n].stack) = 0

Remain(F, m, H, top) == \A k \in 1 .. m : H[k] = F[k] /\ RoleOf(H, k, top) = RoleOf(F, k, top)

(* The functions that remain when the innermost one returns.               *)
LEMMA LeaveRest ==
  ASSUME NEW F, NEW n, NEW m, NEW top, NEW who, NEW pl, NEW sys, NEW hp, NEW P, NEW E,
         NEW good, NEW H,
         Good(F, n, top, who, pl, sys, hp, P, E, good), Leaves(F, n, m, H, P)
  PROVE  /\ Framed(H, m, top, who, sys, P, E) /\ TopSet(H, m, top, who, P)
         /\ Parts(m, P, E, pl, sys) /\ Words(H, m, sys, hp) /\ Indexed(H, m)
         /\ Remain(F, m, H, top)
<1>0. m \in Nat /\ m >= 1 /\ n = m + 1 /\ H = Front(F) /\ P[n].gc # "in" /\ Len(P[n].stack) = 0
  BY DEF Leaves
<1> USE <1>0
<1>1. n \in 2 .. n /\ top \in 0 .. n /\ (top = 1 <=> who = "interpreter") /\ Indexed(F, n)
  BY DEF Good, TopSet, Shapes
<1>2. Indexed(H, m) /\ \A k \in 1 .. m : H[k] = F[k]
  <2>1. n \in Nat
    OBVIOUS
  <2>2. Indexed(Front(F), m) /\ \A k \in 1 .. m : Front(F)[k] = F[k]
    BY ONLY <1>1, <2>1, m \in Nat, n = m + 1, Popped
  <2> QED
    BY <2>2
<1>3. \A k \in 1 .. m : RoleOf(H, k, top) = RoleOf(F, k, top)
  BY <1>2 DEF RoleOf
<1>4. \A k \in 2 .. m : k \in 2 .. n /\ k \in 1 .. m /\ k < n
  OBVIOUS
<1>5. top \in 0 .. m
  <2>1. top # n
    BY <1>1 DEF Good, TopSet
  <2> QED
    BY <1>1, <2>1
<1>6. Shapes(H, m)
  <2>1. 1 \in 1 .. m
    OBVIOUS
  <2> QED
    BY <1>2, <1>4, <2>1 DEF Good, Shapes
<1>7. Follows(H, m, top, P)
  BY <1>2, <1>3, <1>4 DEF Good, Follows
<1>8. ASSUME NEW k \in 2 .. m, k < m
      PROVE  H[k] = F[k] /\ H[k + 1] = F[k + 1]
  <2>1. k \in 1 .. m /\ k + 1 \in 1 .. m
    BY <1>8
  <2> QED
    BY <1>2, <2>1
<1>9. Waits(H, m, top, P)
  <2>1. ASSUME NEW k \in 2 .. m, k < m
        PROVE  Awaits(H, k, top, P[k])
    <3>1. Awaits(F, k, top, P[k])
      BY <1>4 DEF Good, Waits
    <3> QED
      BY <1>3, <1>4, <1>8, <2>1, <3>1 DEF Awaits
  <2> QED
    BY <2>1 DEF Waits
<1>10. Begins(H, m, who, sys)
  <2>1. ASSUME m >= 2
        PROVE  H[2] = F[2]
    <3>1. 2 \in 1 .. m
      BY <2>1
    <3> QED
      BY <1>2, <3>1
  <2> QED
    BY <2>1 DEF Good, Begins
<1>11. Rooms(H, m, top, E)
  BY <1>2, <1>3, <1>4 DEF Good, Rooms
<1>12. ASSUME NEW k \in 2 .. m, k < m
       PROVE  /\ Fresh(H, k, Kept(RoleOf(H, k, top), P[k]))
              /\ Refs(H, k, P[k].refs \ {H[k + 1].result})
  <2>1. Fresh(F, k, Kept(RoleOf(F, k, top), P[k]))
    BY <1>4 DEF Good, Keeps
  <2>2. Refs(F, k, P[k].refs \ {F[k + 1].result})
    BY <1>4 DEF Good, Keeps
  <2> QED
    BY <1>3, <1>4, <1>8, <1>12, <2>1, <2>2 DEF Fresh, Refs
<1>13. Framed(H, m, top, who, sys, P, E)
  BY <1>5, <1>6, <1>7, <1>9, <1>10, <1>11, <1>12 DEF Framed
<1>14. TopSet(H, m, top, who, P)
  BY <1>1, <1>2, <1>4, <1>5 DEF Good, TopSet
<1>15. Parts(m, P, E, pl, sys)
  <2>1. Parts(n, P, E, pl, sys)
    BY DEF Good
  <2> QED
    BY <2>1, PartsLeft
<1>16. Words(H, m, sys, hp)
  <2>1. \A k \in 1 .. m : k \in 1 .. n
    OBVIOUS
  <2>2. 1 \in 1 .. m
    OBVIOUS
  <2> QED
    BY <1>2, <1>4, <2>1, <2>2 DEF Good, Words
<1> QED
  BY <1>2, <1>3, <1>13, <1>14, <1>15, <1>16 DEF Remain

(* The calling program alone.                                              *)
LEMMA MainInv ==
  ASSUME NEW G, NEW f, NEW top, NEW who, NEW pl, NEW sys, NEW hp, NEW P, NEW E,
         Indexed(G, 1), G[1] = f, FrameShape(f, Slots), f.params = Slots,
         \A v \in Slots : Word(f.vars[v]) /\ f.vars[v].fresh /\ Leads(f.vars[v], hp),
         top \in {0, 1}, top = 1 <=> who = "interpreter",
         Word(sys), Leads(sys, hp), sys.fresh, sys = Int0 \/ IsRef(sys),
         Parts(1, P, E, pl, sys), Heap(hp)
  PROVE  Inv(G, top, pl, sys, hp, who, "none")
<1>1. 2 .. 1 = {} /\ 1 .. 1 = {1} /\ 0 .. 1 = {0, 1} /\ ~(1 >= 2)
  OBVIOUS
<1>2. Len(G) = 1
  BY IndexedLen
<1>3. Shapes(G, 1) /\ Follows(G, 1, top, P) /\ Waits(G, 1, top, P) /\ Begins(G, 1, who, sys)
  BY <1>1 DEF Shapes, Follows, Waits, Begins
<1>4. TopSet(G, 1, top, who, P) /\ Rooms(G, 1, top, E) /\ Keeps(G, 1, top, P, P[1].good)
  BY <1>1 DEF TopSet, Rooms, Keeps
<1>5. Words(G, 1, sys, hp)
  <2>1. DOMAIN f.vars = Slots
    BY DEF FrameShape
  <2> QED
    BY <1>1, <2>1 DEF Words
<1>6. Good(G, 1, top, who, pl, sys, hp, P, E, P[1].good)
  BY <1>3, <1>4, <1>5 DEF Good
<1>7. Base(G, 1, top, pl, sys, hp, P, E)
  BY <1>6, BaseOfGood
<1> QED
  BY <1>2, <1>6, <1>7 DEF Inv

(* A function gets the result it has waited for.                           *)
LEMMA ReturnInv ==
  ASSUME NEW H, NEW m, NEW top, NEW who, NEW pl, NEW sys, NEW hp, NEW P, NEW E, NEW G, NEW g,
         NEW v, NEW w,
         Framed(H, m, top, who, sys, P, E), TopSet(H, m, top, who, P), Parts(m, P, E, pl, sys),
         Words(H, m, sys, hp), Heap(hp), m >= 2, G = Atop(Front(H), g), g = Given(H[m], v, w),
         Fresh(H, m, Kept(RoleOf(H, m, top), P[m])), Refs(H, m, P[m].refs \ {v}),
         Assigned(RoleOf(H, m, top), P[m], v),
         P[m].good \subseteq Kept(RoleOf(H, m, top), P[m]) \cup {v, "c"},
         Word(w), w.fresh, IsRef(w), Leads(w, hp)
  PROVE  Inv(G, top, pl, sys, hp, who, "none")
<1>1. m \in Nat /\ m \in 2 .. m /\ m \in 1 .. m /\ Shapes(H, m) /\ Indexed(H, m)
  BY DEF Framed, Shapes
<1>2. FrameShape(H[m], Names) /\ v \in Names /\ v # "c"
  BY <1>1 DEF Shapes, Assigned
<1>3. /\ FrameShape(g, Names) /\ SameFrame(H[m], g) /\ g.code = H[m].code /\ g.setTop = H[m].setTop
      /\ g.vars[v] = w /\ \A u \in Names : u # v => g.vars[u] = H[m].vars[u]
  BY <1>2, GivenFrame
<1>4. Local(H, G, m) /\ G[m] = g /\ Len(G) = m
  <2>1. G = Atop(Front(H), g)
    OBVIOUS
  <2> QED
    BY ONLY m >= 2, <1>1, <1>3, <2>1, InnerReplaced
<1>5. /\ G[m].code = H[m].code /\ G[m].setTop = H[m].setTop
      /\ G[m].vars[v] = w /\ \A u \in Names : u # v => G[m].vars[u] = H[m].vars[u]
  BY ONLY <1>3, <1>4
<1>6. LocalPlans(P, P, m) /\ Below(E, E, m)
  BY DEF LocalPlans, Below
<1>7. TopSet(G, m, top, who, P) /\ LocalTop(top, top, m)
  BY <1>1, <1>4, <1>5, <1>6, SameTop
<1>8. Words(G, m, sys, hp)
  <2>1. \A u \in Names : \/ G[m].vars[u] = H[m].vars[u]
                         \/ u # "c" /\ Word(G[m].vars[u]) /\ Leads(G[m].vars[u], hp)
    BY <1>2, <1>5
  <2> QED
    BY <1>1, <1>4, <2>1, WordsStep
<1>9. Planned(RoleOf(H, m, top), G[m].code, P[m]) /\ Valid(RoleOf(H, m, top), P[m])
  BY <1>1, <1>5 DEF Framed, Follows
<1>10. P[m].good \subseteq Names /\ P[m].refs \subseteq Names
  BY <1>9 DEF Valid
<1>11. Fresh(G, m, P[m].good)
  <2>1. ASSUME NEW u \in P[m].good
        PROVE  G[m].vars[u].fresh
    <3>1. u = v \/ u = "c" \/ u \in Kept(RoleOf(H, m, top), P[m])
      OBVIOUS
    <3>2. H[m].vars["c"].fresh
      BY <1>1 DEF Words
    <3>3. u # v => H[m].vars[u].fresh
      BY <3>1, <3>2 DEF Fresh
    <3> QED
      BY <1>5, <1>10, <3>3
  <2> QED
    BY <2>1 DEF Fresh
<1>12. Refs(G, m, P[m].refs)
  <2>1. ASSUME NEW u \in P[m].refs
        PROVE  IsRef(G[m].vars[u])
    <3>1. u # v => IsRef(H[m].vars[u])
      BY DEF Refs
    <3> QED
      BY <1>5, <1>10, <3>1
  <2> QED
    BY <2>1 DEF Refs
<1>13. Good(G, m, top, who, pl, sys, hp, P, E, P[m].good)
  <2>1. \A k \in 1 .. m : k < m => E[k] = E[k]
    OBVIOUS
  <2> QED
    BY ONLY Framed(H, m, top, who, sys, P, E), Parts(m, P, E, pl, sys), Heap(hp), m >= 2,
            <1>4, <1>6, <1>7, <1>8, <1>9, <1>11, <1>12, <2>1, LocalStep
<1>14. Base(G, m, top, pl, sys, hp, P, E)
  BY <1>13, BaseOfGood
<1> QED
  BY <1>4, <1>13, <1>14 DEF Inv

(* A return to the function that called, or to the program.                *)
LEMMA ReturnValueKeeps ==
  ASSUME RRInv, ReturnValue
  PROVE  RRInv'
<1>1. InCall
  BY DEF ReturnValue
<1>2. PICK P, E, B, n : /\ Ready(frames, n, gcTop, caller, pool, sysargs, heap, P, E, B)
                        /\ This = frames[n]
  BY <1>1, InnerReady
<1>3. PICK F, H, i, r : /\ F = frames /\ H = Front(F) /\ i = Instr
                        /\ r = RoleOf(F, n, gcTop)
  OBVIOUS
<1>4. Ready(F, n, gcTop, caller, pool, sysargs, heap, P, E, B)
  BY <1>2, <1>3
<1>5. /\ n \in Nat /\ n >= 2 /\ n \in 2 .. n /\ n \in 1 .. n /\ Indexed(F, n)
      /\ FrameShape(F[n], Names) /\ Valid(RoleOf(F, n, gcTop), P[n])
      /\ Fresh(F, n, P[n].good) /\ Refs(F, n, P[n].refs)
      /\ TopSet(F, n, gcTop, caller, P) /\ Waits(F, n, gcTop, P) /\ Shapes(F, n)
      /\ Parts(n, P, E, pool, sysargs) /\ Heap(heap) /\ Words(F, n, sysargs, heap)
  BY <1>4, ReadyFacts
<1>6. Good(F, n, gcTop, caller, pool, sysargs, heap, P, E, P[n].good)
  BY <1>4 DEF Ready
<1>7. EndRule(r, i, P[n], B) /\ i.do = "return"
  <2>1. i.do = "return"
    BY <1>3 DEF ReturnValue
  <2>2. MayStep(r, i, P[n], B)
    BY <1>2, <1>3, <1>4 DEF Instr, Ready
  <2> QED
    BY <1>3, <1>5, <2>1, <2>2, RuleFor
<1>8. /\ r.fn = F[n].fn /\ P[n].gc # "in" /\ Len(P[n].stack) = 0 /\ i.v \in P[n].good
      /\ i.v \in Names
  <2>1. r.fn = F[n].fn
    BY <1>3 DEF RoleOf, Role
  <2> QED
    BY <1>5, <1>7, <2>1 DEF EndRule, Valid
<1>9. PICK m \in Nat : n = m + 1
  BY <1>5, n - 1 \in Nat /\ n = n - 1 + 1
<1>10. /\ Framed(H, m, gcTop, caller, sysargs, P, E) /\ TopSet(H, m, gcTop, caller, P)
       /\ Parts(m, P, E, pool, sysargs) /\ Words(H, m, sysargs, heap) /\ Indexed(H, m)
       /\ \A k \in 1 .. m : H[k] = F[k] /\ RoleOf(H, k, gcTop) = RoleOf(F, k, gcTop)
  <2>1. Leaves(F, n, m, H, P)
    BY <1>3, <1>5, <1>8, <1>9 DEF Leaves
  <2>2. /\ Framed(H, m, gcTop, caller, sysargs, P, E) /\ TopSet(H, m, gcTop, caller, P)
        /\ Parts(m, P, E, pool, sysargs) /\ Words(H, m, sysargs, heap) /\ Indexed(H, m)
        /\ Remain(F, m, H, gcTop)
    BY ONLY <1>6, <2>1, LeaveRest
  <2> QED
    BY <2>2 DEF Remain
<1>11. PICK w : w = F[n].vars[i.v]
  OBVIOUS
<1>12. Value(Instr.v) = w /\ Word(w) /\ w.fresh /\ Leads(w, heap)
  <2>1. DOMAIN F[n].vars = Names
    BY <1>5 DEF FrameShape
  <2> QED
    BY <1>2, <1>3, <1>5, <1>8, <1>11, <2>1 DEF Value, Words, Fresh
<1>13. PICK v, G, g : v = F[n].result /\ g = Given(H[m], v, w) /\ G = Atop(Front(H), g)
  OBVIOUS
<1>14. frames' = G
  <2>1. Front(frames) = H /\ This.result = v /\ Value(Instr.v) = w
    BY <1>2, <1>3, <1>12, <1>13
  <2>2. Last(H) = H[m]
    <3>1. PICK l \in Nat : m = l + 1
      BY <1>5, <1>9, m - 1 \in Nat /\ m = m - 1 + 1
    <3> QED
      BY <1>10, <3>1, Popped
  <2> QED
    BY <1>13, <2>1, <2>2 DEF ReturnValue, Given, Atop
<1>15. CASE m >= 2
  <2>1. m \in 2 .. n /\ m \in 1 .. m /\ m + 1 = n /\ m < n
    BY <1>5, <1>9, <1>15
  <2>2. H[m] = F[m] /\ RoleOf(H, m, gcTop) = RoleOf(F, m, gcTop)
    BY <1>10, <2>1
  <2>3. Awaits(F, m, gcTop, P[m])
    BY <1>5, <2>1 DEF Waits
  <2>4. /\ Assigned(RoleOf(H, m, gcTop), P[m], v)
        /\ P[m].good \subseteq Kept(RoleOf(H, m, gcTop), P[m]) \cup {v, "c"}
        /\ F[n].fn \in Callees
    BY <1>13, <2>1, <2>2, <2>3 DEF Awaits
  <2>5. IsRef(w)
    <3>1. i.v \in P[n].refs
      BY <1>7, <1>8, <2>4 DEF EndRule
    <3> QED
      BY <1>5, <1>11, <3>1 DEF Refs
  <2>6. Fresh(H, m, Kept(RoleOf(H, m, gcTop), P[m])) /\ Refs(H, m, P[m].refs \ {v})
    <3>1. Fresh(F, m, Kept(RoleOf(F, m, gcTop), P[m]))
      BY <1>6, <2>1 DEF Good, Keeps
    <3>2. Refs(F, m, P[m].refs \ {v})
      <4>1. Refs(F, m, IF m < n THEN P[m].refs \ {F[m + 1].result} ELSE P[m].refs)
        BY <1>6, <2>1 DEF Good, Keeps
      <4> QED
        BY <1>13, <2>1, <4>1
    <3> QED
      BY <2>2, <3>1, <3>2 DEF Fresh, Refs
  <2>7. Inv(G, gcTop, pool, sysargs, heap, caller, "none")
    BY <1>5, <1>10, <1>12, <1>13, <1>15, <2>4, <2>5, <2>6, ReturnInv
  <2> QED
    BY <1>14, <2>7 DEF ReturnValue, RRInv, InCall, poolVars
<1>16. CASE m = 1
  <2>1. n = 2 /\ 1 \in 1 .. m /\ 1 \in 1 .. n /\ F[1] = H[1]
    BY <1>9, <1>10, <1>16
  <2>2. FrameShape(H[1], Slots) /\ H[1].params = Slots /\ v \in Slots
    BY <1>5, <1>6, <1>13, <2>1 DEF Shapes, Good, Begins
  <2>3. /\ FrameShape(g, Slots) /\ SameFrame(H[1], g)
        /\ g.vars[v] = w /\ \A u \in Slots : u # v => g.vars[u] = H[1].vars[u]
    <3>1. g = Given(H[1], v, w)
      BY <1>13, <1>16
    <3> QED
      BY ONLY <2>2, <3>1, GivenFrame
  <2>4. Indexed(G, 1) /\ G[1] = g
    <3>1. 0 \in Nat /\ 1 \in Nat /\ 1 = 0 + 1 /\ Indexed(H, 1) /\ G = Atop(Front(H), g)
      BY <1>10, <1>13, <1>16
    <3> QED
      BY ONLY <3>1, Replaced
  <2>5. ASSUME NEW u \in Slots
        PROVE  Word(g.vars[u]) /\ g.vars[u].fresh /\ Leads(g.vars[u], heap)
    <3>1. DOMAIN H[1].vars = Slots
      BY <2>2 DEF FrameShape
    <3>2. Word(H[1].vars[u]) /\ H[1].vars[u].fresh /\ Leads(H[1].vars[u], heap)
      BY <1>5, <2>1, <3>1 DEF Words
    <3> QED
      BY <1>12, <2>3, <3>2
  <2>6. gcTop \in {0, 1} /\ (gcTop = 1 <=> caller = "interpreter")
    BY <1>10, <1>16 DEF TopSet
  <2>7. Parts(1, P, E, pool, sysargs) /\ g.params = Slots
    BY <1>10, <1>16, <2>2, <2>3 DEF SameFrame
  <2>8. /\ Word(sysargs) /\ Leads(sysargs, heap) /\ sysargs.fresh
        /\ (sysargs = Int0 \/ IsRef(sysargs))
    BY <1>5 DEF Words
  <2>9. Inv(G, gcTop, pool, sysargs, heap, caller, "none")
    BY <1>5, <2>3, <2>4, <2>5, <2>6, <2>7, <2>8, MainInv
  <2> QED
    BY <1>14, <2>9 DEF ReturnValue, RRInv, InCall, poolVars
<1> QED
  BY <1>5, <1>9, <1>15, <1>16

(* set_args returns: its array becomes a global root, the first of the     *)
(* pool.                                                                   *)
LEMMA KeepSysArgsKeeps ==
  ASSUME MaxRoots >= 3, RRInv, KeepSysArgs
  PROVE  RRInv'
<1>1. InCall
  BY DEF KeepSysArgs
<1>2. PICK P, E, B, n : /\ Ready(frames, n, gcTop, caller, pool, sysargs, heap, P, E, B)
                        /\ This = frames[n]
  BY <1>1, InnerReady
<1>3. PICK F, H, i, r : /\ F = frames /\ H = Front(F) /\ i = Instr
                        /\ r = RoleOf(F, n, gcTop)
  OBVIOUS
<1>4. Ready(F, n, gcTop, caller, pool, sysargs, heap, P, E, B)
  BY <1>2, <1>3
<1>5. /\ n \in Nat /\ n >= 2 /\ n \in 2 .. n /\ n \in 1 .. n /\ Indexed(F, n)
      /\ FrameShape(F[n], Names) /\ Valid(RoleOf(F, n, gcTop), P[n])
      /\ Fresh(F, n, P[n].good) /\ Refs(F, n, P[n].refs)
      /\ TopSet(F, n, gcTop, caller, P) /\ Waits(F, n, gcTop, P) /\ Shapes(F, n)
      /\ Parts(n, P, E, pool, sysargs) /\ Heap(heap) /\ Words(F, n, sysargs, heap)
  BY <1>4, ReadyFacts
<1>6. Good(F, n, gcTop, caller, pool, sysargs, heap, P, E, P[n].good)
  BY <1>4 DEF Ready
<1>7. EndRule(r, i, P[n], B) /\ i.do = "global"
  <2>1. i.do = "global"
    BY <1>3 DEF KeepSysArgs
  <2>2. MayStep(r, i, P[n], B)
    BY <1>2, <1>3, <1>4 DEF Instr, Ready
  <2> QED
    BY <1>3, <1>5, <2>1, <2>2, RuleFor
<1>8. /\ r.fn = F[n].fn /\ P[n].gc # "in" /\ Len(P[n].stack) = 0 /\ i.v \in P[n].good
      /\ i.v \in Names
  <2>1. r.fn = F[n].fn
    BY <1>3 DEF RoleOf, Role
  <2> QED
    BY <1>5, <1>7, <2>1 DEF EndRule, Valid
<1>9. PICK m \in Nat : n = m + 1
  BY <1>5, n - 1 \in Nat /\ n = n - 1 + 1
<1>10. /\ Framed(H, m, gcTop, caller, sysargs, P, E) /\ TopSet(H, m, gcTop, caller, P)
       /\ Parts(m, P, E, pool, sysargs) /\ Words(H, m, sysargs, heap) /\ Indexed(H, m)
       /\ \A k \in 1 .. m : H[k] = F[k] /\ RoleOf(H, k, gcTop) = RoleOf(F, k, gcTop)
  <2>1. Leaves(F, n, m, H, P)
    BY <1>3, <1>5, <1>8, <1>9 DEF Leaves
  <2>2. /\ Framed(H, m, gcTop, caller, sysargs, P, E) /\ TopSet(H, m, gcTop, caller, P)
        /\ Parts(m, P, E, pool, sysargs) /\ Words(H, m, sysargs, heap) /\ Indexed(H, m)
        /\ Remain(F, m, H, gcTop)
    BY ONLY <1>6, <2>1, LeaveRest
  <2> QED
    BY <2>2 DEF Remain
<1>11. PICK w : w = F[n].vars[i.v]
  OBVIOUS
<1>12. Value(Instr.v) = w /\ Word(w) /\ w.fresh /\ Leads(w, heap)
  <2>1. DOMAIN F[n].vars = Names
    BY <1>5 DEF FrameShape
  <2> QED
    BY <1>2, <1>3, <1>5, <1>8, <1>11, <2>1 DEF Value, Words, Fresh
<1>13. r.fn = "SetArgs" /\ IsRef(w)
  BY <1>5, <1>7, <1>11 DEF EndRule, Refs
<1>14. n = 2 /\ m = 1
  <2>1. SUFFICES ASSUME n > 2
                 PROVE  FALSE
    BY <1>5, <1>9
  <2>2. m \in 2 .. n /\ m < n /\ m + 1 = n
    BY <1>5, <1>9, <2>1
  <2>3. F[n].fn \in Callees
    BY <1>5, <2>2 DEF Waits, Awaits
  <2> QED
    BY <1>8, <1>13, <2>3 DEF Callees
<1>15. sysargs = Int0
  <2>1. Begins(F, n, caller, sysargs) /\ F[2].fn = "SetArgs"
    BY <1>6, <1>8, <1>13, <1>14 DEF Good
  <2> QED
    BY <1>5, <2>1 DEF Begins
<1>16. Indexed(pool, 0) /\ Len(pool) = 0
  <2>1. E[1] = 0 /\ Indexed(pool, E[1])
    BY <1>10, <1>14, <1>15 DEF Parts
  <2>2. Indexed(pool, 0)
    BY <2>1
  <2> QED
    BY <2>2, IndexedLen
<1>17. PICK pm, c : c = SysArgs /\ pm = Atop(pool, c)
  OBVIOUS
<1>18. Indexed(pm, 1) /\ pm[1] = c
  <2>1. 0 \in Nat /\ 0 + 1 = 1
    OBVIOUS
  <2>2. Indexed(pm, 0 + 1) /\ pm[0 + 1] = c
    BY <1>16, <1>17, <2>1, Grown
  <2> QED
    BY <2>1, <2>2
<1>19. pool' = pm /\ exit' = exit
  BY <1>16, <1>17, MaxRootsAssumption DEF KeepSysArgs, PushRoot, Atop
<1>20. w # Int0
  BY <1>13 DEF IsRef, Int0
<1>21. PICK D : D = [k \in 1 .. 1 |-> 1]
  OBVIOUS
<1>22. Parts(1, P, D, pm, w)
  <2>1. 1 .. 1 = {1} /\ 2 .. 1 = {} /\ D[1] = 1
    BY <1>21
  <2> QED
    BY <1>17, <1>18, <1>20, <2>1 DEF Parts
<1>23. PICK f : f = H[1]
  OBVIOUS
<1>24. FrameShape(f, Slots) /\ f.params = Slots /\ Indexed(H, 1)
  <2>1. H[1] = F[1] /\ Indexed(H, 1)
    BY <1>10, <1>14
  <2> QED
    BY <1>5, <1>23, <2>1 DEF Shapes
<1>25. ASSUME NEW u \in Slots
       PROVE  Word(f.vars[u]) /\ f.vars[u].fresh /\ Leads(f.vars[u], heap)
  <2>1. DOMAIN H[1].vars = Slots /\ 1 \in 1 .. m
    BY <1>14, <1>23, <1>24 DEF FrameShape
  <2> QED
    BY <1>10, <1>23, <2>1 DEF Words
<1>26. gcTop \in {0, 1} /\ (gcTop = 1 <=> caller = "interpreter")
  BY <1>10, <1>14 DEF TopSet
<1>27. Inv(H, gcTop, pm, w, heap, caller, "none")
  BY <1>5, <1>12, <1>13, <1>22, <1>23, <1>24, <1>25, <1>26, MainInv
<1>28. frames' = H /\ sysargs' = w
  BY <1>3, <1>12 DEF KeepSysArgs
<1> QED
  BY <1>19, <1>27, <1>28 DEF KeepSysArgs, RRInv, InCall

-----------------------------------------------------------------------------
(***************************************************************************)
(* Calls of the program                                                    *)
(***************************************************************************)
(* A call of f, with these parameters and words.                           *)
Calls(c, f, code, params, words) ==
  c.fn = f /\ c.code = code /\ c.params = params /\ c.words = words

(* r is the part of the function c calls.                                  *)
OfCall(r, c) == r.fn = c.fn /\ r.params = ToSet(c.params)

(* The function can be entered, these of its parameters are references.    *)
Suits(c, r, sys, hp, refs) ==
  /\ ToSet(c.params) \subseteq Names \ {"c"} /\ DOMAIN c.words = DOMAIN c.params
  /\ Handed(c.words, hp)
  /\ refs \subseteq ToSet(c.params) /\ (refs # {} => \A j \in DOMAIN c.words : IsRef(c.words[j]))
  /\ Planned(r, c.code, Entry(refs)) /\ Valid(r, Entry(refs))
  /\ c.fn # "Bclosure" => Room(r) \in 0 .. 2
  /\ c.fn = "SetArgs" => sys = Int0

Given1(w, hp) == Word(w) /\ w.fresh /\ Leads(w, hp)

(* Words handed to a function of no, one or two arguments.                 *)
LEMMA HandedSmall ==
  ASSUME NEW hp, NEW v, NEW w, Given1(v, hp), Given1(w, hp)
  PROVE  Handed(<< >>, hp) /\ Handed(<<w>>, hp) /\ Handed(<<v, w>>, hp)
<1>1. DOMAIN << >> = {} /\ DOMAIN <<w>> = {1} /\ DOMAIN <<v, w>> = {1, 2}
  OBVIOUS
<1>2. <<w>>[1] = w /\ <<v, w>>[1] = v /\ <<v, w>>[2] = w
  OBVIOUS
<1> QED
  BY <1>1, <1>2 DEF Handed, Given1

(* A C string and the number 0 can be handed at any time.                  *)
LEMMA KnownWords ==
  \A hp : Given1(CString, hp) /\ Given1(Int0, hp)
BY DEF Given1, Word, CString, Int0, Leads, IsRef

(* No parameter, one or two.                                               *)
LEMMA SmallSuits ==
  ASSUME NEW c, NEW r, NEW sys, NEW hp, NEW v, NEW w, Given1(v, hp), Given1(w, hp),
         OfCall(r, c), Planned(r, c.code, Entry({})),
         c.fn \notin {"Bclosure", "SetArgs"},
         \/ c.params = << >> /\ c.words = << >>
         \/ c.params = <<"p">> /\ c.words = <<w>>
         \/ c.params = <<"p", "q">> /\ c.words = <<v, w>>
  PROVE  Suits(c, r, sys, hp, {})
<1>1. ToSet(c.params) \subseteq {"p", "q"}
  <2>1. ToSet(<< >>) = {} /\ ToSet(<<"p">>) = {"p"} /\ ToSet(<<"p", "q">>) = {"p", "q"}
    BY ToSetSmall
  <2> QED
    BY <2>1
<1>2. ToSet(c.params) \subseteq Names \ {"c"}
  BY <1>1 DEF Names
<1>3. DOMAIN c.words = DOMAIN c.params
  OBVIOUS
<1>4. Handed(c.words, hp)
  BY HandedSmall
<1>5. Room(r) \in 0 .. 2
  BY DEF OfCall, Room, RoomOf
<1>6. r.params \subseteq Names
  BY <1>2 DEF OfCall
<1>7. Room(r) \in Nat /\ {} \subseteq Names
  BY <1>5
<1>8. Valid(r, Entry({}))
  BY ONLY <1>6, <1>7, EntryValid
<1> QED
  BY <1>2, <1>3, <1>4, <1>5, <1>8 DEF Suits

(* A call with a string, of the function that is named.                    *)
StringCall(d, w) == CallOf(d[1], d[2], <<"p">>, <<w>>, String)

(* The calls of the program that make a string or copy one,                *)
LEMMA PlainForms ==
  ASSUME NEW c \in PlainCalls
  PROVE  \/ Calls(c, "LmakeString", LmakeString, << >>, << >>)
         \/ Calls(c, "LreadLine", LreadLine, << >>, << >>)
         \/ Calls(c, "Bstring", Bstring, <<"p">>, <<CString>>)
         \/ \E w \in Values : \/ Calls(c, "Lstring", Lstring, <<"p">>, <<w>>)
                              \/ Calls(c, "Lsprintf", Lsprintf, <<"p">>, <<w>>)
                              \/ Calls(c, "LgetEnv", LgetEnv, <<"p">>, <<w>>)
                              \/ Calls(c, "Lfread", Lfread, <<"p">>, <<w>>)
                              \/ Calls(c, "Lsubstring", Lsubstring, <<"p">>, <<w>>)
         \/ \E v, w \in Values : Calls(c, "Concat", Concat, <<"p", "q">>, <<v, w>>)
<1>1. Strings \subseteq Values
  BY DEF Strings
<1>2. ASSUME NEW f, NEW code, NEW params, NEW words, c = CallOf(f, code, params, words, String)
      PROVE  Calls(c, f, code, params, words)
  BY <1>2 DEF Calls, CallOf
<1>3. \/ c = CallOf("LmakeString", LmakeString, << >>, << >>, String)
      \/ c = CallOf("LreadLine", LreadLine, << >>, << >>, String)
      \/ c = CallOf("Bstring", Bstring, <<"p">>, <<CString>>, String)
      \/ \E w \in Values : c = CallOf("Lstring", Lstring, <<"p">>, <<w>>, String)
      \/ \E w \in Strings :
           \/ c = CallOf("Lsprintf", Lsprintf, <<"p">>, <<w>>, String)
           \/ c = CallOf("LgetEnv", LgetEnv, <<"p">>, <<w>>, String)
           \/ c = CallOf("Lfread", Lfread, <<"p">>, <<w>>, String)
           \/ c = CallOf("Lsubstring", Lsubstring, <<"p">>, <<w>>, String)
      \/ \E v, w \in Strings : c = CallOf("Concat", Concat, <<"p", "q">>, <<v, w>>, String)
  <2> DEFINE Wanted == { <<"Lsprintf", Lsprintf>>, <<"LgetEnv", LgetEnv>>,
                         <<"Lfread", Lfread>>, <<"Lsubstring", Lsubstring>> }
             S == {StringCall(d, w) : w \in Strings, d \in Wanted}
  <2>1. ASSUME c \in S
        PROVE  \E w \in Strings :
                 \/ c = CallOf("Lsprintf", Lsprintf, <<"p">>, <<w>>, String)
                 \/ c = CallOf("LgetEnv", LgetEnv, <<"p">>, <<w>>, String)
                 \/ c = CallOf("Lfread", Lfread, <<"p">>, <<w>>, String)
                 \/ c = CallOf("Lsubstring", Lsubstring, <<"p">>, <<w>>, String)
    <3> HIDE DEF Wanted
    <3>1. PICK w \in Strings, d \in Wanted : c = StringCall(d, w)
      BY <2>1
    <3>2. \/ d[1] = "Lsprintf" /\ d[2] = Lsprintf
          \/ d[1] = "LgetEnv" /\ d[2] = LgetEnv
          \/ d[1] = "Lfread" /\ d[2] = Lfread
          \/ d[1] = "Lsubstring" /\ d[2] = Lsubstring
      BY DEF Wanted
    <3> QED
      BY <3>1, <3>2 DEF StringCall
  <2>2. PlainCalls =
          { CallOf("LmakeString", LmakeString, << >>, << >>, String),
            CallOf("LreadLine", LreadLine, << >>, << >>, String),
            CallOf("Bstring", Bstring, <<"p">>, <<CString>>, String) }
          \cup {CallOf("Lstring", Lstring, <<"p">>, <<w>>, String) : w \in Values}
          \cup S
          \cup {CallOf("Concat", Concat, <<"p", "q">>, <<v, w>>, String) : v, w \in Strings}
    BY DEF PlainCalls, StringCall
  <2> HIDE DEF Wanted, S
  <2> QED
    BY <2>1, <2>2
<1> QED
  BY <1>1, <1>2, <1>3

(* which are planned.                                                      *)
LEMMA PlainSuits ==
  ASSUME NEW c \in PlainCalls, NEW r, OfCall(r, c), r.own \/ c.fn \in {"Bstring", "Lstring"},
         \A w \in Values : Given1(w, heap)
  PROVE  Suits(c, r, sysargs, heap, {})
<1>1. ToSet(<< >>) = {} /\ ToSet(<<"p">>) = {"p"} /\ ToSet(<<"p", "q">>) = {"p", "q"}
  BY ToSetSmall
<1>2. Given1(CString, heap)
  BY KnownWords
<1>3. CASE Calls(c, "LmakeString", LmakeString, << >>, << >>)
  <2>1. r.fn = "LmakeString" /\ r.params = {}
    BY <1>1, <1>3 DEF Calls, OfCall
  <2>2. Planned(r, LmakeString, Entry({}))
    BY <2>1, LmakeStringPlanned DEF Entry
  <2> QED
    BY <1>2, <1>3, <2>2, SmallSuits DEF Calls
<1>4. CASE Calls(c, "LreadLine", LreadLine, << >>, << >>)
  <2>1. r.fn = "LreadLine" /\ r.params = {} /\ r.own
    BY <1>1, <1>4 DEF Calls, OfCall
  <2>2. Planned(r, LreadLine, Entry({}))
    BY <2>1, LreadLinePlanned DEF Entry
  <2> QED
    BY <1>2, <1>4, <2>2, SmallSuits DEF Calls
<1>5. CASE Calls(c, "Bstring", Bstring, <<"p">>, <<CString>>)
  <2>1. r.fn = "Bstring" /\ r.params = {"p"}
    BY <1>1, <1>5 DEF Calls, OfCall
  <2>2. Planned(r, Bstring, Entry({}))
    BY <2>1, BstringPlanned DEF Entry
  <2> QED
    BY <1>2, <1>5, <2>2, SmallSuits DEF Calls
<1>6. ASSUME NEW w \in Values, Calls(c, "Lstring", Lstring, <<"p">>, <<w>>)
      PROVE  Suits(c, r, sysargs, heap, {})
  <2>1. r.fn = "Lstring" /\ r.params = {"p"}
    BY <1>1, <1>6 DEF Calls, OfCall
  <2>2. Planned(r, Lstring, Entry({}))
    BY <2>1, LstringPlanned DEF Entry
  <2> QED
    BY <1>6, <2>2, SmallSuits DEF Calls
<1>7. ASSUME NEW w \in Values, Calls(c, "Lsprintf", Lsprintf, <<"p">>, <<w>>)
      PROVE  Suits(c, r, sysargs, heap, {})
  <2>1. r.fn = "Lsprintf" /\ r.params = {"p"}
    BY <1>1, <1>7 DEF Calls, OfCall
  <2>2. Planned(r, Lsprintf, Entry({}))
    BY <2>1, LsprintfPlanned DEF Entry
  <2> QED
    BY <1>7, <2>2, SmallSuits DEF Calls
<1>8. ASSUME NEW w \in Values, Calls(c, "LgetEnv", LgetEnv, <<"p">>, <<w>>)
      PROVE  Suits(c, r, sysargs, heap, {})
  <2>1. r.fn = "LgetEnv" /\ r.params = {"p"} /\ r.own
    BY <1>1, <1>8 DEF Calls, OfCall
  <2>2. Planned(r, LgetEnv, Entry({}))
    BY <2>1, LgetEnvPlanned DEF Entry
  <2> QED
    BY <1>8, <2>2, SmallSuits DEF Calls
<1>9. ASSUME NEW w \in Values, Calls(c, "Lfread", Lfread, <<"p">>, <<w>>)
      PROVE  Suits(c, r, sysargs, heap, {})
  <2>1. r.fn = "Lfread" /\ r.params = {"p"} /\ r.own
    BY <1>1, <1>9 DEF Calls, OfCall
  <2>2. Planned(r, Lfread, Entry({}))
    BY <2>1, LfreadPlanned DEF Entry
  <2> QED
    BY <1>9, <2>2, SmallSuits DEF Calls
<1>10. ASSUME NEW w \in Values, Calls(c, "Lsubstring", Lsubstring, <<"p">>, <<w>>)
       PROVE  Suits(c, r, sysargs, heap, {})
  <2>1. r.fn = "Lsubstring" /\ r.params = {"p"}
    BY <1>1, <1>10 DEF Calls, OfCall
  <2>2. Planned(r, Lsubstring, Entry({}))
    BY <2>1, LsubstringPlanned DEF Entry
  <2> QED
    BY <1>10, <2>2, SmallSuits DEF Calls
<1>11. ASSUME NEW v \in Values, NEW w \in Values, Calls(c, "Concat", Concat, <<"p", "q">>, <<v, w>>)
       PROVE  Suits(c, r, sysargs, heap, {})
  <2>1. r.fn = "Concat" /\ r.params = {"p", "q"}
    BY <1>1, <1>11 DEF Calls, OfCall
  <2>2. Planned(r, Concat, Entry({}))
    BY <2>1, ConcatPlanned DEF Entry
  <2> QED
    BY <1>11, <2>2, SmallSuits DEF Calls
<1> QED
  BY <1>3, <1>4, <1>5, <1>6, <1>7, <1>8, <1>9, <1>10, <1>11, PlainForms

(* Values of an array, S-expression or closure.                            *)
LEMMA ManySuits ==
  ASSUME NEW c, NEW r, NEW sys, NEW hp, NEW n \in 0 .. MaxValues, NEW V, NEW ws \in [1 .. n -> V],
         \A w \in V : Given1(w, hp), OfCall(r, c), Planned(r, c.code, Entry({})),
         c.fn # "SetArgs", c.params = ValueNames(n), c.words = ws
  PROVE  Suits(c, r, sys, hp, {})
<1>1. ToSet(c.params) \subseteq Names \ {"c"} /\ DOMAIN c.params = 1 .. n
  <2>1. Indexed(ValueNames(n), n) /\ ToSet(ValueNames(n)) \subseteq Names \ {"c"}
    BY FirstNames
  <2> QED
    BY <2>1 DEF Indexed
<1>2. ToSet(c.params) \subseteq Names \ {"c"}
  BY <1>1
<1>3. DOMAIN c.words = DOMAIN c.params
  BY <1>1
<1>4. Handed(c.words, hp)
  BY DEF Handed, Given1
<1>5. r.params \subseteq Names
  BY <1>2 DEF OfCall
<1>6. Room(r) \in Nat /\ (c.fn # "Bclosure" => Room(r) \in 0 .. 2)
  <2>1. CASE c.fn = "Bclosure"
    <3>1. Cardinality(r.params) \in Nat
      BY <1>5, NamesFinite, FS_Subset, FS_CardinalityType
    <3> QED
      BY <2>1, <3>1 DEF OfCall, Room
  <2>2. CASE c.fn # "Bclosure"
    BY <2>2 DEF OfCall, Room, RoomOf
  <2> QED
    BY <2>1, <2>2
<1>7. Valid(r, Entry({}))
  <2>1. Room(r) \in Nat /\ {} \subseteq Names
    BY <1>6
  <2> QED
    BY ONLY <1>5, <2>1, EntryValid
<1> QED
  BY <1>2, <1>3, <1>4, <1>6, <1>7 DEF Suits

(* A copy of a value.                                                      *)
LEMMA CopySuits ==
  ASSUME NEW c, NEW r, NEW sys, NEW hp, NEW w, NEW type, NEW n, Given1(w, hp),
         OfCall(r, c), Calls(c, "Lclone", Lclone(w, type, n), <<"p">>, <<w>>)
  PROVE  \E refs : Suits(c, r, sys, hp, refs)
<1>1. ToSet(<<"p">>) = {"p"}
  BY ToSetSmall
<1>2. r.fn = "Lclone" /\ r.params = {"p"}
  BY <1>1 DEF Calls, OfCall
<1>3. CASE ~IsRef(w)
  <2>1. c.code = CloneValue
    BY <1>3, CloneForms DEF Calls
  <2>2. Planned(r, c.code, Entry({}))
    BY <1>2, <2>1, CloneValuePlanned DEF Entry
  <2> QED
    BY <2>2, SmallSuits DEF Calls
<1>4. CASE IsRef(w) /\ type = "string"
  <2>1. c.code = CloneText
    BY <1>4, CloneForms DEF Calls
  <2>2. Planned(r, c.code, Entry({}))
    BY <1>2, <2>1, CloneTextPlanned DEF Entry
  <2> QED
    BY <2>2, SmallSuits DEF Calls
<1>5. CASE IsRef(w) /\ type # "string"
  <2>1. c.code = CloneObject(type, n)
    BY <1>5, CloneForms DEF Calls
  <2>2. Planned(r, c.code, Entry({"p"}))
    BY <1>2, <2>1, CloneObjectPlanned DEF Entry
  <2>3. Room(r) = 2
    BY <1>2 DEF Room, RoomOf
  <2>4. Room(r) \in Nat /\ r.params \subseteq Names /\ {"p"} \subseteq Names
    BY <1>2, <2>3 DEF Names
  <2>5. Valid(r, Entry({"p"}))
    BY ONLY <2>4, EntryValid
  <2>6. c.fn = "Lclone" /\ c.params = <<"p">> /\ c.words = <<w>>
    BY DEF Calls
  <2>7. Handed(c.words, hp)
    BY <2>6, HandedSmall
  <2>8. DOMAIN c.words = {1} /\ DOMAIN c.params = {1} /\ c.words[1] = w
    BY <2>6
  <2>9. \A j \in DOMAIN c.words : IsRef(c.words[j])
    BY <1>5, <2>8
  <2>10. ToSet(c.params) = {"p"} /\ {"p"} \subseteq Names \ {"c"}
    BY <1>1, <2>6 DEF Names
  <2>11. Suits(c, r, sys, hp, {"p"})
    BY <2>2, <2>3, <2>5, <2>6, <2>7, <2>8, <2>9, <2>10 DEF Suits
  <2> QED
    BY <2>11
<1> QED
  BY <1>3, <1>4, <1>5

(* The calls of the program that make an object,                           *)
LEMMA ObjectForms ==
  ASSUME NEW c \in ObjectCalls
  PROVE  \/ \E w \in Values : \E type, n : Calls(c, "Lclone", Lclone(w, type, n), <<"p">>, <<w>>)
         \/ \E v, w \in Values : Calls(c, "ListCons", ListCons, <<"p", "q">>, <<v, w>>)
         \/ \E n \in 0 .. MaxValues :
              \/ Calls(c, "LmakeArray", LmakeArray(n), << >>, << >>)
              \/ \E ws \in [1 .. n -> Values] :
                   \/ Calls(c, "Barray", Barray(n), ValueNames(n), ws)
                   \/ Calls(c, "Bsexp", Bsexp(n), ValueNames(n), ws)
                   \/ Calls(c, "Bclosure", Bclosure(n), ValueNames(n), ws)
<1>1. ASSUME NEW f, NEW code, NEW params, NEW words, NEW made,
             c = CallOf(f, code, params, words, made)
      PROVE  Calls(c, f, code, params, words)
  BY <1>1 DEF Calls, CallOf
<1> DEFINE Copies == {CopyOf(w) : w \in Values}
           Lists == {CallOf("ListCons", ListCons, <<"p", "q">>, <<v, w>>, Object("sexp", <<v, w>>)) :
                       v, w \in Values}
           Empty(n) == { CallOf("LmakeArray", LmakeArray(n), << >>, << >>,
                                Object("array", [k \in 1 .. n |-> Int0])) }
           Filled(n) == UNION {
             { CallOf("Barray", Barray(n), ValueNames(n), ws, Object("array", ws)),
               CallOf("Bsexp", Bsexp(n), ValueNames(n), ws, Object("sexp", ws)),
               CallOf("Bclosure", Bclosure(n), ValueNames(n), ws, Object("closure", ws)) }
             : ws \in WordsOfLength(n) }
           Made == UNION {Empty(n) \cup Filled(n) : n \in 0 .. MaxValues}
<1>2. ObjectCalls = Copies \cup Lists \cup Made
  BY DEF ObjectCalls
<1>3. ASSUME c \in Copies
      PROVE  \E w \in Values : \E type, n : Calls(c, "Lclone", Lclone(w, type, n), <<"p">>, <<w>>)
  <2>1. PICK w \in Values : c = CopyOf(w)
    BY <1>3
  <2>2. PICK type, n, made : c = CallOf("Lclone", Lclone(w, type, n), <<"p">>, <<w>>, made)
    <3>1. CASE IsRef(w)
      BY <2>1, <3>1, Zenon DEF CopyOf
    <3>2. CASE ~IsRef(w)
      BY <2>1, <3>2, Zenon DEF CopyOf
    <3> QED
      BY <3>1, <3>2
  <2> QED
    BY <1>1, <2>2
<1>4. ASSUME c \in Lists
      PROVE  \E v, w \in Values : Calls(c, "ListCons", ListCons, <<"p", "q">>, <<v, w>>)
  <2>1. PICK v \in Values, w \in Values :
               c = CallOf("ListCons", ListCons, <<"p", "q">>, <<v, w>>, Object("sexp", <<v, w>>))
    BY <1>4
  <2> QED
    BY <1>1, <2>1
<1>5. ASSUME NEW n, c \in Empty(n)
      PROVE  Calls(c, "LmakeArray", LmakeArray(n), << >>, << >>)
  BY <1>1, <1>5
<1>6. ASSUME NEW n, c \in Filled(n)
      PROVE  \E ws \in [1 .. n -> Values] :
               \/ Calls(c, "Barray", Barray(n), ValueNames(n), ws)
               \/ Calls(c, "Bsexp", Bsexp(n), ValueNames(n), ws)
               \/ Calls(c, "Bclosure", Bclosure(n), ValueNames(n), ws)
  <2>1. PICK ws \in [1 .. n -> Values] :
          \/ c = CallOf("Barray", Barray(n), ValueNames(n), ws, Object("array", ws))
          \/ c = CallOf("Bsexp", Bsexp(n), ValueNames(n), ws, Object("sexp", ws))
          \/ c = CallOf("Bclosure", Bclosure(n), ValueNames(n), ws, Object("closure", ws))
    BY <1>6 DEF WordsOfLength
  <2> QED
    BY <1>1, <2>1
<1> HIDE DEF Empty, Filled
<1>7. ASSUME c \in Made
      PROVE  \E n \in 0 .. MaxValues : c \in Empty(n) \/ c \in Filled(n)
  BY <1>7
<1> HIDE DEF Copies, Lists, Made
<1>8. CASE c \in Copies
  BY <1>3, <1>8
<1>9. CASE c \in Lists
  BY <1>4, <1>9
<1>10. CASE c \in Made
  BY <1>5, <1>6, <1>7, <1>10
<1> QED
  BY <1>2, <1>8, <1>9, <1>10

(* which are planned,                                                      *)
LEMMA ObjectSuits ==
  ASSUME NEW c \in ObjectCalls, NEW r, OfCall(r, c), r.own,
         \A w \in Values : Given1(w, heap)
  PROVE  \E refs : Suits(c, r, sysargs, heap, refs)
<1>1. ToSet(<< >>) = {} /\ ToSet(<<"p">>) = {"p"} /\ ToSet(<<"p", "q">>) = {"p", "q"}
  BY ToSetSmall
<1>2. Given1(Int0, heap)
  BY KnownWords
<1>3. ASSUME NEW w \in Values, NEW type, NEW n,
             Calls(c, "Lclone", Lclone(w, type, n), <<"p">>, <<w>>)
      PROVE  \E refs : Suits(c, r, sysargs, heap, refs)
  BY <1>3, CopySuits
<1>4. ASSUME NEW v \in Values, NEW w \in Values,
             Calls(c, "ListCons", ListCons, <<"p", "q">>, <<v, w>>)
      PROVE  Suits(c, r, sysargs, heap, {})
  <2>1. r.fn = "ListCons" /\ r.params = {"p", "q"}
    BY <1>1, <1>4 DEF Calls, OfCall
  <2>2. Planned(r, ListCons, Entry({}))
    BY <2>1, ListConsPlanned DEF Entry
  <2> QED
    BY <1>4, <2>2, SmallSuits DEF Calls
<1>5. ASSUME NEW n \in 0 .. MaxValues, Calls(c, "LmakeArray", LmakeArray(n), << >>, << >>)
      PROVE  Suits(c, r, sysargs, heap, {})
  <2>1. r.fn = "LmakeArray" /\ r.params = {}
    BY <1>1, <1>5 DEF Calls, OfCall
  <2>2. Planned(r, LmakeArray(n), Entry({}))
    BY <2>1, LmakeArrayPlanned DEF Entry
  <2> QED
    BY <1>2, <1>5, <2>2, SmallSuits DEF Calls
<1>6. ASSUME NEW n \in 0 .. MaxValues, NEW ws \in [1 .. n -> Values],
             Calls(c, "Barray", Barray(n), ValueNames(n), ws)
      PROVE  Suits(c, r, sysargs, heap, {})
  <2>1. r.fn = "Barray" /\ r.params = ToSet(ValueNames(n))
    BY <1>6 DEF Calls, OfCall
  <2>2. Planned(r, Barray(n), Entry({}))
    BY <2>1, BarrayPlanned DEF Entry
  <2> QED
    BY <1>6, <2>2, ManySuits DEF Calls
<1>7. ASSUME NEW n \in 0 .. MaxValues, NEW ws \in [1 .. n -> Values],
             Calls(c, "Bsexp", Bsexp(n), ValueNames(n), ws)
      PROVE  Suits(c, r, sysargs, heap, {})
  <2>1. r.fn = "Bsexp" /\ r.params = ToSet(ValueNames(n))
    BY <1>7 DEF Calls, OfCall
  <2>2. Planned(r, Bsexp(n), Entry({}))
    BY <2>1, BsexpPlanned DEF Entry
  <2> QED
    BY <1>7, <2>2, ManySuits DEF Calls
<1>8. ASSUME NEW n \in 0 .. MaxValues, NEW ws \in [1 .. n -> Values],
             Calls(c, "Bclosure", Bclosure(n), ValueNames(n), ws)
      PROVE  Suits(c, r, sysargs, heap, {})
  <2>1. r.fn = "Bclosure" /\ r.params = ToSet(ValueNames(n))
    BY <1>8 DEF Calls, OfCall
  <2>2. Planned(r, Bclosure(n), Entry({}))
    BY <2>1, BclosurePlanned DEF Entry
  <2> QED
    BY <1>8, <2>2, ManySuits DEF Calls
<1> QED
  BY <1>3, <1>4, <1>5, <1>6, <1>7, <1>8, ObjectForms

(* and the call that sets up the arguments of the program.                 *)
LEMMA StartSuits ==
  ASSUME NEW c \in StartCalls, NEW r, OfCall(r, c), r.own
  PROVE  Suits(c, r, sysargs, heap, {})
<1>1. PICK n \in 0 .. MaxValues, pFirst \in BOOLEAN :
         c = CallOf("SetArgs", SetArgs(n, pFirst), << >>, << >>, Object("args", << >>))
  BY DEF StartCalls
<1>2. sysargs = Int0
  BY DEF StartCalls
<1>3. c.fn = "SetArgs" /\ c.code = SetArgs(n, pFirst) /\ c.params = << >> /\ c.words = << >>
  BY <1>1 DEF CallOf
<1>4. r.fn = "SetArgs" /\ r.params = {}
  BY <1>3, ToSetSmall DEF OfCall
<1>5. Planned(r, c.code, Entry({}))
  BY <1>2, <1>3, <1>4, SetArgsPlanned DEF Entry
<1>6. Room(r) = 2
  BY <1>4 DEF Room, RoomOf
<1>7. Room(r) \in Nat /\ r.params \subseteq Names /\ {} \subseteq Names
  BY <1>4, <1>6
<1>8. Valid(r, Entry({}))
  BY ONLY <1>7, EntryValid
<1>9. ToSet(c.params) = {} /\ DOMAIN c.words = DOMAIN c.params /\ DOMAIN c.words = {}
  BY <1>3, ToSetSmall
<1> QED
  BY <1>2, <1>3, <1>5, <1>6, <1>8, <1>9 DEF Suits, Handed

(* The calling program enters a function.                                  *)
LEMMA MainEnters ==
  ASSUME NEW F, NEW top, NEW who, NEW pl, NEW sys, NEW hp, NEW P, NEW E, NEW good,
         Good(F, 1, top, who, pl, sys, hp, P, E, good),
         NEW f, FrameShape(f, Slots), f.params = Slots, \A v \in Slots : Given1(f.vars[v], hp),
         NEW c, NEW r, NEW refs, Suits(c, r, sys, hp, refs),
         NEW slot \in Slots, NEW fr, Enters(fr, c.fn, c.code, c.params, c.words, slot),
         who = "interpreter" => c.fn \in {"Bstring", "Lstring"},
         r = Role(Own(2, top), c.fn, ToSet(c.params)),
         NEW G, G = Atop(Atop(<< >>, f), fr)
  PROVE  Inv(G, top, pl, sys, hp, who, "none")
<1>1. 2 .. 1 = {} /\ 1 .. 1 = {1} /\ 0 .. 1 = {0, 1} /\ ~(1 >= 2) /\ 0 \in Nat /\ 0 + 1 = 1
  OBVIOUS
<1>2. PICK H, n, m : H = Atop(<< >>, f) /\ n = 1 /\ m = 2 /\ m = n + 1 /\ n \in Nat
  OBVIOUS
<1>3. Indexed(H, 1) /\ H[1] = f
  <2>1. Indexed(<< >>, 0)
    BY DEF Indexed
  <2>2. Indexed(Atop(<< >>, f), 0 + 1) /\ Atop(<< >>, f)[0 + 1] = f
    BY ONLY <1>1, <2>1, Grown
  <2> QED
    BY <1>1, <1>2, <2>2
<1>4. Shapes(H, 1) /\ Follows(H, 1, top, P) /\ Waits(H, 1, top, P) /\ Rooms(H, 1, top, E)
  BY <1>1, <1>3 DEF Shapes, Follows, Waits, Rooms
<1>5. TopSet(H, 1, top, who, P)
  BY <1>1 DEF Good, TopSet
<1>6. Words(H, 1, sys, hp)
  <2>1. DOMAIN f.vars = Slots
    BY DEF FrameShape
  <2> QED
    BY <1>1, <1>3, <2>1 DEF Good, Words, Given1
<1>7. Rest(H, n, top, who, pl, sys, hp, P, E)
  BY <1>1, <1>2, <1>4, <1>5, <1>6 DEF Good, Rest
<1>8. /\ ToSet(c.params) \subseteq Names \ {"c"} /\ DOMAIN c.words = DOMAIN c.params
      /\ Handed(c.words, hp) /\ refs \subseteq ToSet(c.params)
  BY DEF Suits
<1>9. /\ FrameShape(fr, Names) /\ fr.fn = c.fn /\ fr.code = c.code /\ fr.params = ToSet(c.params)
      /\ ~fr.setTop /\ fr.result = slot
      /\ \A v \in Names : /\ Word(fr.vars[v]) /\ fr.vars[v].fresh /\ Leads(fr.vars[v], hp)
                          /\ v \in ToSet(c.params) =>
                               \E j \in DOMAIN c.params : fr.vars[v] = c.words[j]
      /\ ~IsRef(fr.vars["c"])
  <2>1. Enters(fr, c.fn, c.code, c.params, c.words, slot)
    OBVIOUS
  <2> QED
    BY ONLY <1>8, <2>1, EnteredFrame
<1>10. Fits(fr, hp, refs)
  <2>1. ASSUME NEW v \in refs
        PROVE  IsRef(fr.vars[v])
    <3>1. v \in Names /\ v \in ToSet(c.params) /\ refs # {}
      BY <1>8
    <3>2. PICK j \in DOMAIN c.params : fr.vars[v] = c.words[j]
      BY <1>9, <3>1
    <3>3. IsRef(c.words[j])
      BY <1>8, <3>1 DEF Suits
    <3> QED
      BY <3>2, <3>3
  <2>2. refs \subseteq Names
    BY <1>8
  <2> QED
    BY <1>9, <2>1, <2>2 DEF Fits
<1>11. G = Atop(H, fr)
  BY <1>2
<1>12. Indexed(G, 2) /\ G[2] = fr
  <2>1. 1 \in Nat /\ 1 + 1 = 2
    OBVIOUS
  <2>2. Indexed(G, 1 + 1) /\ G[1 + 1] = fr
    BY <1>3, <1>11, <2>1, Grown
  <2> QED
    BY <2>1, <2>2
<1>13. /\ n >= 2 => Awaits(G, n, top, P[n])
       /\ \A k \in 2 .. n : Refs(G, k, P[k].refs \ {G[k + 1].result})
  BY <1>1, <1>2
<1>14. r = Role(Own(m, top), fr.fn, fr.params)
  BY <1>2, <1>9
<1>15. Planned(r, fr.code, Entry(refs)) /\ Valid(r, Entry(refs))
  BY <1>9 DEF Suits
<1>16. fr.fn # "Bclosure" => E[n] + Room(r) <= 3
  <2>1. E[1] \in {0, 1}
    BY DEF Good, Parts
  <2>2. fr.fn # "Bclosure" => Room(r) \in 0 .. 2
    BY <1>9 DEF Suits
  <2> QED
    BY <1>2, <2>1, <2>2
<1>17. Begins(G, m, who, sys)
  BY <1>2, <1>9, <1>12 DEF Begins, Suits
<1>18. m = n + 1
  BY <1>2
<1> QED
  BY ONLY <1>7, <1>10, <1>11, <1>13, <1>14, <1>15, <1>16, <1>17, <1>18, EnterInv

(* The program, or the interpreter for it, calls a function.               *)
LEMMA BeginCallKeeps ==
  ASSUME RRInv, BeginCall
  PROVE  RRInv'
<1>1. /\ exit = "none" /\ Len(frames) = 1
      /\ UNCHANGED <<poolVars, caller, heap, gcTop, sysargs>>
  BY DEF BeginCall
<1>2. PICK P, E, g : Good(frames, 1, gcTop, caller, pool, sysargs, heap, P, E, g)
  BY <1>1 DEF RRInv, Inv
<1>3. PICK f : f = frames[1]
  OBVIOUS
<1>4. Indexed(frames, 1) /\ FrameShape(f, Slots) /\ f.params = Slots
  BY <1>2, <1>3 DEF Good, Shapes
<1>5. This = f
  <2>1. 0 \in Nat /\ 1 \in Nat /\ 1 = 0 + 1
    OBVIOUS
  <2>2. Last(frames) = frames[1]
    BY ONLY <1>4, <2>1, Popped
  <2> QED
    BY <1>3, <2>2 DEF This
<1>6. \A v \in Slots : Given1(f.vars[v], heap)
  <2>1. DOMAIN f.vars = Slots /\ 1 \in 1 .. 1
    BY <1>4 DEF FrameShape
  <2> QED
    BY <1>2, <1>3, <2>1 DEF Good, Words, Given1
<1>7. \A w \in Values : Given1(w, heap)
  BY <1>3, <1>6 DEF Values
<1>8. PICK c \in Available, slot \in Slots :
         frames' = << IF caller = "interpreter" THEN [This EXCEPT !.vars[slot] = Int0] ELSE This,
                      Frame(c.fn, c.code, c.params, c.words, slot) >>
  BY DEF BeginCall
<1>9. PICK main, fr : /\ main = (IF caller = "interpreter" THEN Given(f, slot, Int0) ELSE f)
                      /\ fr = Frame(c.fn, c.code, c.params, c.words, slot)
  OBVIOUS
<1>10. FrameShape(main, Slots) /\ main.params = Slots /\ \A v \in Slots : Given1(main.vars[v], heap)
  <2>1. PICK h : h = Given(f, slot, Int0)
    OBVIOUS
  <2>2. /\ FrameShape(h, Slots) /\ SameFrame(f, h)
        /\ h.vars[slot] = Int0 /\ \A u \in Slots : u # slot => h.vars[u] = f.vars[u]
    BY <1>4, <2>1, GivenFrame
  <2>3. \A v \in Slots : Given1(h.vars[v], heap)
    BY <1>6, <2>2, KnownWords
  <2> QED
    BY <1>4, <1>6, <1>9, <2>1, <2>2, <2>3 DEF SameFrame
<1>11. PICK G : G = Atop(Atop(<< >>, main), fr)
  OBVIOUS
<1>12. frames' = G
  <2>1. frames' = <<main, fr>>
    BY <1>5, <1>8, <1>9 DEF Given
  <2>2. <<main, fr>> = Append(Append(<< >>, main), fr)
    OBVIOUS
  <2> QED
    BY <1>11, <2>1, <2>2 DEF Atop
<1>13. PICK r : r = Role(Own(2, gcTop), c.fn, ToSet(c.params))
  OBVIOUS
<1>14. OfCall(r, c)
  BY <1>13 DEF OfCall, Role
<1>15. gcTop \in 0 .. 1 /\ (gcTop = 1 <=> caller = "interpreter")
  BY <1>2 DEF Good, TopSet
<1>16. /\ \E refs : Suits(c, r, sysargs, heap, refs)
       /\ caller = "interpreter" => c.fn \in {"Bstring", "Lstring"}
  <2>1. CASE caller = "program"
    <3>1. r.own
      <4>1. gcTop = 0
        BY <1>15, <2>1
      <4>2. Own(2, gcTop)
        BY <4>1 DEF Own
      <4> QED
        BY <1>13, <4>2 DEF Role
    <3>2. c \in PlainCalls \/ c \in ObjectCalls \/ c \in StartCalls
      BY <2>1 DEF Available
    <3> QED
      BY <1>7, <1>14, <2>1, <3>1, <3>2, PlainSuits, ObjectSuits, StartSuits
  <2>2. CASE caller # "program"
    <3>1. c \in PlainCalls /\ c.fn \in {"Bstring", "Lstring"}
      BY <2>2 DEF Available, InterpreterCalls
    <3> QED
      BY <1>7, <1>14, <3>1, PlainSuits
  <2> QED
    BY <2>1, <2>2
<1>17. PICK refs : Suits(c, r, sysargs, heap, refs)
  BY <1>16
<1>18. Enters(fr, c.fn, c.code, c.params, c.words, slot)
  BY <1>9 DEF Enters
<1>19. Inv(G, gcTop, pool, sysargs, heap, caller, "none")
  BY ONLY <1>2, <1>10, <1>11, <1>13, <1>16, <1>17, <1>18, slot \in Slots, MainEnters
<1> QED
  BY <1>1, <1>12, <1>19 DEF RRInv, poolVars

-----------------------------------------------------------------------------
(***************************************************************************)
(* What is undefined                                                       *)
(***************************************************************************)
(* The collector is never given a word that leads nowhere.                 *)
LEMMA RootsFresh ==
  ASSUME NEW n, NEW P, NEW E, NEW good, n >= 2,
         Good(frames, n, gcTop, caller, pool, sysargs, heap, P, E, good)
  PROVE  \A w \in RootWords : w.fresh
<1>1. /\ n \in Nat /\ DOMAIN frames = 1 .. n /\ Shapes(frames, n) /\ Follows(frames, n, gcTop, P)
      /\ TopSet(frames, n, gcTop, caller, P) /\ Parts(n, P, E, pool, sysargs)
      /\ Words(frames, n, sysargs, heap) /\ gcTop \in 0 .. n
  BY DEF Good, Shapes, Indexed, TopSet
<1>2. ASSUME NEW k \in 2 .. n, NEW v \in Names, OnScannedStack(<<k, v>>)
      PROVE  frames[k].vars[v].fresh
  <2>1. <<k, v>>[1] = k /\ <<k, v>>[2] = v
    OBVIOUS
  <2>2. k < gcTop \/ (k = gcTop /\ v \in frames[k].params)
    BY <1>2, <2>1 DEF OnScannedStack
  <2>3. Own(k, gcTop)
    BY <1>1, <2>2 DEF Own
  <2>4. PICK r : r = RoleOf(frames, k, gcTop)
    OBVIOUS
  <2>5. r.own /\ r.params = frames[k].params
    BY <2>3, <2>4 DEF RoleOf, Role
  <2>6. k < gcTop => P[k].gc = "before"
    BY <1>1, <1>2 DEF TopSet
  <2>7. v \in Kept(r, P[k])
    BY <1>2, <2>2, <2>5, <2>6 DEF Kept, Scanned
  <2> QED
    BY <1>2, <2>4, <2>7 DEF Good, Keeps, Fresh
<1>3. ASSUME NEW k \in 2 .. n, NEW v \in Names, TimesInPool(<<k, v>>) > 0
      PROVE  frames[k].vars[v].fresh
  <2>1. PICK i \in DOMAIN pool : pool[i] = <<k, v>>
    <3>1. SUFFICES ASSUME {i \in DOMAIN pool : pool[i] = <<k, v>>} = {}
                   PROVE  FALSE
      OBVIOUS
    <3>2. TimesInPool(<<k, v>>) = 0
      BY <3>1, FS_EmptySet DEF TimesInPool
    <3> QED
      BY <1>3, <3>2
  <2>2. i \in 1 .. E[n]
    BY <1>1, <2>1 DEF Parts, Indexed
  <2>3. <<k, v>>[1] = k /\ <<k, v>>[2] = v /\ SysArgs[1] = 0 /\ k # 0
    BY DEF SysArgs
  <2>4. PICK l \in 2 .. n : InPart(l, P, E, pool, i)
    BY <1>1, <2>1, <2>2, <2>3 DEF Parts
  <2>5. PICK j \in 1 .. Len(P[l].stack) : pool[i] = <<l, P[l].stack[j]>>
    BY <2>4 DEF InPart
  <2>6. l = k /\ v = P[k].stack[j]
    BY <2>1, <2>5
  <2>7. v \in Registered(P[k])
    BY <2>5, <2>6 DEF Registered
  <2>8. v \in Kept(RoleOf(frames, k, gcTop), P[k])
    BY <1>3, <2>7 DEF Kept
  <2> QED
    BY <1>3, <2>8 DEF Good, Keeps, Fresh
<1>4. ASSUME NEW w \in RootWords
      PROVE  w.fresh
  <2>1. PICK c \in Cells : w = WordIn(c) /\ (OnScannedStack(c) \/ TimesInPool(c) > 0)
    BY <1>4 DEF RootWords
  <2>2. CASE c = SysArgs
    BY <1>1, <2>1, <2>2 DEF WordIn, Words
  <2>3. CASE c # SysArgs
    <3>1. PICK k \in DOMAIN frames : \E v \in DOMAIN frames[k].vars : c = <<k, v>>
      BY <2>1, <2>3 DEF Cells
    <3>0. PICK v \in DOMAIN frames[k].vars : c = <<k, v>>
      BY <3>1
    <3>2. w = frames[k].vars[v]
      BY <2>1, <2>3, <3>0 DEF WordIn
    <3>3. CASE k = 1
      <4>1. DOMAIN frames[1].vars = Slots
        BY <1>1 DEF Shapes, FrameShape
      <4> QED
        BY <1>1, <3>0, <3>2, <3>3, <4>1 DEF Words
    <3>4. CASE k \in 2 .. n
      <4>1. DOMAIN frames[k].vars = Names
        BY <1>1, <3>4 DEF Shapes, FrameShape
      <4> QED
        BY <1>2, <1>3, <2>1, <3>0, <3>2, <3>4, <4>1
    <3> QED
      BY <1>1, <3>1, <3>3, <3>4
  <2> QED
    BY <2>2, <2>3
<1> QED
  BY <1>4

(* Nothing stale is followed but by Bsexp, when : calls it, and by set_args*)
LEMMA OnlyKnownFollow ==
  ASSUME NEW F, NEW n, NEW top, NEW who, NEW pl, NEW sys, NEW hp, NEW P, NEW E, NEW B,
         Ready(F, n, top, who, pl, sys, hp, P, E, B),
         NEW i, i = Head(F[n].code), NEW v \in Followed(i), ~F[n].vars[v].fresh
  PROVE  Ended(F, n, sys, "stale")
<1>1. /\ n \in Nat /\ n >= 2 /\ n \in 2 .. n /\ top \in 0 .. n
      /\ Valid(RoleOf(F, n, top), P[n]) /\ Fresh(F, n, P[n].good)
      /\ Waits(F, n, top, P) /\ TopSet(F, n, top, who, P)
  BY ReadyFacts
<1>2. PICK r : r = RoleOf(F, n, top)
  OBVIOUS
<1>3. r.fn = F[n].fn /\ (r.own <=> Own(n, top))
  <2>1. r = [own |-> Own(n, top), fn |-> F[n].fn, params |-> F[n].params]
    BY <1>2 DEF RoleOf, Role
  <2> QED
    BY <2>1, Zenon
<1>4. MayStep(r, i, P[n], B)
  BY <1>2 DEF Ready
<1>5. v \notin P[n].good
  BY <1>1 DEF Fresh
<1>6. n > 2 => F[n].fn \in Callees /\ (F[n].fn = "Bsexp" => F[n - 1].fn = "ListCons")
  <2>1. ASSUME n > 2
        PROVE  F[n].fn \in Callees /\ (F[n].fn = "Bsexp" => F[n - 1].fn = "ListCons")
    <3>1. n - 1 \in 2 .. n /\ n - 1 < n /\ n - 1 + 1 = n
      BY <1>1, <2>1
    <3>2. Awaits(F, n - 1, top, P[n - 1])
      BY <1>1, <3>1 DEF Waits
    <3> QED
      BY <3>1, <3>2 DEF Awaits
  <2> QED
    BY <2>1
<1>7. CASE i.do \in {"use", "return", "global"}
  <2>1. v = i.v
    BY <1>7 DEF Followed
  <2>2. i.v \in P[n].good
    <3>1. i.do = "use" => AccessRule(r, i, P[n], B)
      BY <1>1, <1>2, <1>4, RuleFor
    <3>2. i.do \in {"return", "global"} => EndRule(r, i, P[n], B)
      BY <1>1, <1>2, <1>4, RuleFor
    <3> QED
      BY <1>7, <3>1, <3>2 DEF AccessRule, EndRule
  <2> QED
    BY <1>5, <2>1, <2>2
<1>8. CASE i.do = "copy"
  <2>1. v = i.v \/ v = i.from
    BY <1>8 DEF Followed
  <2>2. AccessRule(r, i, P[n], B)
    BY <1>1, <1>2, <1>4, <1>8, RuleFor
  <2> QED
    BY <1>5, <1>8, <2>1, <2>2 DEF AccessRule
<1>9. CASE i.do = "store"
  <2>1. v = i.v \/ v = i.from
    BY <1>9 DEF Followed
  <2>2. AccessRule(r, i, P[n], B)
    BY <1>1, <1>2, <1>4, <1>9, RuleFor
  <2>3. r.fn = "SetArgs"
    BY <1>5, <1>9, <2>1, <2>2 DEF AccessRule, Excused
  <2>4. n = 2
    BY <1>1, <1>3, <1>6, <2>3 DEF Callees
  <2> QED
    BY <1>3, <1>9, <2>3, <2>4 DEF Ended
<1>10. CASE i.do = "fill"
  <2>1. v \in {i.v} \cup ToSet(i.from)
    BY <1>10 DEF Followed
  <2>2. AccessRule(r, i, P[n], B)
    BY <1>1, <1>2, <1>4, <1>10, RuleFor
  <2>3. r.fn = "Bsexp" /\ ~r.own
    BY <1>5, <1>10, <2>1, <2>2 DEF AccessRule, Excused
  <2>4. F[n].fn = "Bsexp" /\ top # 0 /\ top < n
    BY <1>1, <1>3, <2>3 DEF Own
  <2>5. n # 2
    <3>1. SUFFICES ASSUME n = 2
                   PROVE  FALSE
      OBVIOUS
    <3>2. who = "interpreter"
      BY <1>1, <2>4, <3>1 DEF TopSet
    <3> QED
      BY <2>4, <3>1, <3>2 DEF Ready, Good, Begins
  <2>6. F[n - 1].fn = "ListCons"
    BY <1>1, <1>6, <2>4, <2>5
  <2>7. n = 3
    <3>1. SUFFICES ASSUME n > 3
                   PROVE  FALSE
      BY <1>1, <2>5
    <3>2. n - 2 \in 2 .. n /\ n - 2 < n /\ n - 2 + 1 = n - 1
      BY <1>1, <3>1
    <3>3. F[n - 1].fn \in Callees
      BY <1>1, <3>2 DEF Waits, Awaits
    <3> QED
      BY <2>6, <3>3 DEF Callees
  <2>8. F[2].fn = "ListCons" /\ F[3].fn = "Bsexp"
    BY <2>4, <2>6, <2>7
  <2> QED
    BY <2>7, <2>8 DEF Ended
<1> QED
  BY <1>7, <1>8, <1>9, <1>10 DEF Followed

(* A use of a stale word ends the run, and only Bsexp and set_args make    *)
(* one.                                                                    *)
LEMMA UndefinedKeeps ==
  ASSUME RRInv, Undefined
  PROVE  RRInv'
<1>1. InCall
  BY DEF Undefined
<1>2. PICK P, E, B, n : /\ Ready(frames, n, gcTop, caller, pool, sysargs, heap, P, E, B)
                        /\ This = frames[n]
  BY <1>1, InnerReady
<1>3. /\ n = Len(frames) /\ n >= 2
      /\ Good(frames, n, gcTop, caller, pool, sysargs, heap, P, E, P[n].good)
  BY <1>2 DEF Ready
<1>4. FollowsStale
  BY <1>3, RootsFresh DEF Undefined
<1>5. PICK v \in Followed(Instr) : ~Value(v).fresh
  BY <1>4 DEF FollowsStale
<1>6. Ended(frames, n, sysargs, "stale")
  <2>1. PICK i : i = Head(frames[n].code)
    OBVIOUS
  <2>2. v \in Followed(i) /\ ~frames[n].vars[v].fresh
    BY <1>2, <1>5, <2>1 DEF Instr, Value
  <2> QED
    BY <1>2, <2>1, <2>2, OnlyKnownFollow
<1>7. Base(frames, n, gcTop, pool, sysargs, heap, P, E)
  BY <1>3, BaseOfGood
<1>8. Inv(frames, gcTop, pool, sysargs, heap, caller, "stale")
  BY <1>3, <1>6, <1>7 DEF Inv
<1> QED
  BY <1>8 DEF Undefined, RRInv

-----------------------------------------------------------------------------
(***************************************************************************)
(* The theorems                                                            *)
(***************************************************************************)
LEMMA InitHolds ==
  RRInit => RRInv
<1> SUFFICES ASSUME RRInit
             PROVE  RRInv
  OBVIOUS
<1>1. PICK P, E : P = [k \in 1 .. 1 |-> Entry({})] /\ E = [k \in 1 .. 1 |-> 0]
  OBVIOUS
<1>2. PICK f : f = Main
  OBVIOUS
<1>3. FrameShape(f, Slots) /\ f.params = Slots /\ f.vars = [s \in Slots |-> Int0]
  <2>1. f = [ fn |-> "main", code |-> << >>, params |-> Slots,
              vars |-> [s \in Slots |-> Int0], setTop |-> FALSE, result |-> "none" ]
    BY <1>2 DEF Main
  <2> QED
    BY <2>1 DEF FrameShape
<1>4. Indexed(frames, 1) /\ frames[1] = f
  BY <1>2 DEF RRInit, Indexed
<1>5. Word(Int0) /\ Int0.fresh /\ Leads(Int0, heap)
  BY KnownWords DEF Given1
<1>6. \A v \in Slots : Word(f.vars[v]) /\ f.vars[v].fresh /\ Leads(f.vars[v], heap)
  BY <1>3, <1>5
<1>7. gcTop \in {0, 1} /\ (gcTop = 1 <=> caller = "interpreter")
  BY DEF RRInit
<1>8. sysargs = Int0 /\ pool = << >> /\ heap = << >> /\ exit = "none"
  BY DEF RRInit, PoolInit
<1>9. Parts(1, P, E, pool, sysargs)
  <2>1. 2 .. 1 = {} /\ 1 .. 1 = {1} /\ 1 .. 0 = {} /\ E[1] = 0
    BY <1>1
  <2>2. Indexed(pool, 0)
    BY <1>8 DEF Indexed
  <2> QED
    BY <1>8, <2>1, <2>2 DEF Parts
<1>10. Heap(heap)
  <2>1. DOMAIN heap = {} /\ heap = [o \in DOMAIN heap |-> heap[o]]
    BY <1>8
  <2> QED
    BY <2>1, FS_EmptySet DEF Heap
<1>11. Inv(frames, gcTop, pool, sysargs, heap, caller, "none")
  BY <1>3, <1>4, <1>5, <1>6, <1>7, <1>8, <1>9, <1>10, MainInv
<1> QED
  BY <1>8, <1>11 DEF RRInv

(* Every step keeps the invariant.                                         *)
LEMMA NextKeeps ==
  ASSUME MaxRoots >= 3, RRInv, [RRNext]_rrVars
  PROVE  RRInv'
<1>1. CASE UNCHANGED rrVars
  BY <1>1 DEF rrVars, poolVars, RRInv
<1>2. CASE RRNext
  BY <1>2, BeginCallKeeps, EnterGCKeeps, LeaveGCKeeps, RegisterKeeps, UnregisterKeeps,
     AccessKeeps, FillObjectKeeps, CopyObjectKeeps, StoreElementKeeps, TakeVariableKeeps,
     CallFunctionKeeps, NewObjectKeeps, ReturnValueKeeps, KeepSysArgsKeeps, UndefinedKeeps
     DEF RRNext
<1> QED
  BY <1>1, <1>2

(* The root discipline (RuntimeRoots): in every reachable state each       *)
(* function on the stack follows a plan, the pool is made of the parts the *)
(* plans say, and each word a plan needs is good.                          *)
THEOREM RootsInvariant ==
  ASSUME MaxRoots >= 3
  PROVE  RRSpec => []RRInv
<1>1. RRInv /\ [RRNext]_rrVars => RRInv'
  <2> SUFFICES ASSUME RRInv, [RRNext]_rrVars
               PROVE  RRInv'
    OBVIOUS
  <2> QED
    BY NextKeeps
<1> QED
  BY <1>1, InitHolds, PTL DEF RRSpec

(* Every word and frame is of its kind, and __gc_stack_top is in a frame   *)
(* that is there (RootsTypeOK), for every number of roots, slots, values   *)
(* and calls.                                                              *)
THEOREM RootsTypeCorrect ==
  ASSUME MaxRoots >= 3
  PROVE  RRSpec => []RootsTypeOK
<1>1. RRInv => RootsTypeOK
  BY PropertiesHold
<1> QED
  BY <1>1, RootsInvariant, PTL

(* The pool of extra roots follows the calls: what push_extra_root has put *)
(* there is a variable of a function that has not returned, inner ones     *)
(* after outer ones, above global_sysargs.                                 *)
THEOREM PoolFollows ==
  ASSUME MaxRoots >= 3
  PROVE  RRSpec => []PoolFollowsCalls
<1>1. RRInv => PoolFollowsCalls
  BY PropertiesHold
<1> QED
  BY <1>1, RootsInvariant, PTL

(* No runtime function meets an empty pool or another variable than it     *)
(* pops, and only a closure of many values runs out of places.             *)
THEOREM PoolErrorsKnown ==
  ASSUME MaxRoots >= 3
  PROVE  RRSpec => []PoolErrors
<1>1. RRInv => PoolErrors
  BY PropertiesHold
<1> QED
  BY <1>1, RootsInvariant, PTL

(* No runtime function uses a variable the collector has left behind, but  *)
(* Bsexp called by the operator :, and set_args.                           *)
THEOREM StaleOnlyWhereKnown ==
  ASSUME MaxRoots >= 3
  PROVE  RRSpec => []StaleOnlyKnown
<1>1. RRInv => StaleOnlyKnown
  BY PropertiesHold
<1> QED
  BY <1>1, RootsInvariant, PTL
=============================================================================
