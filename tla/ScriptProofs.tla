---------------------------- MODULE ScriptProofs ----------------------------
(***************************************************************************)
(* Every script of a runtime function (RuntimeRoots) can be carried out as *)
(* planned: what it registers it unregisters, in the opposite order, and   *)
(* it follows no variable that a collection has left behind, but Bsexp     *)
(* when another function calls it, and set_args.                           *)
(***************************************************************************)
EXTENDS RuntimeRoots, BasicFacts

-----------------------------------------------------------------------------
(***************************************************************************)
(* Plans of scripts                                                        *)
(***************************************************************************)

(* What is known of a frame between two steps of its script: the variables *)
(* it has in the pool, the part of the collector's protocol it is in, which*)
(* variables certainly hold references, and which of them no collection    *)
(* has left behind.                                                        *)
Plan(stack, gc, refs, good) == [stack |-> stack, gc |-> gc, refs |-> refs, good |-> good]

Finished == Plan(<< >>, "done", {}, {})

Registered(A) == {A.stack[i] : i \in 1 .. Len(A.stack)}

(* A function as the collector sees it: whether its frame is the scanned   *)
(* stack's last when it collects, its name, its parameters.                *)
Role(own, fn, params) == [own |-> own, fn |-> fn, params |-> params]

Callees == {"LmakeString", "LmakeArray", "Bstring", "Bsexp"}

(* the most variables a function and those it calls have in the pool       *)
RoomOf(fn) ==
  CASE fn = "Bstring" -> 1
    [] fn \in {"LmakeString", "LmakeArray", "Bsexp"} -> 0
    [] OTHER -> 2

Room(r) == IF r.fn = "Bclosure" THEN Cardinality(r.params) + 1 ELSE RoomOf(r.fn)

Scanned(r) == IF r.own THEN r.params ELSE {}

(* The variables that a collection in this function, or in one it calls,   *)
(* gives the new addresses.                                                *)
Kept(r, A) ==
  IF r.own /\ A.gc = "before" THEN Names ELSE Registered(A) \cup Scanned(r)

Valid(r, A) ==
  /\ A.gc \in {"before", "in", "after"}
  /\ Len(A.stack) \in Nat /\ Len(A.stack) <= Room(r)
  /\ \A i \in 1 .. Len(A.stack) : A.stack[i] \in Names
  /\ \A i, j \in 1 .. Len(A.stack) : A.stack[i] = A.stack[j] => i = j
  /\ Kept(r, A) \subseteq A.good
  /\ A.refs \subseteq Names /\ A.good \subseteq Names

Assigned(r, A, v) == v \in Names /\ v \notin r.params /\ v \notin Registered(A) /\ v # "c"

Excused(r, i) ==
  \/ i.do = "fill" /\ r.fn = "Bsexp" /\ ~r.own
  \/ i.do = "store" /\ r.fn = "SetArgs"

Forgets(A, B) == B.refs \subseteq A.refs /\ B.good \subseteq A.good

Stays(A, B) == B.stack = A.stack /\ B.gc = A.gc

(* The rules: entering and leaving the protocol, *)
GCRule(i, A, B) ==
  /\ \/ i.do = "pre" /\ A.gc = "before" /\ B.gc = "in"
     \/ i.do = "post" /\ A.gc = "in" /\ B.gc = "after"
  /\ B.stack = A.stack /\ Forgets(A, B)

(* registering and unregistering,                                          *)
Longer(S, T, v) ==
  /\ Len(T) = Len(S) + 1 /\ T[Len(S) + 1] = v
  /\ \A k \in 1 .. Len(S) : T[k] = S[k]

PushRule(i, A, B) ==
  /\ i.do = "push" /\ i.v \in A.good /\ i.v \notin Registered(A)
  /\ Longer(A.stack, B.stack, i.v) /\ B.gc = A.gc /\ Forgets(A, B)

PopRule(i, A, B) ==
  /\ i.do = "pop" /\ Len(B.stack) \in Nat
  /\ Longer(B.stack, A.stack, i.v) /\ B.gc = A.gc /\ Forgets(A, B)

(* following variables to objects,                                         *)
AccessRule(r, i, A, B) ==
  /\ \/ i.do = "use" /\ i.v \in A.good
     \/ /\ i.do = "fill" /\ i.v \in A.refs /\ ToSet(i.from) \subseteq Names
        /\ Excused(r, i) \/ {i.v} \cup ToSet(i.from) \subseteq A.good
     \/ i.do = "copy" /\ {i.v, i.from} \subseteq A.refs /\ {i.v, i.from} \subseteq A.good
     \/ /\ i.do = "store" /\ i.v \in A.refs /\ i.from \in Names
        /\ Excused(r, i) \/ {i.v, i.from} \subseteq A.good
  /\ Stays(A, B) /\ Forgets(A, B)

(* giving variables new values,                                            *)
TakeRule(r, i, A, B) ==
  /\ i.do = "take" /\ Assigned(r, A, i.v) /\ i.from \in Names
  /\ Stays(A, B)
  /\ B.refs \subseteq (A.refs \ {i.v}) \cup (IF i.from \in A.refs THEN {i.v} ELSE {})
  /\ B.good \subseteq (A.good \ {i.v}) \cup (IF i.from \in A.good THEN {i.v} ELSE {})

Learns(r, i, A, B) ==
  /\ Assigned(r, A, i.v) /\ Stays(A, B)
  /\ B.refs \subseteq A.refs \cup {i.v} /\ B.good \subseteq Kept(r, A) \cup {i.v, "c"}

NewRule(r, i, A, B) == i.do = "new" /\ A.gc = "in" /\ Learns(r, i, A, B)

Callable(f, n, args) ==
  f \in Callees /\ n \in 0 .. MaxValues /\ DOMAIN args = DOMAIN Parameters(f, n)

CallRule(r, i, A, B) ==
  /\ i.do = "call" /\ A.gc \in {"before", "in"} /\ Learns(r, i, A, B)
  /\ Callable(i.f, i.n, i.args) /\ ToSet(i.args) \subseteq A.good
  /\ Len(A.stack) + RoomOf(i.f) <= Room(r) /\ r.fn # "Bclosure"
  /\ i.f = "Bsexp" => r.fn = "ListCons" /\ A.gc = "in"

(* and ending.                                                             *)
EndRule(r, i, A, B) ==
  /\ \/ i.do = "return" /\ (r.fn \in Callees => i.v \in A.refs)
     \/ i.do = "global" /\ r.fn = "SetArgs" /\ i.v \in A.refs
  /\ A.gc # "in" /\ Len(A.stack) = 0 /\ i.v \in A.good
  /\ B.gc = "done"

MayStep(r, i, A, B) ==
  /\ B.gc # "done" => Valid(r, B)
  /\ \/ GCRule(i, A, B) \/ PushRule(i, A, B) \/ PopRule(i, A, B)
     \/ AccessRule(r, i, A, B) \/ TakeRule(r, i, A, B) \/ NewRule(r, i, A, B)
     \/ CallRule(r, i, A, B) \/ EndRule(r, i, A, B)

(* A script can be carried out as planned to its end.                      *)
Planned(r, code, A) ==
  \E S : /\ <<code, A>> \in S
         /\ \A c, X : <<c, X>> \in S =>
              X.gc = "done" \/ \E B : MayStep(r, Head(c), X, B) /\ <<Tail(c), B>> \in S

(* A script that is planned goes on: its first step is allowed, and what   *)
(* is left is planned again.                                               *)
LEMMA PlannedStep ==
  ASSUME NEW r, NEW code, NEW A, Planned(r, code, A), A.gc # "done"
  PROVE  \E B : MayStep(r, Head(code), A, B) /\ Planned(r, Tail(code), B)
<1>1. PICK S : /\ <<code, A>> \in S
               /\ \A c, X : <<c, X>> \in S =>
                    X.gc = "done" \/ \E B : MayStep(r, Head(c), X, B) /\ <<Tail(c), B>> \in S
  BY Zenon DEF Planned
<1>2. PICK B : MayStep(r, Head(code), A, B) /\ <<Tail(code), B>> \in S
  BY <1>1, Zenon
<1> QED
  BY <1>1, <1>2, Zenon DEF Planned

(* A plan for every position of a script.                                  *)
LEMMA PlanByPositions ==
  ASSUME NEW r, NEW L \in Nat, NEW code, Indexed(code, L), NEW X,
         \A j \in 1 .. L : MayStep(r, code[j], X[j], X[j + 1]),
         NEW m, m = L + 1, X[m].gc = "done"
  PROVE  Planned(r, code, X[1])
<1> DEFINE rest(j) == [i \in 1 .. L + 1 - j |-> code[j - 1 + i]]
           S == {<<rest(j), X[j]>> : j \in 1 .. L + 1}
<1>1. <<code, X[1]>> \in S
  <2>1. rest(1) = [i \in 1 .. L |-> code[i]]
    OBVIOUS
  <2>2. rest(1) = code /\ 1 \in 1 .. L + 1
    BY <2>1 DEF Indexed
  <2> QED
    BY <2>2
<1>2. ASSUME NEW c, NEW Y, <<c, Y>> \in S, Y.gc # "done"
      PROVE  \E B : MayStep(r, Head(c), Y, B) /\ <<Tail(c), B>> \in S
  <2>1. PICK j \in 1 .. L + 1 : c = rest(j) /\ Y = X[j]
    BY <1>2
  <2>2. j \in 1 .. L /\ j + 1 \in 1 .. L + 1
    BY <1>2, <2>1
  <2>3. Head(c) = code[j] /\ Tail(c) = rest(j + 1)
    <3> DEFINE T == {code[i] : i \in 1 .. L}
    <3>1. PICK n \in Nat : n = L + 1 - j /\ n > 0
      BY <2>2
    <3>2. c = [i \in 1 .. n |-> c[i]] /\ \A i \in 1 .. n : c[i] = code[j - 1 + i]
      BY <2>1, <3>1
    <3>3. \A i \in 1 .. n : c[i] \in T
      BY <3>1, <3>2, <2>2
    <3> HIDE DEF T
    <3>4. c \in Seq(T) /\ Len(c) = n /\ c # << >>
      BY <3>1, <3>2, <3>3, SeqByPositions, EmptySeq
    <3>5. /\ Head(c) = c[1] /\ Tail(c) \in Seq(T) /\ Len(Tail(c)) = n - 1
          /\ \A i \in 1 .. n - 1 : Tail(c)[i] = c[i + 1]
      BY <3>1, <3>4, HeadTailProperties
    <3>6. Tail(c) = [i \in 1 .. n - 1 |-> Tail(c)[i]]
      <4>1. PICK t : t = Tail(c)
        OBVIOUS
      <4>2. DOMAIN t = 1 .. n - 1 /\ t \in [1 .. Len(t) -> T]
        BY <3>5, <4>1, LenProperties
      <4> QED
        BY <4>1, <4>2
    <3>7. \A i \in 1 .. n - 1 : Tail(c)[i] = code[j + i]
      <4>1. ASSUME NEW i \in 1 .. n - 1
            PROVE  i + 1 \in 1 .. n /\ j - 1 + (i + 1) = j + i
        BY <3>1
      <4> QED
        BY <3>2, <3>5, <4>1
    <3>8. rest(j + 1) = [i \in 1 .. n - 1 |-> code[j + i]]
      BY <3>1
    <3>9. Tail(c) = rest(j + 1)
      BY <3>6, <3>7, <3>8
    <3>10. c[1] = code[j]
      BY <3>1, <3>2
    <3> QED
      BY <3>5, <3>9, <3>10
  <2>4. MayStep(r, code[j], X[j], X[j + 1]) /\ <<rest(j + 1), X[j + 1]>> \in S
    BY <2>2
  <2> QED
    BY <2>1, <2>3, <2>4
<1> HIDE DEF S
<1> QED
  BY <1>1, <1>2 DEF Planned

-----------------------------------------------------------------------------
(***************************************************************************)
(* The rules, for plans that are given by their parts                      *)
(***************************************************************************)
LEMMA PlanParts ==
  \A s, gc, R, G : LET A == Plan(s, gc, R, G) IN
     A.stack = s /\ A.gc = gc /\ A.refs = R /\ A.good = G
  BY DEF Plan

(* What is registered when the stack of roots has none, one or two.        *)
LEMMA SmallStacks ==
  /\ Len(<< >>) = 0
  /\ \A x : Len(<<x>>) = 1 /\ <<x>>[1] = x
  /\ \A x, y : Len(<<x, y>>) = 2 /\ <<x, y>>[1] = x /\ <<x, y>>[2] = y
  /\ 1 .. 0 = {} /\ 1 .. 1 = {1} /\ 1 .. 2 = {1, 2}
  /\ \A gc, R, G : Registered(Plan(<< >>, gc, R, G)) = {}
  /\ \A x, gc, R, G : Registered(Plan(<<x>>, gc, R, G)) = {x}
  /\ \A x, y, gc, R, G : Registered(Plan(<<x, y>>, gc, R, G)) = {x, y}
  BY DEF Registered, Plan

(* A plan without roots is a valid one.                                    *)
LEMMA ValidNone ==
  ASSUME NEW r, NEW gc, gc \in {"before", "in", "after"}, Room(r) \in Nat,
         NEW R, R \subseteq Names, NEW G, G \subseteq Names, Scanned(r) \subseteq G,
         (r.own /\ gc = "before") => G = Names
  PROVE  Valid(r, Plan(<< >>, gc, R, G))
  BY PlanParts, SmallStacks DEF Valid, Kept

(* So is a plan with one root, which is good.                              *)
LEMMA ValidOne ==
  ASSUME NEW r, NEW gc, gc \in {"in", "after"}, Room(r) \in Nat, Room(r) >= 1,
         NEW R, R \subseteq Names, NEW G, G \subseteq Names, Scanned(r) \subseteq G,
         NEW x \in G
  PROVE  Valid(r, Plan(<<x>>, gc, R, G))
<1> DEFINE A == Plan(<<x>>, gc, R, G)
<1>1. /\ A.stack = <<x>> /\ A.gc = gc /\ A.refs = R /\ A.good = G /\ Registered(A) = {x}
      /\ Len(<<x>>) = 1 /\ <<x>>[1] = x /\ 1 .. 1 = {1}
  BY PlanParts, SmallStacks
<1> HIDE DEF A
<1>2. Len(A.stack) \in Nat /\ Len(A.stack) <= Room(r)
  BY <1>1
<1>3. /\ \A i \in 1 .. Len(A.stack) : A.stack[i] \in Names
      /\ \A i, j \in 1 .. Len(A.stack) : A.stack[i] = A.stack[j] => i = j
  BY <1>1
<1>4. Kept(r, A) \subseteq A.good
  BY <1>1 DEF Kept
<1>5. Valid(r, A)
  BY <1>1, <1>2, <1>3, <1>4 DEF Valid
<1> QED
  BY <1>5 DEF A

(* So is a plan with two different roots, which are good.                  *)
LEMMA ValidTwo ==
  ASSUME NEW r, NEW gc, gc \in {"in", "after"}, Room(r) \in Nat, Room(r) >= 2,
         NEW R, R \subseteq Names, NEW G, G \subseteq Names, Scanned(r) \subseteq G,
         NEW x \in G, NEW y \in G, x # y
  PROVE  Valid(r, Plan(<<x, y>>, gc, R, G))
<1> DEFINE A == Plan(<<x, y>>, gc, R, G)
<1>1. /\ A.stack = <<x, y>> /\ A.gc = gc /\ A.refs = R /\ A.good = G /\ Registered(A) = {x, y}
      /\ Len(<<x, y>>) = 2 /\ <<x, y>>[1] = x /\ <<x, y>>[2] = y /\ 1 .. 2 = {1, 2}
  BY PlanParts, SmallStacks
<1> HIDE DEF A
<1>2. Len(A.stack) \in Nat /\ Len(A.stack) <= Room(r)
  BY <1>1
<1>3. /\ \A i \in 1 .. Len(A.stack) : A.stack[i] \in Names
      /\ \A i, j \in 1 .. Len(A.stack) : A.stack[i] = A.stack[j] => i = j
  BY <1>1
<1>4. Kept(r, A) \subseteq A.good
  BY <1>1 DEF Kept
<1>5. Valid(r, A)
  BY <1>1, <1>2, <1>3, <1>4 DEF Valid
<1> QED
  BY <1>5 DEF A

(* What PRE_GC may do to a plan.                                           *)
LEMMA RulePre ==
  ASSUME NEW r, NEW s, NEW R, NEW G, NEW Q, NEW H, Q \subseteq R, H \subseteq G,
         Valid(r, Plan(s, "in", Q, H))
  PROVE  MayStep(r, Pre, Plan(s, "before", R, G), Plan(s, "in", Q, H))
  BY PlanParts DEF MayStep, GCRule, Pre, Forgets

(* What POST_GC may do to it.                                              *)
LEMMA RulePost ==
  ASSUME NEW r, NEW s, NEW R, NEW G, NEW Q, NEW H, Q \subseteq R, H \subseteq G,
         Valid(r, Plan(s, "after", Q, H))
  PROVE  MayStep(r, Post, Plan(s, "in", R, G), Plan(s, "after", Q, H))
  BY PlanParts DEF MayStep, GCRule, Post, Forgets

(* A read of a good variable.                                              *)
LEMMA RuleUse ==
  ASSUME NEW r, NEW s, NEW gc, NEW R, NEW G, NEW Q, NEW H, Q \subseteq R, H \subseteq G,
         NEW v \in G, Valid(r, Plan(s, gc, Q, H))
  PROVE  MayStep(r, Use(v), Plan(s, gc, R, G), Plan(s, gc, Q, H))
  BY PlanParts DEF MayStep, AccessRule, Use, Forgets, Stays

(* push_extra_root, by a function without a root or with one.              *)
LEMMA RulePushes ==
  ASSUME NEW r, NEW gc, NEW R, NEW G, NEW Q, NEW H, Q \subseteq R, H \subseteq G,
         NEW v \in G, NEW x
  PROVE  /\ Valid(r, Plan(<<v>>, gc, Q, H)) =>
              MayStep(r, Push(v), Plan(<< >>, gc, R, G), Plan(<<v>>, gc, Q, H))
         /\ x # v /\ Valid(r, Plan(<<x, v>>, gc, Q, H)) =>
              MayStep(r, Push(v), Plan(<<x>>, gc, R, G), Plan(<<x, v>>, gc, Q, H))
<1>1. Push(v).do = "push" /\ Push(v).v = v
  BY DEF Push
<1>2. Longer(<< >>, <<v>>, v) /\ Longer(<<x>>, <<x, v>>, v)
  <2>1. Len(<< >>) + 1 = 1 /\ Len(<<x>>) + 1 = 2 /\ Len(<<v>>) = 1 /\ Len(<<x, v>>) = 2
    BY SmallStacks
  <2>2. 1 .. Len(<< >>) = {} /\ 1 .. Len(<<x>>) = {1}
    BY SmallStacks
  <2>3. <<v>>[1] = v /\ <<x, v>>[2] = v /\ <<x, v>>[1] = <<x>>[1]
    BY SmallStacks
  <2> QED
    BY <2>1, <2>2, <2>3 DEF Longer
<1>3. Len(<< >>) \in Nat /\ Len(<<x>>) \in Nat
  BY SmallStacks
<1>4. /\ Registered(Plan(<< >>, gc, R, G)) = {}
      /\ Registered(Plan(<<x>>, gc, R, G)) = {x}
  BY SmallStacks
<1>5. PushRule(Push(v), Plan(<< >>, gc, R, G), Plan(<<v>>, gc, Q, H))
  BY <1>1, <1>2, <1>3, <1>4, PlanParts DEF PushRule, Forgets
<1>6. x # v => PushRule(Push(v), Plan(<<x>>, gc, R, G), Plan(<<x, v>>, gc, Q, H))
  BY <1>1, <1>2, <1>3, <1>4, PlanParts DEF PushRule, Forgets
<1> QED
  BY <1>5, <1>6, Zenon DEF MayStep

(* pop_extra_root, of the last of one root or of two.                      *)
LEMMA RulePops ==
  ASSUME NEW r, NEW gc, NEW R, NEW G, NEW Q, NEW H, Q \subseteq R, H \subseteq G,
         NEW v, NEW x
  PROVE  /\ Valid(r, Plan(<< >>, gc, Q, H)) =>
              MayStep(r, Pop(v), Plan(<<v>>, gc, R, G), Plan(<< >>, gc, Q, H))
         /\ Valid(r, Plan(<<x>>, gc, Q, H)) =>
              MayStep(r, Pop(v), Plan(<<x, v>>, gc, R, G), Plan(<<x>>, gc, Q, H))
<1>1. Pop(v).do = "pop" /\ Pop(v).v = v
  BY DEF Pop
<1>2. Longer(<< >>, <<v>>, v) /\ Longer(<<x>>, <<x, v>>, v)
  <2>1. Len(<< >>) + 1 = 1 /\ Len(<<x>>) + 1 = 2 /\ Len(<<v>>) = 1 /\ Len(<<x, v>>) = 2
    BY SmallStacks
  <2>2. 1 .. Len(<< >>) = {} /\ 1 .. Len(<<x>>) = {1}
    BY SmallStacks
  <2>3. <<v>>[1] = v /\ <<x, v>>[2] = v /\ <<x, v>>[1] = <<x>>[1]
    BY SmallStacks
  <2> QED
    BY <2>1, <2>2, <2>3 DEF Longer
<1>3. Len(<< >>) \in Nat /\ Len(<<x>>) \in Nat
  BY SmallStacks
<1>4. /\ Registered(Plan(<< >>, gc, R, G)) = {}
      /\ Registered(Plan(<<x>>, gc, R, G)) = {x}
  BY SmallStacks
<1>5. PopRule(Pop(v), Plan(<<v>>, gc, R, G), Plan(<< >>, gc, Q, H))
  BY <1>1, <1>2, <1>3, <1>4, PlanParts DEF PopRule, Forgets
<1>6. PopRule(Pop(v), Plan(<<x, v>>, gc, R, G), Plan(<<x>>, gc, Q, H))
  BY <1>1, <1>2, <1>3, <1>4, PlanParts DEF PopRule, Forgets
<1> QED
  BY <1>5, <1>6, Zenon DEF MayStep

(* The first root of a function,                                           *)
LEMMA RulePush ==
  ASSUME NEW r, NEW gc, NEW R, NEW G, NEW Q, NEW H, Q \subseteq R, H \subseteq G,
         NEW v \in G, Valid(r, Plan(<<v>>, gc, Q, H))
  PROVE  MayStep(r, Push(v), Plan(<< >>, gc, R, G), Plan(<<v>>, gc, Q, H))
  BY RulePushes

(* and its second.                                                         *)
LEMMA RulePushSecond ==
  ASSUME NEW r, NEW gc, NEW R, NEW G, NEW Q, NEW H, Q \subseteq R, H \subseteq G,
         NEW v \in G, NEW x, x # v, Valid(r, Plan(<<x, v>>, gc, Q, H))
  PROVE  MayStep(r, Push(v), Plan(<<x>>, gc, R, G), Plan(<<x, v>>, gc, Q, H))
  BY RulePushes

(* The only root goes,                                                     *)
LEMMA RulePop ==
  ASSUME NEW r, NEW gc, NEW R, NEW G, NEW Q, NEW H, Q \subseteq R, H \subseteq G,
         NEW v, Valid(r, Plan(<< >>, gc, Q, H))
  PROVE  MayStep(r, Pop(v), Plan(<<v>>, gc, R, G), Plan(<< >>, gc, Q, H))
  BY RulePops

(* or the second one does.                                                 *)
LEMMA RulePopSecond ==
  ASSUME NEW r, NEW gc, NEW R, NEW G, NEW Q, NEW H, Q \subseteq R, H \subseteq G,
         NEW v, NEW x, Valid(r, Plan(<<x>>, gc, Q, H))
  PROVE  MayStep(r, Pop(v), Plan(<<x, v>>, gc, R, G), Plan(<<x>>, gc, Q, H))
  BY RulePops

(* An allocation, after which only what it keeps, and the new object, is   *)
(* good.                                                                   *)
LEMMA RuleNew ==
  ASSUME NEW r, NEW s, NEW R, NEW G, NEW v, NEW type, NEW n,
         Assigned(r, Plan(s, "in", R, G), v),
         NEW Q, Q \subseteq R \cup {v},
         NEW H, H \subseteq Registered(Plan(s, "in", R, G)) \cup Scanned(r) \cup {v, "c"},
         Valid(r, Plan(s, "in", Q, H))
  PROVE  MayStep(r, New(v, type, n), Plan(s, "in", R, G), Plan(s, "in", Q, H))
<1>1. New(v, type, n).do = "new" /\ New(v, type, n).v = v
  BY DEF New
<1> QED
  BY <1>1, PlanParts DEF MayStep, NewRule, Learns, Stays, Kept

(* A call of another function, which may allocate: only what is kept, the  *)
(* result and the text are good after it.                                  *)
LEMMA RuleCall ==
  ASSUME NEW r, NEW s, NEW gc, gc \in {"before", "in"}, NEW R, NEW G,
         NEW f, NEW n, NEW args, Callable(f, n, args), NEW v,
         Assigned(r, Plan(s, gc, R, G), v),
         ToSet(args) \subseteq G,
         r.fn # "Bclosure", NEW k, Len(s) = k, k + RoomOf(f) <= Room(r),
         f # "Bsexp" \/ (r.fn = "ListCons" /\ gc = "in"),
         NEW Q, Q \subseteq R \cup {v},
         NEW H, \/ /\ gc = "in"
                   /\ H \subseteq Registered(Plan(s, gc, R, G)) \cup Scanned(r) \cup {v, "c"}
                \/ (r.own /\ gc = "before" /\ H \subseteq Names),
         Valid(r, Plan(s, gc, Q, H))
  PROVE  MayStep(r, Call(f, n, args, v), Plan(s, gc, R, G), Plan(s, gc, Q, H))
<1> DEFINE i == Call(f, n, args, v)
<1>1. i.do = "call" /\ i.f = f /\ i.n = n /\ i.args = args /\ i.v = v
  BY DEF Call
<1> HIDE DEF i
<1> DEFINE A == Plan(s, gc, R, G)
           B == Plan(s, gc, Q, H)
<1>2. /\ A.stack = s /\ A.gc = gc /\ A.refs = R /\ A.good = G
      /\ B.stack = s /\ B.gc = gc /\ B.refs = Q /\ B.good = H
  BY PlanParts
<1>3. Assigned(r, A, v) /\ H \subseteq Kept(r, A) \cup {v, "c"} /\ Valid(r, B)
  BY <1>2 DEF Kept
<1> HIDE DEF A, B
<1>4. Learns(r, i, A, B)
  BY <1>1, <1>2, <1>3 DEF Learns, Stays
<1>5. CallRule(r, i, A, B)
  BY <1>1, <1>2, <1>4 DEF CallRule
<1>6. MayStep(r, i, A, B)
  BY <1>3, <1>5, Zenon DEF MayStep
<1> QED
  BY <1>6 DEF i, A, B

(* The same between PRE_GC and POST_GC,                                    *)
LEMMA RuleCallIn ==
  ASSUME NEW r, NEW s, NEW R, NEW G,
         NEW f, NEW n, NEW args, Callable(f, n, args), NEW v,
         Assigned(r, Plan(s, "in", R, G), v),
         ToSet(args) \subseteq G,
         r.fn # "Bclosure", NEW k, Len(s) = k, k + RoomOf(f) <= Room(r),
         f # "Bsexp" \/ r.fn = "ListCons",
         NEW Q, Q \subseteq R \cup {v},
         NEW H, H \subseteq Registered(Plan(s, "in", R, G)) \cup Scanned(r) \cup {v, "c"},
         Valid(r, Plan(s, "in", Q, H))
  PROVE  MayStep(r, Call(f, n, args, v), Plan(s, "in", R, G), Plan(s, "in", Q, H))
<1>1. "in" \in {"before", "in"}
  OBVIOUS
<1> QED
  BY <1>1, RuleCall

(* and before PRE_GC, where the collector scans all of the own frame.      *)
LEMMA RuleCallBefore ==
  ASSUME NEW r, r.own, NEW s, NEW R, NEW G,
         NEW f, f # "Bsexp", NEW n, NEW args, Callable(f, n, args), NEW v,
         Assigned(r, Plan(s, "before", R, G), v),
         ToSet(args) \subseteq G,
         r.fn # "Bclosure", NEW k, Len(s) = k, k + RoomOf(f) <= Room(r),
         NEW Q, Q \subseteq R \cup {v},
         Valid(r, Plan(s, "before", Q, Names))
  PROVE  MayStep(r, Call(f, n, args, v), Plan(s, "before", R, G), Plan(s, "before", Q, Names))
<1>1. Names \subseteq Names /\ "before" \in {"before", "in"}
  OBVIOUS
<1> QED
  BY <1>1, RuleCall

(* A function that is called returns a variable that holds an object.      *)
LEMMA RuleReturn ==
  ASSUME NEW r, NEW gc, gc # "in", NEW R, NEW G, NEW v \in G, r.fn \in Callees => v \in R
  PROVE  MayStep(r, Return(v), Plan(<< >>, gc, R, G), Finished)
<1>1. Return(v).do = "return" /\ Return(v).v = v
  BY DEF Return
<1> QED
  BY <1>1, PlanParts DEF MayStep, EndRule, Finished

(* The words of a new object; Bsexp, called by ListCons, may fill in stale *)
(* ones.                                                                   *)
LEMMA RuleFill ==
  ASSUME NEW r, NEW s, NEW gc, NEW R, NEW G, NEW Q, NEW H, Q \subseteq R, H \subseteq G,
         NEW v \in R, NEW from, ToSet(from) \subseteq Names,
         (r.fn = "Bsexp" /\ ~r.own) \/ {v} \cup ToSet(from) \subseteq G,
         Valid(r, Plan(s, gc, Q, H))
  PROVE  MayStep(r, Fill(v, from), Plan(s, gc, R, G), Plan(s, gc, Q, H))
<1>1. Fill(v, from).do = "fill" /\ Fill(v, from).v = v /\ Fill(v, from).from = from
  BY DEF Fill
<1> QED
  BY <1>1, PlanParts DEF MayStep, AccessRule, Forgets, Stays, Excused

(* memcpy from one object to another, both good.                           *)
LEMMA RuleCopy ==
  ASSUME NEW r, NEW s, NEW gc, NEW R, NEW G, NEW Q, NEW H, Q \subseteq R, H \subseteq G,
         NEW v \in R \cap G, NEW from \in R \cap G,
         Valid(r, Plan(s, gc, Q, H))
  PROVE  MayStep(r, Copy(v, from), Plan(s, gc, R, G), Plan(s, gc, Q, H))
<1>1. Copy(v, from).do = "copy" /\ Copy(v, from).v = v /\ Copy(v, from).from = from
  BY DEF Copy
<1> QED
  BY <1>1, PlanParts DEF MayStep, AccessRule, Forgets, Stays, Excused

(* A word read out of an object.                                           *)
LEMMA RuleTake ==
  ASSUME NEW r, NEW s, NEW gc, NEW R, NEW G, NEW v, NEW from,
         Assigned(r, Plan(s, gc, R, G), v), from \in Names, from \in R, from \in G, v # from,
         Valid(r, Plan(s, gc, R \cup {v}, G \cup {v}))
  PROVE  MayStep(r, Take(v, from), Plan(s, gc, R, G), Plan(s, gc, R \cup {v}, G \cup {v}))
<1>1. Take(v, from).do = "take" /\ Take(v, from).v = v /\ Take(v, from).from = from
  BY DEF Take
<1> QED
  BY <1>1, PlanParts DEF MayStep, TakeRule, Stays

(* A word stored in an object, by set_args, stale or not.                  *)
LEMMA RuleStore ==
  ASSUME NEW r, r.fn = "SetArgs", NEW s, NEW gc, NEW R, NEW G, NEW k, NEW v \in R,
         NEW from \in Names, NEW Q, NEW H, Q \subseteq R, H \subseteq G,
         Valid(r, Plan(s, gc, Q, H))
  PROVE  MayStep(r, Store(v, k, from), Plan(s, gc, R, G), Plan(s, gc, Q, H))
<1>1. Store(v, k, from).do = "store" /\ Store(v, k, from).v = v /\ Store(v, k, from).from = from
  BY DEF Store
<1> QED
  BY <1>1, PlanParts DEF MayStep, AccessRule, Stays, Forgets, Excused

(* set_args ends by keeping its array in the global variable.              *)
LEMMA RuleGlobal ==
  ASSUME NEW r, r.fn = "SetArgs", NEW gc, gc # "in", NEW R, NEW G, NEW v \in R, v \in G
  PROVE  MayStep(r, SetGlobal(v), Plan(<< >>, gc, R, G), Finished)
<1>1. SetGlobal(v).do = "global" /\ SetGlobal(v).v = v
  BY DEF SetGlobal
<1> QED
  BY <1>1, PlanParts DEF MayStep, EndRule, Finished

(* How many roots the functions that are called register.                  *)
LEMMA CallRooms ==
  /\ RoomOf("Bstring") = 1 /\ RoomOf("LmakeString") = 0
  /\ RoomOf("LmakeArray") = 0 /\ RoomOf("Bsexp") = 0
  BY DEF RoomOf

(* The calls the scripts make.                                             *)
LEMMA CallsOfFunctions ==
  /\ Callable("LmakeString", 0, << >>)
  /\ \A n \in 0 .. MaxValues : Callable("LmakeArray", n, << >>)
  /\ \A x : Callable("Bstring", 0, <<x>>)
  /\ \A x, y : Callable("Bsexp", 2, <<x, y>>)
<1>1. 0 \in 0 .. MaxValues /\ 2 \in 0 .. MaxValues
  BY RootsAssumption
<1>2. \A n : Parameters("LmakeString", n) = << >> /\ Parameters("LmakeArray", n) = << >>
  BY DEF Parameters
<1>3. \A n : Parameters("Bstring", n) = <<"p">>
  BY DEF Parameters
<1>4. Parameters("Bsexp", 2) = ValueNames(2) /\ DOMAIN ValueNames(2) = 1 .. 2
  BY DEF Parameters, ValueNames
<1>5. \A x, y : DOMAIN <<x, y>> = 1 .. 2
  OBVIOUS
<1>6. \A x, y : DOMAIN <<x>> = DOMAIN <<y>>
  OBVIOUS
<1>7. Callable("LmakeString", 0, << >>) /\ \A n \in 0 .. MaxValues : Callable("LmakeArray", n, << >>)
  BY <1>1, <1>2 DEF Callable, Callees
<1>8. \A x : Callable("Bstring", 0, <<x>>)
  BY <1>1, <1>3, <1>6 DEF Callable, Callees
<1>9. \A x, y : Callable("Bsexp", 2, <<x, y>>)
  BY <1>1, <1>4, <1>5 DEF Callable, Callees
<1> QED
  BY <1>7, <1>8, <1>9

(* The elements of the argument lists the scripts use.                     *)
LEMMA ToSetSmall ==
  /\ ToSet(<< >>) = {}
  /\ \A x : ToSet(<<x>>) = {x}
  /\ \A x, y : ToSet(<<x, y>>) = {x, y}
<1>1. \A x, y : DOMAIN <<x, y>> = {1, 2} /\ <<x, y>>[1] = x /\ <<x, y>>[2] = y
  OBVIOUS
<1>2. \A x, y : ToSet(<<x, y>>) = {x, y}
  BY <1>1 DEF ToSet
<1> QED
  BY <1>2, ShortSeq

(* One sequence after the other.                                           *)
Chained(F, G) == F \o G

(* Two sequences in a row, by positions.                                   *)
LEMMA ChainedAt ==
  ASSUME NEW F, NEW G, NEW l, NEW n \in Nat, NEW m \in Nat, Indexed(F, n), Indexed(G, m), l = n + m
  PROVE  /\ Indexed(Chained(F, G), l)
         /\ \A k \in 1 .. n : Chained(F, G)[k] = F[k]
         /\ \A k \in 1 .. m : Chained(F, G)[n + k] = G[k]
<1>0. F = [k \in 1 .. n |-> F[k]] /\ G = [k \in 1 .. m |-> G[k]]
  BY DEF Indexed
<1> DEFINE S == {F[k] : k \in 1 .. n} \cup {G[k] : k \in 1 .. m}
<1>1. (\A k \in 1 .. n : F[k] \in S) /\ (\A k \in 1 .. m : G[k] \in S)
  OBVIOUS
<1> HIDE DEF S
<1>2. F \in Seq(S) /\ Len(F) = n /\ G \in Seq(S) /\ Len(G) = m
  BY <1>0, <1>1, SeqByPositions
<1> DEFINE H == F \o G
<1>3. /\ H \in Seq(S) /\ Len(H) = Len(F) + Len(G)
      /\ \A k \in 1 .. Len(F) + Len(G) : H[k] = IF k <= Len(F) THEN F[k] ELSE G[k - Len(F)]
  BY ONLY <1>2, ConcatProperties
<1> HIDE DEF H
<1>4. l \in Nat /\ l = n + m
  OBVIOUS
<1>5. Len(H) = l /\ \A k \in 1 .. l : H[k] = IF k <= n THEN F[k] ELSE G[k - n]
  BY <1>2, <1>3, <1>4
<1>6. DOMAIN H = 1 .. l /\ H \in [1 .. l -> S]
  BY <1>3, <1>5, LenProperties
<1>7. Indexed(H, l)
  BY <1>6 DEF Indexed
<1>8. \A k \in 1 .. n : k \in 1 .. l /\ k <= n
  BY <1>4
<1>9. \A k \in 1 .. m : n + k \in 1 .. l /\ ~(n + k <= n) /\ n + k - n = k
  BY <1>4
<1>10. (\A k \in 1 .. n : H[k] = F[k]) /\ \A k \in 1 .. m : H[n + k] = G[k]
  <2>1. ASSUME NEW k \in 1 .. n
        PROVE  H[k] = F[k]
    BY <1>5, <1>8
  <2>2. ASSUME NEW k \in 1 .. m
        PROVE  H[n + k] = G[k]
    <3>1. PICK j : j = n + k
      OBVIOUS
    <3>2. j \in 1 .. l /\ ~(j <= n) /\ j - n = k
      BY <1>9, <3>1
    <3>3. H[j] = G[k]
      BY <1>5, <3>2
    <3> QED
      BY <3>1, <3>3
  <2> QED
    BY <2>1, <2>2
<1>11. Chained(F, G) = H
  BY DEF H, Chained
<1> QED
  BY ONLY <1>7, <1>10, <1>11

(* Three, any number, and three more.                                      *)
LEMMA ThreeParts ==
  ASSUME NEW F, NEW M, NEW T, NEW H, NEW m \in Nat,
         Indexed(F, 3), Indexed(M, m), Indexed(T, 3), H = Chained(Chained(F, M), T)
  PROVE  /\ Indexed(H, m + 6)
         /\ \A k \in 1 .. 3 : H[k] = F[k]
         /\ \A k \in 1 .. m : H[3 + k] = M[k]
         /\ H[m + 4] = T[1] /\ H[m + 5] = T[2] /\ H[m + 6] = T[3]
<1>1. PICK p \in Nat : p = 3 + m
  OBVIOUS
<1>2. PICK l \in Nat : l = p + 3
  BY <1>1
<1>3. 3 \in Nat /\ m \in Nat
  OBVIOUS
<1>4. /\ Indexed(Chained(F, M), p)
      /\ \A k \in 1 .. 3 : Chained(F, M)[k] = F[k]
      /\ \A k \in 1 .. m : Chained(F, M)[3 + k] = M[k]
  BY ONLY <1>1, <1>3, Indexed(F, 3), Indexed(M, m), ChainedAt
<1>5. PICK G : G = Chained(F, M)
  OBVIOUS
<1>6. /\ Indexed(H, l)
      /\ \A k \in 1 .. p : H[k] = G[k]
      /\ \A k \in 1 .. 3 : H[p + k] = T[k]
  <2>1. H = Chained(G, T) /\ Indexed(G, p)
    BY ONLY <1>4, <1>5, H = Chained(Chained(F, M), T)
  <2>2. /\ Indexed(Chained(G, T), l)
        /\ \A k \in 1 .. p : Chained(G, T)[k] = G[k]
        /\ \A k \in 1 .. 3 : Chained(G, T)[p + k] = T[k]
    BY ONLY <1>2, <1>3, <2>1, p \in Nat, Indexed(T, 3), ChainedAt
  <2> QED
    BY ONLY <2>1, <2>2
<1>7. /\ l = m + 6 /\ p + 1 = m + 4 /\ p + 2 = m + 5 /\ p + 3 = m + 6
      /\ \A k \in 1 .. 3 : k \in 1 .. p
      /\ \A k \in 1 .. m : 3 + k \in 1 .. p
      /\ 1 \in 1 .. 3 /\ 2 \in 1 .. 3 /\ 3 \in 1 .. 3
  BY <1>1, <1>2
<1>8. H[p + 1] = T[1] /\ H[p + 2] = T[2] /\ H[p + 3] = T[3]
  BY <1>6, <1>7
<1> QED
  BY <1>4, <1>5, <1>6, <1>7, <1>8

(* Two sequences with the same positions and elements are the same.        *)
LEMMA SameAt ==
  ASSUME NEW n, NEW F, NEW G, Indexed(F, n), Indexed(G, n), \A k \in 1 .. n : F[k] = G[k]
  PROVE  F = G
  BY DEF Indexed

(* Short tuples, by positions.                                             *)
LEMMA ShortIndexed ==
  /\ Indexed(<< >>, 0)
  /\ \A a : Indexed(<<a>>, 1)
  /\ \A a, b : Indexed(<<a, b>>, 2)
  /\ \A a, b, c : Indexed(<<a, b, c>>, 3)
  BY DEF Indexed

(* Three things, a sequence, and three more.                               *)
Enclosed(a, b, c, M, x, y, z) == Chained(Chained(<<a, b, c>>, M), <<x, y, z>>)

(* The parts of an enclosed sequence, by positions.                        *)
LEMMA Between ==
  ASSUME NEW a, NEW b, NEW c, NEW M, NEW x, NEW y, NEW z, NEW m \in Nat, Indexed(M, m)
  PROVE  /\ Indexed(Enclosed(a, b, c, M, x, y, z), m + 6)
         /\ Enclosed(a, b, c, M, x, y, z)[1] = a
         /\ Enclosed(a, b, c, M, x, y, z)[2] = b
         /\ Enclosed(a, b, c, M, x, y, z)[3] = c
         /\ \A k \in 1 .. m : Enclosed(a, b, c, M, x, y, z)[3 + k] = M[k]
         /\ Enclosed(a, b, c, M, x, y, z)[m + 4] = x
         /\ Enclosed(a, b, c, M, x, y, z)[m + 5] = y
         /\ Enclosed(a, b, c, M, x, y, z)[m + 6] = z
<1>0. PICK C : C = Enclosed(a, b, c, M, x, y, z)
  OBVIOUS
<1>1. PICK F : F = <<a, b, c>>
  OBVIOUS
<1>2. PICK T : T = <<x, y, z>>
  OBVIOUS
<1>3. Indexed(F, 3) /\ Indexed(T, 3)
  BY <1>1, <1>2, ShortIndexed
<1>4. F[1] = a /\ F[2] = b /\ F[3] = c /\ T[1] = x /\ T[2] = y /\ T[3] = z
  BY <1>1, <1>2
<1>5. C = Chained(Chained(F, M), T)
  BY ONLY <1>0, <1>1, <1>2 DEF Enclosed
<1>6. /\ Indexed(C, m + 6)
      /\ \A k \in 1 .. 3 : C[k] = F[k]
      /\ \A k \in 1 .. m : C[3 + k] = M[k]
      /\ C[m + 4] = T[1] /\ C[m + 5] = T[2] /\ C[m + 6] = T[3]
  BY ONLY <1>3, <1>5, m \in Nat, Indexed(M, m), ThreeParts
<1>8. 1 \in 1 .. 3 /\ 2 \in 1 .. 3 /\ 3 \in 1 .. 3
  OBVIOUS
<1> QED
  BY ONLY <1>0, <1>4, <1>6, <1>8

(* Enclosing one element,                                                  *)
LEMMA JoinedSeven ==
  ASSUME NEW a, NEW b, NEW c, NEW d, NEW x, NEW y, NEW z
  PROVE  Enclosed(a, b, c, <<d>>, x, y, z) = <<a, b, c, d, x, y, z>>
<1>1. /\ 1 \in Nat /\ 1 + 6 = 7 /\ 1 + 4 = 5 /\ 1 + 5 = 6
      /\ 1 \in 1 .. 1 /\ 3 + 1 = 4
  OBVIOUS
<1>2. PICK D : D = <<d>>
  OBVIOUS
<1>3. Indexed(D, 1) /\ D[1] = d
  BY <1>2, ShortIndexed
<1>4. PICK C : C = Enclosed(a, b, c, D, x, y, z)
  OBVIOUS
<1>5. /\ Indexed(C, 1 + 6)
      /\ C[1] = a /\ C[2] = b /\ C[3] = c
      /\ \A k \in 1 .. 1 : C[3 + k] = D[k]
      /\ C[1 + 4] = x /\ C[1 + 5] = y /\ C[1 + 6] = z
  <2>1. 1 \in Nat /\ Indexed(D, 1)
    BY <1>1, <1>3
  <2> QED
    BY ONLY <1>4, <2>1, Between
<1>6. C[4] = d /\ C[5] = x /\ C[6] = y /\ C[7] = z /\ Indexed(C, 7)
  BY ONLY <1>1, <1>3, <1>5
<1>7. PICK I : I = <<a, b, c, d, x, y, z>>
  OBVIOUS
<1>8. /\ Indexed(I, 7) /\ I[1] = a /\ I[2] = b /\ I[3] = c /\ I[4] = d
      /\ I[5] = x /\ I[6] = y /\ I[7] = z
  BY <1>7 DEF Indexed
<1>9. \A k \in 1 .. 7 : k \in {1, 2, 3, 4, 5, 6, 7}
  OBVIOUS
<1>10. \A k \in 1 .. 7 : C[k] = I[k]
  BY ONLY <1>5, <1>6, <1>8, <1>9
<1> QED
  <2>1. C = I
    BY ONLY <1>6, <1>8, <1>10, SameAt
  <2> QED
    BY ONLY <1>2, <1>4, <1>7, <2>1

(* and enclosing two.                                                      *)
LEMMA JoinedEight ==
  ASSUME NEW a, NEW b, NEW c, NEW d, NEW e, NEW x, NEW y, NEW z
  PROVE  Enclosed(a, b, c, <<d, e>>, x, y, z) = <<a, b, c, d, e, x, y, z>>
<1>1. /\ 2 \in Nat /\ 2 + 6 = 8 /\ 2 + 4 = 6 /\ 2 + 5 = 7
      /\ 1 \in 1 .. 2 /\ 2 \in 1 .. 2 /\ 3 + 1 = 4 /\ 3 + 2 = 5
  OBVIOUS
<1>2. PICK D : D = <<d, e>>
  OBVIOUS
<1>3. Indexed(D, 2) /\ D[1] = d /\ D[2] = e
  BY <1>2, ShortIndexed
<1>4. PICK C : C = Enclosed(a, b, c, D, x, y, z)
  OBVIOUS
<1>5. /\ Indexed(C, 2 + 6)
      /\ C[1] = a /\ C[2] = b /\ C[3] = c
      /\ \A k \in 1 .. 2 : C[3 + k] = D[k]
      /\ C[2 + 4] = x /\ C[2 + 5] = y /\ C[2 + 6] = z
  <2>1. 2 \in Nat /\ Indexed(D, 2)
    BY <1>1, <1>3
  <2> QED
    BY ONLY <1>4, <2>1, Between
<1>6. C[4] = d /\ C[5] = e /\ C[6] = x /\ C[7] = y /\ C[8] = z /\ Indexed(C, 8)
  BY ONLY <1>1, <1>3, <1>5
<1>7. PICK I : I = <<a, b, c, d, e, x, y, z>>
  OBVIOUS
<1>8. /\ Indexed(I, 8) /\ I[1] = a /\ I[2] = b /\ I[3] = c /\ I[4] = d
      /\ I[5] = e /\ I[6] = x /\ I[7] = y /\ I[8] = z
  BY <1>7 DEF Indexed
<1>9. \A k \in 1 .. 8 : k \in {1, 2, 3, 4, 5, 6, 7, 8}
  OBVIOUS
<1>10. \A k \in 1 .. 8 : C[k] = I[k]
  BY ONLY <1>5, <1>6, <1>8, <1>9
<1> QED
  <2>1. C = I
    BY ONLY <1>6, <1>8, <1>10, SameAt
  <2> QED
    BY ONLY <1>2, <1>4, <1>7, <2>1

(* LmakeString.                                                            *)
LEMMA LmakeStringPlanned ==
  ASSUME NEW r, r.fn = "LmakeString", r.params = {}
  PROVE  Planned(r, LmakeString, Plan(<< >>, "before", {}, Names))
<1> DEFINE
     A1 == Plan(<< >>, "before", {}, Names)
     A2 == Plan(<< >>, "in", {}, Names)
     A3 == Plan(<< >>, "in", {"r"}, {"r"})
     A4 == Plan(<< >>, "after", {"r"}, {"r"})
     X == <<A1, A2, A3, A4, Finished>>
<1>1. /\ Room(r) = 0 /\ Scanned(r) \subseteq {}
  BY DEF Room, RoomOf, Scanned
<1>2. /\ Valid(r, A2) /\ Valid(r, A3) /\ Valid(r, A4)
  BY <1>1, ValidNone, ValidOne, ValidTwo DEF Names
<1>3. MayStep(r, Pre, A1, A2)
  BY <1>1, <1>2, RulePre DEF Names
<1>4. Assigned(r, A2, "r")
  BY <1>1, SmallStacks DEF Assigned, Names
<1>5. Registered(A2) = {}
  BY SmallStacks
<1>6. MayStep(r, New("r", "string", 0), A2, A3)
  BY <1>1, <1>2, <1>4, <1>5, RuleNew DEF Names
<1>7. MayStep(r, Post, A3, A4)
  BY <1>1, <1>2, RulePost DEF Names
<1>8. MayStep(r, Return("r"), A4, Finished)
  BY <1>1, <1>2, RuleReturn DEF Names, Callees
<1>9. /\ LmakeString[1] = Pre /\ LmakeString[2] = New("r", "string", 0) /\ LmakeString[3] = Post
      /\ LmakeString[4] = Return("r")
      /\ Indexed(LmakeString, 4)
  BY DEF Indexed, LmakeString
<1>10. /\ X[1] = A1 /\ X[2] = A2 /\ X[3] = A3 /\ X[4] = A4 /\ X[5] = Finished
      /\ X[5].gc = "done" /\ 4 \in Nat /\ 5 = 4 + 1
  BY DEF Finished, Plan
<1> HIDE DEF A1, A2, A3, A4, X
<1>11. \A j \in 1 .. 4 : MayStep(r, LmakeString[j], X[j], X[j + 1])
  <2>1. \A j \in 1 .. 4 : j = 1 \/ j = 2 \/ j = 3 \/ j = 4
    OBVIOUS
  <2> QED
    BY <2>1, <1>3, <1>6, <1>7, <1>8, <1>9, <1>10
<1>12. Planned(r, LmakeString, A1)
  BY <1>9, <1>10, <1>11, PlanByPositions
<1> QED
  BY <1>12 DEF A1

(* LmakeArray.                                                             *)
LEMMA LmakeArrayPlanned ==
  ASSUME NEW r, NEW n, r.fn = "LmakeArray", r.params = {}
  PROVE  Planned(r, LmakeArray(n), Plan(<< >>, "before", {}, Names))
<1> DEFINE
     A1 == Plan(<< >>, "before", {}, Names)
     A2 == Plan(<< >>, "in", {}, Names)
     A3 == Plan(<< >>, "in", {"r"}, {"r"})
     A4 == Plan(<< >>, "after", {"r"}, {"r"})
     X == <<A1, A2, A3, A4, Finished>>
<1>1. /\ Room(r) = 0 /\ Scanned(r) \subseteq {}
  BY DEF Room, RoomOf, Scanned
<1>2. /\ Valid(r, A2) /\ Valid(r, A3) /\ Valid(r, A4)
  BY <1>1, ValidNone, ValidOne, ValidTwo DEF Names
<1>3. MayStep(r, Pre, A1, A2)
  BY <1>1, <1>2, RulePre DEF Names
<1>4. Assigned(r, A2, "r")
  BY <1>1, SmallStacks DEF Assigned, Names
<1>5. Registered(A2) = {}
  BY SmallStacks
<1>6. MayStep(r, New("r", "array", n), A2, A3)
  BY <1>1, <1>2, <1>4, <1>5, RuleNew DEF Names
<1>7. MayStep(r, Post, A3, A4)
  BY <1>1, <1>2, RulePost DEF Names
<1>8. MayStep(r, Return("r"), A4, Finished)
  BY <1>1, <1>2, RuleReturn DEF Names, Callees
<1>9. /\ LmakeArray(n)[1] = Pre /\ LmakeArray(n)[2] = New("r", "array", n)
      /\ LmakeArray(n)[3] = Post /\ LmakeArray(n)[4] = Return("r")
      /\ Indexed(LmakeArray(n), 4)
  BY DEF Indexed, LmakeArray
<1>10. /\ X[1] = A1 /\ X[2] = A2 /\ X[3] = A3 /\ X[4] = A4 /\ X[5] = Finished
      /\ X[5].gc = "done" /\ 4 \in Nat /\ 5 = 4 + 1
  BY DEF Finished, Plan
<1> HIDE DEF A1, A2, A3, A4, X
<1>11. \A j \in 1 .. 4 : MayStep(r, LmakeArray(n)[j], X[j], X[j + 1])
  <2>1. \A j \in 1 .. 4 : j = 1 \/ j = 2 \/ j = 3 \/ j = 4
    OBVIOUS
  <2> QED
    BY <2>1, <1>3, <1>6, <1>7, <1>8, <1>9, <1>10
<1>12. Planned(r, LmakeArray(n), A1)
  BY <1>9, <1>10, <1>11, PlanByPositions
<1> QED
  BY <1>12 DEF A1

(* Bstring: its argument is a root while LmakeString allocates.            *)
LEMMA BstringPlanned ==
  ASSUME NEW r, r.fn = "Bstring", r.params = {"p"}
  PROVE  Planned(r, Bstring, Plan(<< >>, "before", {}, Names))
<1> DEFINE
     A1 == Plan(<< >>, "before", {}, Names)
     A2 == Plan(<< >>, "before", {}, Names)
     A3 == Plan(<< >>, "in", {}, Names)
     A4 == Plan(<<"p">>, "in", {}, Names)
     A5 == Plan(<<"p">>, "in", {"s"}, {"p", "s"})
     A6 == Plan(<< >>, "in", {"s"}, {"p", "s"})
     A7 == Plan(<< >>, "in", {"s"}, {"p", "s"})
     A8 == Plan(<< >>, "in", {"s"}, {"p", "s"})
     A9 == Plan(<< >>, "after", {"s"}, {"p", "s"})
     X == <<A1, A2, A3, A4, A5, A6, A7, A8, A9, Finished>>
<1>1. /\ Room(r) = 1 /\ Scanned(r) \subseteq {"p"}
  BY DEF Room, RoomOf, Scanned
<1>2. /\ Valid(r, A2) /\ Valid(r, A3) /\ Valid(r, A4) /\ Valid(r, A5) /\ Valid(r, A6)
      /\ Valid(r, A7) /\ Valid(r, A8) /\ Valid(r, A9)
  BY <1>1, ValidNone, ValidOne, ValidTwo DEF Names
<1>3. MayStep(r, Use("p"), A1, A2)
  BY <1>1, <1>2, RuleUse DEF Names
<1>4. MayStep(r, Pre, A2, A3)
  BY <1>1, <1>2, RulePre DEF Names
<1>5. MayStep(r, Push("p"), A3, A4)
  BY <1>1, <1>2, RulePush DEF Names
<1>6. Assigned(r, A4, "s")
  BY <1>1, SmallStacks DEF Assigned, Names
<1>7. Registered(A4) = {"p"}
  BY SmallStacks
<1>8. Len(<<"p">>) = 1
  OBVIOUS
<1>9. 1 + RoomOf("LmakeString") <= Room(r)
  BY <1>1, CallRooms
<1>10. "LmakeString" # "Bsexp"
  OBVIOUS
<1>11. Callable("LmakeString", 0, << >>)
  BY CallsOfFunctions
<1>12. ToSet(<< >>) \subseteq Names
  BY ToSetSmall DEF Names
<1>13. {"p", "s"} \subseteq Registered(A4) \cup Scanned(r) \cup {"s", "c"}
  BY <1>1, <1>6, <1>7, <1>8, <1>9, <1>10, <1>11, <1>12
<1>14. MayStep(r, Call("LmakeString", 0, << >>, "s"), A4, A5)
  BY <1>1, <1>2, <1>6, <1>7, <1>8, <1>9, <1>10, <1>11, <1>12, <1>13, RuleCallIn DEF Names
<1>15. MayStep(r, Pop("p"), A5, A6)
  BY <1>1, <1>2, RulePop DEF Names
<1>16. MayStep(r, Use("p"), A6, A7)
  BY <1>1, <1>2, RuleUse DEF Names
<1>17. MayStep(r, Use("s"), A7, A8)
  BY <1>1, <1>2, RuleUse DEF Names
<1>18. MayStep(r, Post, A8, A9)
  BY <1>1, <1>2, RulePost DEF Names
<1>19. MayStep(r, Return("s"), A9, Finished)
  BY <1>1, <1>2, RuleReturn DEF Names, Callees
<1>20. /\ Bstring[1] = Use("p") /\ Bstring[2] = Pre /\ Bstring[3] = Push("p")
      /\ Bstring[4] = Call("LmakeString", 0, << >>, "s") /\ Bstring[5] = Pop("p")
      /\ Bstring[6] = Use("p") /\ Bstring[7] = Use("s") /\ Bstring[8] = Post
      /\ Bstring[9] = Return("s")
      /\ Indexed(Bstring, 9)
  BY DEF Indexed, Bstring
<1>21. /\ X[1] = A1 /\ X[2] = A2 /\ X[3] = A3 /\ X[4] = A4 /\ X[5] = A5 /\ X[6] = A6 /\ X[7] = A7
      /\ X[8] = A8 /\ X[9] = A9 /\ X[10] = Finished
      /\ X[10].gc = "done" /\ 9 \in Nat /\ 10 = 9 + 1
  BY DEF Finished, Plan
<1> HIDE DEF A1, A2, A3, A4, A5, A6, A7, A8, A9, X
<1>22. \A j \in 1 .. 9 : MayStep(r, Bstring[j], X[j], X[j + 1])
  <2>1. \A j \in 1 .. 9 : j = 1 \/ j = 2 \/ j = 3 \/ j = 4 \/ j = 5 \/ j = 6 \/ j = 7 \/ j = 8 \/ j = 9
    OBVIOUS
  <2> QED
    BY <2>1, <1>3, <1>4, <1>5, <1>14, <1>15, <1>16, <1>17, <1>18, <1>19, <1>20, <1>21
<1>23. Planned(r, Bstring, A1)
  BY <1>20, <1>21, <1>22, PlanByPositions
<1> QED
  BY <1>23 DEF A1

(* Lstring: the value is printed, and is a root, before Bstring allocates. *)
LEMMA LstringPlanned ==
  ASSUME NEW r, r.fn = "Lstring", r.params = {"p"}
  PROVE  Planned(r, Lstring, Plan(<< >>, "before", {}, Names))
<1> DEFINE
     A1 == Plan(<< >>, "before", {}, Names)
     A2 == Plan(<< >>, "in", {}, Names)
     A3 == Plan(<< >>, "in", {}, Names)
     A4 == Plan(<<"p">>, "in", {}, Names)
     A5 == Plan(<<"p">>, "in", {"s"}, {"p", "s"})
     A6 == Plan(<< >>, "in", {"s"}, {"p", "s"})
     A7 == Plan(<< >>, "after", {"s"}, {"p", "s"})
     X == <<A1, A2, A3, A4, A5, A6, A7, Finished>>
<1>1. /\ Room(r) = 2 /\ Scanned(r) \subseteq {"p"}
  BY DEF Room, RoomOf, Scanned
<1>2. /\ Valid(r, A2) /\ Valid(r, A3) /\ Valid(r, A4) /\ Valid(r, A5) /\ Valid(r, A6)
      /\ Valid(r, A7)
  BY <1>1, ValidNone, ValidOne, ValidTwo DEF Names
<1>3. MayStep(r, Pre, A1, A2)
  BY <1>1, <1>2, RulePre DEF Names
<1>4. MayStep(r, Use("p"), A2, A3)
  BY <1>1, <1>2, RuleUse DEF Names
<1>5. MayStep(r, Push("p"), A3, A4)
  BY <1>1, <1>2, RulePush DEF Names
<1>6. Assigned(r, A4, "s")
  BY <1>1, SmallStacks DEF Assigned, Names
<1>7. Registered(A4) = {"p"}
  BY SmallStacks
<1>8. Len(<<"p">>) = 1
  OBVIOUS
<1>9. 1 + RoomOf("Bstring") <= Room(r)
  BY <1>1, CallRooms
<1>10. "Bstring" # "Bsexp"
  OBVIOUS
<1>11. Callable("Bstring", 0, <<"c">>)
  BY CallsOfFunctions
<1>12. ToSet(<<"c">>) \subseteq Names
  BY ToSetSmall DEF Names
<1>13. {"p", "s"} \subseteq Registered(A4) \cup Scanned(r) \cup {"s", "c"}
  BY <1>1, <1>6, <1>7, <1>8, <1>9, <1>10, <1>11, <1>12
<1>14. MayStep(r, Call("Bstring", 0, <<"c">>, "s"), A4, A5)
  BY <1>1, <1>2, <1>6, <1>7, <1>8, <1>9, <1>10, <1>11, <1>12, <1>13, RuleCallIn DEF Names
<1>15. MayStep(r, Pop("p"), A5, A6)
  BY <1>1, <1>2, RulePop DEF Names
<1>16. MayStep(r, Post, A6, A7)
  BY <1>1, <1>2, RulePost DEF Names
<1>17. MayStep(r, Return("s"), A7, Finished)
  BY <1>1, <1>2, RuleReturn DEF Names, Callees
<1>18. /\ Lstring[1] = Pre /\ Lstring[2] = Use("p") /\ Lstring[3] = Push("p")
      /\ Lstring[4] = Call("Bstring", 0, <<"c">>, "s") /\ Lstring[5] = Pop("p")
      /\ Lstring[6] = Post /\ Lstring[7] = Return("s")
      /\ Indexed(Lstring, 7)
  BY DEF Indexed, Lstring
<1>19. /\ X[1] = A1 /\ X[2] = A2 /\ X[3] = A3 /\ X[4] = A4 /\ X[5] = A5 /\ X[6] = A6 /\ X[7] = A7
      /\ X[8] = Finished
      /\ X[8].gc = "done" /\ 7 \in Nat /\ 8 = 7 + 1
  BY DEF Finished, Plan
<1> HIDE DEF A1, A2, A3, A4, A5, A6, A7, X
<1>20. \A j \in 1 .. 7 : MayStep(r, Lstring[j], X[j], X[j + 1])
  <2>1. \A j \in 1 .. 7 : j = 1 \/ j = 2 \/ j = 3 \/ j = 4 \/ j = 5 \/ j = 6 \/ j = 7
    OBVIOUS
  <2> QED
    BY <2>1, <1>3, <1>4, <1>5, <1>14, <1>15, <1>16, <1>17, <1>18, <1>19
<1>21. Planned(r, Lstring, A1)
  BY <1>18, <1>19, <1>20, PlanByPositions
<1> QED
  BY <1>21 DEF A1

(* Lsprintf: its argument is a root while Bstring allocates.               *)
LEMMA LsprintfPlanned ==
  ASSUME NEW r, r.fn = "Lsprintf", r.params = {"p"}
  PROVE  Planned(r, Lsprintf, Plan(<< >>, "before", {}, Names))
<1> DEFINE
     A1 == Plan(<< >>, "before", {}, Names)
     A2 == Plan(<< >>, "before", {}, Names)
     A3 == Plan(<< >>, "in", {}, Names)
     A4 == Plan(<<"p">>, "in", {}, Names)
     A5 == Plan(<<"p">>, "in", {"s"}, {"p", "s"})
     A6 == Plan(<< >>, "in", {"s"}, {"p", "s"})
     A7 == Plan(<< >>, "after", {"s"}, {"p", "s"})
     X == <<A1, A2, A3, A4, A5, A6, A7, Finished>>
<1>1. /\ Room(r) = 2 /\ Scanned(r) \subseteq {"p"}
  BY DEF Room, RoomOf, Scanned
<1>2. /\ Valid(r, A2) /\ Valid(r, A3) /\ Valid(r, A4) /\ Valid(r, A5) /\ Valid(r, A6)
      /\ Valid(r, A7)
  BY <1>1, ValidNone, ValidOne, ValidTwo DEF Names
<1>3. MayStep(r, Use("p"), A1, A2)
  BY <1>1, <1>2, RuleUse DEF Names
<1>4. MayStep(r, Pre, A2, A3)
  BY <1>1, <1>2, RulePre DEF Names
<1>5. MayStep(r, Push("p"), A3, A4)
  BY <1>1, <1>2, RulePush DEF Names
<1>6. Assigned(r, A4, "s")
  BY <1>1, SmallStacks DEF Assigned, Names
<1>7. Registered(A4) = {"p"}
  BY SmallStacks
<1>8. Len(<<"p">>) = 1
  OBVIOUS
<1>9. 1 + RoomOf("Bstring") <= Room(r)
  BY <1>1, CallRooms
<1>10. "Bstring" # "Bsexp"
  OBVIOUS
<1>11. Callable("Bstring", 0, <<"c">>)
  BY CallsOfFunctions
<1>12. ToSet(<<"c">>) \subseteq Names
  BY ToSetSmall DEF Names
<1>13. {"p", "s"} \subseteq Registered(A4) \cup Scanned(r) \cup {"s", "c"}
  BY <1>1, <1>6, <1>7, <1>8, <1>9, <1>10, <1>11, <1>12
<1>14. MayStep(r, Call("Bstring", 0, <<"c">>, "s"), A4, A5)
  BY <1>1, <1>2, <1>6, <1>7, <1>8, <1>9, <1>10, <1>11, <1>12, <1>13, RuleCallIn DEF Names
<1>15. MayStep(r, Pop("p"), A5, A6)
  BY <1>1, <1>2, RulePop DEF Names
<1>16. MayStep(r, Post, A6, A7)
  BY <1>1, <1>2, RulePost DEF Names
<1>17. MayStep(r, Return("s"), A7, Finished)
  BY <1>1, <1>2, RuleReturn DEF Names, Callees
<1>18. /\ Lsprintf[1] = Use("p") /\ Lsprintf[2] = Pre /\ Lsprintf[3] = Push("p")
      /\ Lsprintf[4] = Call("Bstring", 0, <<"c">>, "s") /\ Lsprintf[5] = Pop("p")
      /\ Lsprintf[6] = Post /\ Lsprintf[7] = Return("s")
      /\ Indexed(Lsprintf, 7)
  BY DEF Indexed, Lsprintf
<1>19. /\ X[1] = A1 /\ X[2] = A2 /\ X[3] = A3 /\ X[4] = A4 /\ X[5] = A5 /\ X[6] = A6 /\ X[7] = A7
      /\ X[8] = Finished
      /\ X[8].gc = "done" /\ 7 \in Nat /\ 8 = 7 + 1
  BY DEF Finished, Plan
<1> HIDE DEF A1, A2, A3, A4, A5, A6, A7, X
<1>20. \A j \in 1 .. 7 : MayStep(r, Lsprintf[j], X[j], X[j + 1])
  <2>1. \A j \in 1 .. 7 : j = 1 \/ j = 2 \/ j = 3 \/ j = 4 \/ j = 5 \/ j = 6 \/ j = 7
    OBVIOUS
  <2> QED
    BY <2>1, <1>3, <1>4, <1>5, <1>14, <1>15, <1>16, <1>17, <1>18, <1>19
<1>21. Planned(r, Lsprintf, A1)
  BY <1>18, <1>19, <1>20, PlanByPositions
<1> QED
  BY <1>21 DEF A1

(* LgetEnv.                                                                *)
LEMMA LgetEnvPlanned ==
  ASSUME NEW r, r.fn = "LgetEnv", r.params = {"p"}, r.own
  PROVE  Planned(r, LgetEnv, Plan(<< >>, "before", {}, Names))
<1> DEFINE
     A1 == Plan(<< >>, "before", {}, Names)
     A2 == Plan(<< >>, "before", {}, Names)
     A3 == Plan(<< >>, "in", {}, Names)
     A4 == Plan(<< >>, "in", {"s"}, {"p", "s"})
     A5 == Plan(<< >>, "after", {"s"}, {"p", "s"})
     X == <<A1, A2, A3, A4, A5, Finished>>
<1>1. /\ Room(r) = 2 /\ Scanned(r) \subseteq {"p"} /\ r.own
      /\ Scanned(r) = {"p"}
  BY DEF Room, RoomOf, Scanned
<1>2. /\ Valid(r, A2) /\ Valid(r, A3) /\ Valid(r, A4) /\ Valid(r, A5)
  BY <1>1, ValidNone, ValidOne, ValidTwo DEF Names
<1>3. MayStep(r, Use("p"), A1, A2)
  BY <1>1, <1>2, RuleUse DEF Names
<1>4. MayStep(r, Pre, A2, A3)
  BY <1>1, <1>2, RulePre DEF Names
<1>5. Assigned(r, A3, "s")
  BY <1>1, SmallStacks DEF Assigned, Names
<1>6. Registered(A3) = {}
  BY SmallStacks
<1>7. Len(<< >>) = 0
  OBVIOUS
<1>8. 0 + RoomOf("Bstring") <= Room(r)
  BY <1>1, CallRooms
<1>9. "Bstring" # "Bsexp"
  OBVIOUS
<1>10. Callable("Bstring", 0, <<"c">>)
  BY CallsOfFunctions
<1>11. ToSet(<<"c">>) \subseteq Names
  BY ToSetSmall DEF Names
<1>12. {"p", "s"} \subseteq Registered(A3) \cup Scanned(r) \cup {"s", "c"}
  BY <1>1, <1>5, <1>6, <1>7, <1>8, <1>9, <1>10, <1>11
<1>13. MayStep(r, Call("Bstring", 0, <<"c">>, "s"), A3, A4)
  BY <1>1, <1>2, <1>5, <1>6, <1>7, <1>8, <1>9, <1>10, <1>11, <1>12, RuleCallIn DEF Names
<1>14. MayStep(r, Post, A4, A5)
  BY <1>1, <1>2, RulePost DEF Names
<1>15. MayStep(r, Return("s"), A5, Finished)
  BY <1>1, <1>2, RuleReturn DEF Names, Callees
<1>16. /\ LgetEnv[1] = Use("p") /\ LgetEnv[2] = Pre /\ LgetEnv[3] = Call("Bstring", 0, <<"c">>, "s")
      /\ LgetEnv[4] = Post /\ LgetEnv[5] = Return("s")
      /\ Indexed(LgetEnv, 5)
  BY DEF Indexed, LgetEnv
<1>17. /\ X[1] = A1 /\ X[2] = A2 /\ X[3] = A3 /\ X[4] = A4 /\ X[5] = A5 /\ X[6] = Finished
      /\ X[6].gc = "done" /\ 5 \in Nat /\ 6 = 5 + 1
  BY DEF Finished, Plan
<1> HIDE DEF A1, A2, A3, A4, A5, X
<1>18. \A j \in 1 .. 5 : MayStep(r, LgetEnv[j], X[j], X[j + 1])
  <2>1. \A j \in 1 .. 5 : j = 1 \/ j = 2 \/ j = 3 \/ j = 4 \/ j = 5
    OBVIOUS
  <2> QED
    BY <2>1, <1>3, <1>4, <1>13, <1>14, <1>15, <1>16, <1>17
<1>19. Planned(r, LgetEnv, A1)
  BY <1>16, <1>17, <1>18, PlanByPositions
<1> QED
  BY <1>19 DEF A1

(* LreadLine.                                                              *)
LEMMA LreadLinePlanned ==
  ASSUME NEW r, r.fn = "LreadLine", r.params = {}, r.own
  PROVE  Planned(r, LreadLine, Plan(<< >>, "before", {}, Names))
<1> DEFINE
     A1 == Plan(<< >>, "before", {}, Names)
     A2 == Plan(<< >>, "before", {"s"}, Names)
     X == <<A1, A2, Finished>>
<1>1. /\ Room(r) = 2 /\ Scanned(r) \subseteq {} /\ r.own
  BY DEF Room, RoomOf, Scanned
<1>2. /\ Valid(r, A2)
  BY <1>1, ValidNone, ValidOne, ValidTwo DEF Names
<1>3. Assigned(r, A1, "s")
  BY <1>1, SmallStacks DEF Assigned, Names
<1>4. Registered(A1) = {}
  BY SmallStacks
<1>5. Len(<< >>) = 0
  OBVIOUS
<1>6. 0 + RoomOf("Bstring") <= Room(r)
  BY <1>1, CallRooms
<1>7. "Bstring" # "Bsexp"
  OBVIOUS
<1>8. Callable("Bstring", 0, <<"c">>)
  BY CallsOfFunctions
<1>9. ToSet(<<"c">>) \subseteq Names
  BY ToSetSmall DEF Names
<1>10. MayStep(r, Call("Bstring", 0, <<"c">>, "s"), A1, A2)
  BY <1>1, <1>2, <1>3, <1>4, <1>5, <1>6, <1>7, <1>8, <1>9, RuleCallBefore DEF Names
<1>11. MayStep(r, Return("s"), A2, Finished)
  BY <1>1, <1>2, RuleReturn DEF Names, Callees
<1>12. /\ LreadLine[1] = Call("Bstring", 0, <<"c">>, "s") /\ LreadLine[2] = Return("s")
      /\ Indexed(LreadLine, 2)
  BY DEF Indexed, LreadLine
<1>13. /\ X[1] = A1 /\ X[2] = A2 /\ X[3] = Finished
      /\ X[3].gc = "done" /\ 2 \in Nat /\ 3 = 2 + 1
  BY DEF Finished, Plan
<1> HIDE DEF A1, A2, X
<1>14. \A j \in 1 .. 2 : MayStep(r, LreadLine[j], X[j], X[j + 1])
  <2>1. \A j \in 1 .. 2 : j = 1 \/ j = 2
    OBVIOUS
  <2> QED
    BY <2>1, <1>10, <1>11, <1>12, <1>13
<1>15. Planned(r, LreadLine, A1)
  BY <1>12, <1>13, <1>14, PlanByPositions
<1> QED
  BY <1>15 DEF A1

(* Lfread.                                                                 *)
LEMMA LfreadPlanned ==
  ASSUME NEW r, r.fn = "Lfread", r.params = {"p"}, r.own
  PROVE  Planned(r, Lfread, Plan(<< >>, "before", {}, Names))
<1> DEFINE
     A1 == Plan(<< >>, "before", {}, Names)
     A2 == Plan(<< >>, "before", {}, Names)
     A3 == Plan(<< >>, "before", {"s"}, Names)
     A4 == Plan(<< >>, "before", {"s"}, Names)
     X == <<A1, A2, A3, A4, Finished>>
<1>1. /\ Room(r) = 2 /\ Scanned(r) \subseteq {"p"} /\ r.own
  BY DEF Room, RoomOf, Scanned
<1>2. /\ Valid(r, A2) /\ Valid(r, A3) /\ Valid(r, A4)
  BY <1>1, ValidNone, ValidOne, ValidTwo DEF Names
<1>3. MayStep(r, Use("p"), A1, A2)
  BY <1>1, <1>2, RuleUse DEF Names
<1>4. Assigned(r, A2, "s")
  BY <1>1, SmallStacks DEF Assigned, Names
<1>5. Registered(A2) = {}
  BY SmallStacks
<1>6. Len(<< >>) = 0
  OBVIOUS
<1>7. 0 + RoomOf("LmakeString") <= Room(r)
  BY <1>1, CallRooms
<1>8. "LmakeString" # "Bsexp"
  OBVIOUS
<1>9. Callable("LmakeString", 0, << >>)
  BY CallsOfFunctions
<1>10. ToSet(<< >>) \subseteq Names
  BY ToSetSmall DEF Names
<1>11. MayStep(r, Call("LmakeString", 0, << >>, "s"), A2, A3)
  BY <1>1, <1>2, <1>4, <1>5, <1>6, <1>7, <1>8, <1>9, <1>10, RuleCallBefore DEF Names
<1>12. MayStep(r, Use("s"), A3, A4)
  BY <1>1, <1>2, RuleUse DEF Names
<1>13. MayStep(r, Return("s"), A4, Finished)
  BY <1>1, <1>2, RuleReturn DEF Names, Callees
<1>14. /\ Lfread[1] = Use("p") /\ Lfread[2] = Call("LmakeString", 0, << >>, "s")
      /\ Lfread[3] = Use("s") /\ Lfread[4] = Return("s")
      /\ Indexed(Lfread, 4)
  BY DEF Indexed, Lfread
<1>15. /\ X[1] = A1 /\ X[2] = A2 /\ X[3] = A3 /\ X[4] = A4 /\ X[5] = Finished
      /\ X[5].gc = "done" /\ 4 \in Nat /\ 5 = 4 + 1
  BY DEF Finished, Plan
<1> HIDE DEF A1, A2, A3, A4, X
<1>16. \A j \in 1 .. 4 : MayStep(r, Lfread[j], X[j], X[j + 1])
  <2>1. \A j \in 1 .. 4 : j = 1 \/ j = 2 \/ j = 3 \/ j = 4
    OBVIOUS
  <2> QED
    BY <2>1, <1>3, <1>11, <1>12, <1>13, <1>14, <1>15
<1>17. Planned(r, Lfread, A1)
  BY <1>14, <1>15, <1>16, PlanByPositions
<1> QED
  BY <1>17 DEF A1

(* Lsubstring: the subject is a root while LmakeString allocates.          *)
LEMMA LsubstringPlanned ==
  ASSUME NEW r, r.fn = "Lsubstring", r.params = {"p"}
  PROVE  Planned(r, Lsubstring, Plan(<< >>, "before", {}, Names))
<1> DEFINE
     A1 == Plan(<< >>, "before", {}, Names)
     A2 == Plan(<< >>, "before", {}, Names)
     A3 == Plan(<< >>, "in", {}, Names)
     A4 == Plan(<<"p">>, "in", {}, Names)
     A5 == Plan(<<"p">>, "in", {"r"}, {"p", "r"})
     A6 == Plan(<< >>, "in", {"r"}, {"p", "r"})
     A7 == Plan(<< >>, "in", {"r"}, {"p", "r"})
     A8 == Plan(<< >>, "in", {"r"}, {"p", "r"})
     A9 == Plan(<< >>, "after", {"r"}, {"p", "r"})
     X == <<A1, A2, A3, A4, A5, A6, A7, A8, A9, Finished>>
<1>1. /\ Room(r) = 2 /\ Scanned(r) \subseteq {"p"}
  BY DEF Room, RoomOf, Scanned
<1>2. /\ Valid(r, A2) /\ Valid(r, A3) /\ Valid(r, A4) /\ Valid(r, A5) /\ Valid(r, A6)
      /\ Valid(r, A7) /\ Valid(r, A8) /\ Valid(r, A9)
  BY <1>1, ValidNone, ValidOne, ValidTwo DEF Names
<1>3. MayStep(r, Use("p"), A1, A2)
  BY <1>1, <1>2, RuleUse DEF Names
<1>4. MayStep(r, Pre, A2, A3)
  BY <1>1, <1>2, RulePre DEF Names
<1>5. MayStep(r, Push("p"), A3, A4)
  BY <1>1, <1>2, RulePush DEF Names
<1>6. Assigned(r, A4, "r")
  BY <1>1, SmallStacks DEF Assigned, Names
<1>7. Registered(A4) = {"p"}
  BY SmallStacks
<1>8. MayStep(r, New("r", "string", 0), A4, A5)
  BY <1>1, <1>2, <1>6, <1>7, RuleNew DEF Names
<1>9. MayStep(r, Pop("p"), A5, A6)
  BY <1>1, <1>2, RulePop DEF Names
<1>10. MayStep(r, Use("p"), A6, A7)
  BY <1>1, <1>2, RuleUse DEF Names
<1>11. MayStep(r, Use("r"), A7, A8)
  BY <1>1, <1>2, RuleUse DEF Names
<1>12. MayStep(r, Post, A8, A9)
  BY <1>1, <1>2, RulePost DEF Names
<1>13. MayStep(r, Return("r"), A9, Finished)
  BY <1>1, <1>2, RuleReturn DEF Names, Callees
<1>14. /\ Lsubstring[1] = Use("p") /\ Lsubstring[2] = Pre /\ Lsubstring[3] = Push("p")
      /\ Lsubstring[4] = New("r", "string", 0) /\ Lsubstring[5] = Pop("p")
      /\ Lsubstring[6] = Use("p") /\ Lsubstring[7] = Use("r") /\ Lsubstring[8] = Post
      /\ Lsubstring[9] = Return("r")
      /\ Indexed(Lsubstring, 9)
  BY DEF Indexed, Lsubstring
<1>15. /\ X[1] = A1 /\ X[2] = A2 /\ X[3] = A3 /\ X[4] = A4 /\ X[5] = A5 /\ X[6] = A6 /\ X[7] = A7
      /\ X[8] = A8 /\ X[9] = A9 /\ X[10] = Finished
      /\ X[10].gc = "done" /\ 9 \in Nat /\ 10 = 9 + 1
  BY DEF Finished, Plan
<1> HIDE DEF A1, A2, A3, A4, A5, A6, A7, A8, A9, X
<1>16. \A j \in 1 .. 9 : MayStep(r, Lsubstring[j], X[j], X[j + 1])
  <2>1. \A j \in 1 .. 9 : j = 1 \/ j = 2 \/ j = 3 \/ j = 4 \/ j = 5 \/ j = 6 \/ j = 7 \/ j = 8 \/ j = 9
    OBVIOUS
  <2> QED
    BY <2>1, <1>3, <1>4, <1>5, <1>8, <1>9, <1>10, <1>11, <1>12, <1>13, <1>14, <1>15
<1>17. Planned(r, Lsubstring, A1)
  BY <1>14, <1>15, <1>16, PlanByPositions
<1> QED
  BY <1>17 DEF A1

(* Ls__Infix_4343: both strings are roots while LmakeString allocates.     *)
LEMMA ConcatPlanned ==
  ASSUME NEW r, r.fn = "Concat", r.params = {"p", "q"}
  PROVE  Planned(r, Concat, Plan(<< >>, "before", {}, Names))
<1> DEFINE
     A1 == Plan(<< >>, "before", {}, Names)
     A2 == Plan(<< >>, "before", {}, Names)
     A3 == Plan(<< >>, "before", {}, Names)
     A4 == Plan(<< >>, "in", {}, Names)
     A5 == Plan(<<"p">>, "in", {}, Names)
     A6 == Plan(<<"p", "q">>, "in", {}, Names)
     A7 == Plan(<<"p", "q">>, "in", {"r"}, {"p", "q", "r"})
     A8 == Plan(<<"p">>, "in", {"r"}, {"p", "q", "r"})
     A9 == Plan(<< >>, "in", {"r"}, {"p", "q", "r"})
     A10 == Plan(<< >>, "in", {"r"}, {"p", "q", "r"})
     A11 == Plan(<< >>, "in", {"r"}, {"p", "q", "r"})
     A12 == Plan(<< >>, "in", {"r"}, {"p", "q", "r"})
     A13 == Plan(<< >>, "after", {"r"}, {"p", "q", "r"})
     X == <<A1, A2, A3, A4, A5, A6, A7, A8, A9, A10, A11, A12, A13, Finished>>
<1>1. /\ Room(r) = 2 /\ Scanned(r) \subseteq {"p", "q"} /\ "p" # "q"
  BY DEF Room, RoomOf, Scanned
<1>2. /\ Valid(r, A2) /\ Valid(r, A3) /\ Valid(r, A4) /\ Valid(r, A5) /\ Valid(r, A6)
      /\ Valid(r, A7) /\ Valid(r, A8) /\ Valid(r, A9) /\ Valid(r, A10) /\ Valid(r, A11)
      /\ Valid(r, A12) /\ Valid(r, A13)
  <2>1. {} \subseteq Names /\ {"r"} \subseteq Names /\ {"p", "q", "r"} \subseteq Names
    BY DEF Names
  <2>2. /\ Valid(r, A2) /\ Valid(r, A3) /\ Valid(r, A4) /\ Valid(r, A9) /\ Valid(r, A10)
        /\ Valid(r, A11) /\ Valid(r, A12) /\ Valid(r, A13)
    BY <1>1, <2>1, ValidNone
  <2>3. Valid(r, A5) /\ Valid(r, A8)
    BY <1>1, <2>1, ValidOne
  <2>4. Valid(r, A6) /\ Valid(r, A7)
    BY <1>1, <2>1, ValidTwo
  <2> QED
    BY <2>2, <2>3, <2>4
<1>3. MayStep(r, Use("p"), A1, A2)
  BY <1>1, <1>2, RuleUse DEF Names
<1>4. MayStep(r, Use("q"), A2, A3)
  BY <1>1, <1>2, RuleUse DEF Names
<1>5. MayStep(r, Pre, A3, A4)
  BY <1>1, <1>2, RulePre DEF Names
<1>6. MayStep(r, Push("p"), A4, A5)
  BY <1>1, <1>2, RulePush DEF Names
<1>7. MayStep(r, Push("q"), A5, A6)
  BY <1>1, <1>2, RulePushSecond DEF Names
<1>8. Assigned(r, A6, "r")
  BY <1>1, SmallStacks DEF Assigned, Names
<1>9. Registered(A6) = {"p", "q"}
  BY SmallStacks
<1>10. MayStep(r, New("r", "string", 0), A6, A7)
  BY <1>1, <1>2, <1>8, <1>9, RuleNew DEF Names
<1>11. MayStep(r, Pop("q"), A7, A8)
  BY <1>1, <1>2, RulePopSecond DEF Names
<1>12. MayStep(r, Pop("p"), A8, A9)
  BY <1>1, <1>2, RulePop DEF Names
<1>13. MayStep(r, Use("p"), A9, A10)
  BY <1>1, <1>2, RuleUse DEF Names
<1>14. MayStep(r, Use("q"), A10, A11)
  BY <1>1, <1>2, RuleUse DEF Names
<1>15. MayStep(r, Use("r"), A11, A12)
  BY <1>1, <1>2, RuleUse DEF Names
<1>16. MayStep(r, Post, A12, A13)
  BY <1>1, <1>2, RulePost DEF Names
<1>17. MayStep(r, Return("r"), A13, Finished)
  BY <1>1, <1>2, RuleReturn DEF Names, Callees
<1>18. /\ Concat[1] = Use("p") /\ Concat[2] = Use("q") /\ Concat[3] = Pre /\ Concat[4] = Push("p")
      /\ Concat[5] = Push("q") /\ Concat[6] = New("r", "string", 0) /\ Concat[7] = Pop("q")
      /\ Concat[8] = Pop("p") /\ Concat[9] = Use("p") /\ Concat[10] = Use("q")
      /\ Concat[11] = Use("r") /\ Concat[12] = Post /\ Concat[13] = Return("r")
      /\ Indexed(Concat, 13)
  BY DEF Indexed, Concat
<1>19. /\ X[1] = A1 /\ X[2] = A2 /\ X[3] = A3 /\ X[4] = A4 /\ X[5] = A5 /\ X[6] = A6 /\ X[7] = A7
      /\ X[8] = A8 /\ X[9] = A9 /\ X[10] = A10 /\ X[11] = A11 /\ X[12] = A12 /\ X[13] = A13
      /\ X[14] = Finished
      /\ X[14].gc = "done" /\ 13 \in Nat /\ 14 = 13 + 1
  BY DEF Finished, Plan
<1> HIDE DEF A1, A2, A3, A4, A5, A6, A7, A8, A9, A10, A11, A12, A13, X
<1>20. \A j \in 1 .. 13 : MayStep(r, Concat[j], X[j], X[j + 1])
  <2>1. \A j \in 1 .. 13 : j = 1 \/ j = 2 \/ j = 3 \/ j = 4 \/ j = 5 \/ j = 6 \/ j = 7 \/ j = 8 \/ j = 9
          \/ j = 10 \/ j = 11 \/ j = 12 \/ j = 13
    OBVIOUS
  <2> QED
    BY <2>1, <1>3, <1>4, <1>5, <1>6, <1>7, <1>10, <1>11, <1>12, <1>13, <1>14, <1>15, <1>16, <1>17
       , <1>18, <1>19
<1>21. Planned(r, Concat, A1)
  BY <1>18, <1>19, <1>20, PlanByPositions
<1> QED
  BY <1>21 DEF A1

(* A cell of a list: both parts are roots while Bsexp allocates.           *)
LEMMA ListConsPlanned ==
  ASSUME NEW r, r.fn = "ListCons", r.params = {"p", "q"}
  PROVE  Planned(r, ListCons, Plan(<< >>, "before", {}, Names))
<1> DEFINE
     A1 == Plan(<< >>, "before", {}, Names)
     A2 == Plan(<< >>, "in", {}, Names)
     A3 == Plan(<<"p">>, "in", {}, Names)
     A4 == Plan(<<"p", "q">>, "in", {}, Names)
     A5 == Plan(<<"p", "q">>, "in", {"s"}, {"p", "q", "s"})
     A6 == Plan(<<"p">>, "in", {"s"}, {"p", "q", "s"})
     A7 == Plan(<< >>, "in", {"s"}, {"p", "q", "s"})
     A8 == Plan(<< >>, "after", {"s"}, {"p", "q", "s"})
     X == <<A1, A2, A3, A4, A5, A6, A7, A8, Finished>>
<1>1. /\ Room(r) = 2 /\ Scanned(r) \subseteq {"p", "q"} /\ "p" # "q"
  BY DEF Room, RoomOf, Scanned
<1>2. /\ Valid(r, A2) /\ Valid(r, A3) /\ Valid(r, A4) /\ Valid(r, A5) /\ Valid(r, A6)
      /\ Valid(r, A7) /\ Valid(r, A8)
  BY <1>1, ValidNone, ValidOne, ValidTwo DEF Names
<1>3. MayStep(r, Pre, A1, A2)
  BY <1>1, <1>2, RulePre DEF Names
<1>4. MayStep(r, Push("p"), A2, A3)
  BY <1>1, <1>2, RulePush DEF Names
<1>5. MayStep(r, Push("q"), A3, A4)
  BY <1>1, <1>2, RulePushSecond DEF Names
<1>6. Assigned(r, A4, "s")
  BY <1>1, SmallStacks DEF Assigned, Names
<1>7. Registered(A4) = {"p", "q"}
  BY SmallStacks
<1>8. Len(<<"p", "q">>) = 2
  OBVIOUS
<1>9. 2 + RoomOf("Bsexp") <= Room(r)
  BY <1>1, CallRooms
<1>10. r.fn = "ListCons"
  OBVIOUS
<1>11. Callable("Bsexp", 2, <<"p", "q">>)
  BY CallsOfFunctions
<1>12. ToSet(<<"p", "q">>) \subseteq Names
  BY ToSetSmall DEF Names
<1>13. {"p", "q", "s"} \subseteq Registered(A4) \cup Scanned(r) \cup {"s", "c"}
  BY <1>1, <1>6, <1>7, <1>8, <1>9, <1>10, <1>11, <1>12
<1>14. MayStep(r, Call("Bsexp", 2, <<"p", "q">>, "s"), A4, A5)
  BY <1>1, <1>2, <1>6, <1>7, <1>8, <1>9, <1>10, <1>11, <1>12, <1>13, RuleCallIn DEF Names
<1>15. MayStep(r, Pop("q"), A5, A6)
  BY <1>1, <1>2, RulePopSecond DEF Names
<1>16. MayStep(r, Pop("p"), A6, A7)
  BY <1>1, <1>2, RulePop DEF Names
<1>17. MayStep(r, Post, A7, A8)
  BY <1>1, <1>2, RulePost DEF Names
<1>18. MayStep(r, Return("s"), A8, Finished)
  BY <1>1, <1>2, RuleReturn DEF Names, Callees
<1>19. /\ ListCons[1] = Pre /\ ListCons[2] = Push("p") /\ ListCons[3] = Push("q")
      /\ ListCons[4] = Call("Bsexp", 2, <<"p", "q">>, "s") /\ ListCons[5] = Pop("q")
      /\ ListCons[6] = Pop("p") /\ ListCons[7] = Post /\ ListCons[8] = Return("s")
      /\ Indexed(ListCons, 8)
  BY DEF Indexed, ListCons
<1>20. /\ X[1] = A1 /\ X[2] = A2 /\ X[3] = A3 /\ X[4] = A4 /\ X[5] = A5 /\ X[6] = A6 /\ X[7] = A7
      /\ X[8] = A8 /\ X[9] = Finished
      /\ X[9].gc = "done" /\ 8 \in Nat /\ 9 = 8 + 1
  BY DEF Finished, Plan
<1> HIDE DEF A1, A2, A3, A4, A5, A6, A7, A8, X
<1>21. \A j \in 1 .. 8 : MayStep(r, ListCons[j], X[j], X[j + 1])
  <2>1. \A j \in 1 .. 8 : j = 1 \/ j = 2 \/ j = 3 \/ j = 4 \/ j = 5 \/ j = 6 \/ j = 7 \/ j = 8
    OBVIOUS
  <2> QED
    BY <2>1, <1>3, <1>4, <1>5, <1>14, <1>15, <1>16, <1>17, <1>18, <1>19, <1>20
<1>22. Planned(r, ListCons, A1)
  BY <1>19, <1>20, <1>21, PlanByPositions
<1> QED
  BY <1>22 DEF A1

-----------------------------------------------------------------------------
(***************************************************************************)
(* Functions with values                                                   *)
(***************************************************************************)

(* The three forms of a clone.                                             *)
CloneValue == <<Return("p")>>

CloneText == <<Pre, Use("p"), Push("p"), Call("Bstring", 0, <<"p">>, "s"), Pop("p"), Post, Return("s")>>

CloneObject(type, n) ==
  <<Pre, Use("p"), Push("p"), New("s", type, n), Copy("s", "p"), Pop("p"), Post, Return("s")>>

(* The three scripts of Lclone,                                            *)
LEMMA CloneForms ==
  ASSUME NEW w, NEW type, NEW n
  PROVE  /\ ~IsRef(w) => Lclone(w, type, n) = CloneValue
         /\ IsRef(w) /\ type = "string" => Lclone(w, type, n) = CloneText
         /\ IsRef(w) /\ type # "string" => Lclone(w, type, n) = CloneObject(type, n)
<1>1. ~IsRef(w) => Lclone(w, type, n) = CloneValue
  BY DEF Lclone, CloneValue
<1>2. ASSUME IsRef(w), type = "string"
      PROVE  Lclone(w, type, n) = CloneText
  <2>1. PICK C : C = Lclone(w, type, n)
    OBVIOUS
  <2>2. PICK first : first = Pre
    OBVIOUS
  <2>3. PICK second : second = Use("p")
    OBVIOUS
  <2>4. PICK third : third = Push("p")
    OBVIOUS
  <2>5. PICK fourth : fourth = Call("Bstring", 0, <<"p">>, "s")
    OBVIOUS
  <2>7. PICK sixth : sixth = Pop("p")
    OBVIOUS
  <2>8. PICK seventh : seventh = Post
    OBVIOUS
  <2>9. PICK eighth : eighth = Return("s")
    OBVIOUS
  <2>10. C = Enclosed(first, second, third, <<fourth>>, sixth, seventh, eighth)
    BY <1>2, <2>1, <2>2, <2>3, <2>4, <2>5, <2>7, <2>8, <2>9 DEF Lclone, Chained, Enclosed
  <2>11. C = <<first, second, third, fourth, sixth, seventh, eighth>>
    BY ONLY <2>10, JoinedSeven
  <2> QED
    BY ONLY <2>1, <2>2, <2>3, <2>4, <2>5, <2>7, <2>8, <2>9, <2>11 DEF CloneText
<1>3. ASSUME IsRef(w), type # "string"
      PROVE  Lclone(w, type, n) = CloneObject(type, n)
  <2>1. PICK C : C = Lclone(w, type, n)
    OBVIOUS
  <2>2. PICK first : first = Pre
    OBVIOUS
  <2>3. PICK second : second = Use("p")
    OBVIOUS
  <2>4. PICK third : third = Push("p")
    OBVIOUS
  <2>5. PICK fourth : fourth = New("s", type, n)
    OBVIOUS
  <2>6. PICK fifth : fifth = Copy("s", "p")
    OBVIOUS
  <2>7. PICK sixth : sixth = Pop("p")
    OBVIOUS
  <2>8. PICK seventh : seventh = Post
    OBVIOUS
  <2>9. PICK eighth : eighth = Return("s")
    OBVIOUS
  <2>10. C = Enclosed(first, second, third, <<fourth, fifth>>, sixth, seventh, eighth)
    BY <1>3, <2>1, <2>2, <2>3, <2>4, <2>5, <2>6, <2>7, <2>8, <2>9 DEF Lclone, Chained, Enclosed
  <2>11. C = <<first, second, third, fourth, fifth, sixth, seventh, eighth>>
    BY ONLY <2>10, JoinedEight
  <2> QED
    BY ONLY <2>1, <2>2, <2>3, <2>4, <2>5, <2>6, <2>7, <2>8, <2>9, <2>11 DEF CloneObject
<1> QED
  BY <1>1, <1>2, <1>3

(* for a number,                                                           *)
LEMMA CloneValuePlanned ==
  ASSUME NEW r, r.fn = "Lclone", r.params = {"p"}
  PROVE  Planned(r, CloneValue, Plan(<< >>, "before", {}, Names))
<1> DEFINE
     A1 == Plan(<< >>, "before", {}, Names)
     X == <<A1, Finished>>
<1>1. /\ Room(r) = 2 /\ Scanned(r) \subseteq {"p"}
  BY DEF Room, RoomOf, Scanned
<1>2. "p" \in Names
  BY DEF Names
<1>3. MayStep(r, Return("p"), A1, Finished)
  BY <1>1, <1>2, RuleReturn DEF Names, Callees
<1>4. /\ CloneValue[1] = Return("p")
      /\ Indexed(CloneValue, 1)
  BY DEF Indexed, CloneValue
<1>5. /\ X[1] = A1 /\ X[2] = Finished
      /\ X[2].gc = "done" /\ 1 \in Nat /\ 2 = 1 + 1
  BY DEF Finished, Plan
<1> HIDE DEF A1, X
<1>6. \A j \in 1 .. 1 : MayStep(r, CloneValue[j], X[j], X[j + 1])
  <2>1. \A j \in 1 .. 1 : j = 1
    OBVIOUS
  <2> QED
    BY <2>1, <1>3, <1>4, <1>5
<1>7. Planned(r, CloneValue, A1)
  BY <1>4, <1>5, <1>6, PlanByPositions
<1> QED
  BY <1>7 DEF A1

(* for a string,                                                           *)
LEMMA CloneTextPlanned ==
  ASSUME NEW r, r.fn = "Lclone", r.params = {"p"}
  PROVE  Planned(r, CloneText, Plan(<< >>, "before", {}, Names))
<1> DEFINE
     A1 == Plan(<< >>, "before", {}, Names)
     A2 == Plan(<< >>, "in", {}, Names)
     A3 == Plan(<< >>, "in", {}, Names)
     A4 == Plan(<<"p">>, "in", {}, Names)
     A5 == Plan(<<"p">>, "in", {"s"}, {"p", "s"})
     A6 == Plan(<< >>, "in", {"s"}, {"p", "s"})
     A7 == Plan(<< >>, "after", {"s"}, {"p", "s"})
     X == <<A1, A2, A3, A4, A5, A6, A7, Finished>>
<1>1. /\ Room(r) = 2 /\ Scanned(r) \subseteq {"p"}
  BY DEF Room, RoomOf, Scanned
<1>2. /\ Valid(r, A2) /\ Valid(r, A3) /\ Valid(r, A4) /\ Valid(r, A5) /\ Valid(r, A6)
      /\ Valid(r, A7)
  BY <1>1, ValidNone, ValidOne, ValidTwo DEF Names
<1>3. MayStep(r, Pre, A1, A2)
  BY <1>1, <1>2, RulePre DEF Names
<1>4. MayStep(r, Use("p"), A2, A3)
  BY <1>1, <1>2, RuleUse DEF Names
<1>5. MayStep(r, Push("p"), A3, A4)
  BY <1>1, <1>2, RulePush DEF Names
<1>6. Assigned(r, A4, "s")
  BY <1>1, SmallStacks DEF Assigned, Names
<1>7. Registered(A4) = {"p"}
  BY SmallStacks
<1>8. Len(<<"p">>) = 1
  OBVIOUS
<1>9. 1 + RoomOf("Bstring") <= Room(r)
  BY <1>1, CallRooms
<1>10. "Bstring" # "Bsexp"
  OBVIOUS
<1>11. Callable("Bstring", 0, <<"p">>)
  BY CallsOfFunctions
<1>12. ToSet(<<"p">>) \subseteq Names
  BY ToSetSmall DEF Names
<1>13. {"p", "s"} \subseteq Registered(A4) \cup Scanned(r) \cup {"s", "c"}
  BY <1>1, <1>6, <1>7, <1>8, <1>9, <1>10, <1>11, <1>12
<1>14. MayStep(r, Call("Bstring", 0, <<"p">>, "s"), A4, A5)
  BY <1>1, <1>2, <1>6, <1>7, <1>8, <1>9, <1>10, <1>11, <1>12, <1>13, RuleCallIn DEF Names
<1>15. MayStep(r, Pop("p"), A5, A6)
  BY <1>1, <1>2, RulePop DEF Names
<1>16. MayStep(r, Post, A6, A7)
  BY <1>1, <1>2, RulePost DEF Names
<1>17. MayStep(r, Return("s"), A7, Finished)
  BY <1>1, <1>2, RuleReturn DEF Names, Callees
<1>18. /\ CloneText[1] = Pre /\ CloneText[2] = Use("p") /\ CloneText[3] = Push("p")
      /\ CloneText[4] = Call("Bstring", 0, <<"p">>, "s") /\ CloneText[5] = Pop("p")
      /\ CloneText[6] = Post /\ CloneText[7] = Return("s")
      /\ Indexed(CloneText, 7)
  BY DEF Indexed, CloneText
<1>19. /\ X[1] = A1 /\ X[2] = A2 /\ X[3] = A3 /\ X[4] = A4 /\ X[5] = A5 /\ X[6] = A6 /\ X[7] = A7
      /\ X[8] = Finished
      /\ X[8].gc = "done" /\ 7 \in Nat /\ 8 = 7 + 1
  BY DEF Finished, Plan
<1> HIDE DEF A1, A2, A3, A4, A5, A6, A7, X
<1>20. \A j \in 1 .. 7 : MayStep(r, CloneText[j], X[j], X[j + 1])
  <2>1. \A j \in 1 .. 7 : j = 1 \/ j = 2 \/ j = 3 \/ j = 4 \/ j = 5 \/ j = 6 \/ j = 7
    OBVIOUS
  <2> QED
    BY <2>1, <1>3, <1>4, <1>5, <1>14, <1>15, <1>16, <1>17, <1>18, <1>19
<1>21. Planned(r, CloneText, A1)
  BY <1>18, <1>19, <1>20, PlanByPositions
<1> QED
  BY <1>21 DEF A1

(* and for any other object, which is a root while its copy is allocated.  *)
LEMMA CloneObjectPlanned ==
  ASSUME NEW r, NEW type, NEW n, r.fn = "Lclone", r.params = {"p"}
  PROVE  Planned(r, CloneObject(type, n), Plan(<< >>, "before", {"p"}, Names))
<1> DEFINE
     A1 == Plan(<< >>, "before", {"p"}, Names)
     A2 == Plan(<< >>, "in", {"p"}, Names)
     A3 == Plan(<< >>, "in", {"p"}, Names)
     A4 == Plan(<<"p">>, "in", {"p"}, Names)
     A5 == Plan(<<"p">>, "in", {"p", "s"}, {"p", "s"})
     A6 == Plan(<<"p">>, "in", {"p", "s"}, {"p", "s"})
     A7 == Plan(<< >>, "in", {"p", "s"}, {"p", "s"})
     A8 == Plan(<< >>, "after", {"p", "s"}, {"p", "s"})
     X == <<A1, A2, A3, A4, A5, A6, A7, A8, Finished>>
<1>1. /\ Room(r) = 2 /\ Scanned(r) \subseteq {"p"}
  BY DEF Room, RoomOf, Scanned
<1>2. /\ Valid(r, A2) /\ Valid(r, A3) /\ Valid(r, A4) /\ Valid(r, A5) /\ Valid(r, A6)
      /\ Valid(r, A7) /\ Valid(r, A8)
  BY <1>1, ValidNone, ValidOne, ValidTwo DEF Names
<1>3. MayStep(r, Pre, A1, A2)
  BY <1>1, <1>2, RulePre DEF Names
<1>4. MayStep(r, Use("p"), A2, A3)
  BY <1>1, <1>2, RuleUse DEF Names
<1>5. MayStep(r, Push("p"), A3, A4)
  BY <1>1, <1>2, RulePush DEF Names
<1>6. Assigned(r, A4, "s")
  BY <1>1, SmallStacks DEF Assigned, Names
<1>7. Registered(A4) = {"p"}
  BY SmallStacks
<1>8. MayStep(r, New("s", type, n), A4, A5)
  BY <1>1, <1>2, <1>6, <1>7, RuleNew DEF Names
<1>9. MayStep(r, Copy("s", "p"), A5, A6)
  BY <1>1, <1>2, RuleCopy DEF Names
<1>10. MayStep(r, Pop("p"), A6, A7)
  BY <1>1, <1>2, RulePop DEF Names
<1>11. MayStep(r, Post, A7, A8)
  BY <1>1, <1>2, RulePost DEF Names
<1>12. MayStep(r, Return("s"), A8, Finished)
  BY <1>1, <1>2, RuleReturn DEF Names, Callees
<1>13. /\ CloneObject(type, n)[1] = Pre /\ CloneObject(type, n)[2] = Use("p")
      /\ CloneObject(type, n)[3] = Push("p") /\ CloneObject(type, n)[4] = New("s", type, n)
      /\ CloneObject(type, n)[5] = Copy("s", "p") /\ CloneObject(type, n)[6] = Pop("p")
      /\ CloneObject(type, n)[7] = Post /\ CloneObject(type, n)[8] = Return("s")
      /\ Indexed(CloneObject(type, n), 8)
  BY DEF Indexed, CloneObject
<1>14. /\ X[1] = A1 /\ X[2] = A2 /\ X[3] = A3 /\ X[4] = A4 /\ X[5] = A5 /\ X[6] = A6 /\ X[7] = A7
      /\ X[8] = A8 /\ X[9] = Finished
      /\ X[9].gc = "done" /\ 8 \in Nat /\ 9 = 8 + 1
  BY DEF Finished, Plan
<1> HIDE DEF A1, A2, A3, A4, A5, A6, A7, A8, X
<1>15. \A j \in 1 .. 8 : MayStep(r, CloneObject(type, n)[j], X[j], X[j + 1])
  <2>1. \A j \in 1 .. 8 : j = 1 \/ j = 2 \/ j = 3 \/ j = 4 \/ j = 5 \/ j = 6 \/ j = 7 \/ j = 8
    OBVIOUS
  <2> QED
    BY <2>1, <1>3, <1>4, <1>5, <1>8, <1>9, <1>10, <1>11, <1>12, <1>13, <1>14
<1>16. Planned(r, CloneObject(type, n), A1)
  BY <1>13, <1>14, <1>15, PlanByPositions
<1> QED
  BY <1>16 DEF A1

(* The names of what Bclosure registers, and of what a function is passed, *)
(* are different, and none is a name of another variable.                  *)
LEMMA NamesApart ==
  ASSUME NEW n \in 0 .. MaxValues
  PROVE  /\ \A i \in 1 .. n : ArgNames[i] \in Passed /\ WordNames[i] \in Above
         /\ \A i, j \in 1 .. n : ArgNames[i] = ArgNames[j] => i = j
         /\ \A i, j \in 1 .. n : WordNames[i] = WordNames[j] => i = j
         /\ Passed \subseteq Names /\ Above \subseteq Names /\ Passed \cap Above = {}
         /\ \A v \in {"p", "q", "r", "s", "c"} : v \in Names /\ v \notin Passed /\ v \notin Above
<1>1. \A i \in 1 .. n : i \in 1 .. MaxValues
  BY RootsAssumption
<1>2. \A i \in 1 .. n : ArgNames[i] \in Passed /\ WordNames[i] \in Above
  BY <1>1 DEF Passed, Above
<1>3. /\ \A i, j \in 1 .. n : ArgNames[i] = ArgNames[j] => i = j
      /\ \A i, j \in 1 .. n : WordNames[i] = WordNames[j] => i = j
  BY <1>1, RootsAssumption
<1>4. \A v \in {"p", "q", "r", "s", "c"} : v \in Names /\ v \notin Passed /\ v \notin Above
  BY RootsAssumption DEF Names
<1> QED
  BY <1>2, <1>3, <1>4, RootsAssumption DEF Names

(* A sequence of n names, by positions.                                    *)
LEMMA NamesIndexed ==
  ASSUME NEW names, NEW n \in Nat, NEW s, s = [i \in 1 .. n |-> names[i]]
  PROVE  /\ Indexed(s, n) /\ Len(s) = n
         /\ \A i \in 1 .. n : s[i] = names[i]
         /\ ToSet(s) = {names[i] : i \in 1 .. n}
<1>1. Indexed(s, n)
  BY DEF Indexed
<1>2. Len(s) = n
  BY <1>1, IndexedLen
<1>3. DOMAIN s = 1 .. n /\ \A i \in 1 .. n : s[i] = names[i]
  OBVIOUS
<1>4. ToSet(s) = {names[i] : i \in 1 .. n}
  BY <1>3 DEF ToSet
<1> QED
  BY <1>1, <1>2, <1>3, <1>4

(* The arguments of a function of n values, by positions.                  *)
LEMMA FirstNames ==
  ASSUME NEW n \in 0 .. MaxValues
  PROVE  /\ Indexed(ValueNames(n), n) /\ Len(ValueNames(n)) = n
         /\ \A i \in 1 .. n : ValueNames(n)[i] = ArgNames[i]
         /\ \A i \in 1 .. n : ValueNames(n)[i] \in Passed
         /\ \A i, j \in 1 .. n : ValueNames(n)[i] = ValueNames(n)[j] => i = j
         /\ ToSet(ValueNames(n)) = {ArgNames[i] : i \in 1 .. n}
         /\ ToSet(ValueNames(n)) = {ValueNames(n)[i] : i \in 1 .. n}
         /\ ToSet(ValueNames(n)) \subseteq Passed /\ ToSet(ValueNames(n)) \subseteq Names
         /\ \A v \in {"p", "q", "r", "s", "c"} : v \in Names /\ v \notin ToSet(ValueNames(n))
<1>1. n \in Nat
  OBVIOUS
<1>2. PICK s : s = ValueNames(n)
  OBVIOUS
<1>3. s = [i \in 1 .. n |-> ArgNames[i]]
  BY <1>2 DEF ValueNames
<1>4. /\ Indexed(s, n) /\ Len(s) = n /\ \A i \in 1 .. n : s[i] = ArgNames[i]
      /\ ToSet(s) = {ArgNames[i] : i \in 1 .. n}
  BY <1>1, <1>3, NamesIndexed
<1>5. /\ \A i \in 1 .. n : s[i] \in Passed
      /\ \A i, j \in 1 .. n : s[i] = s[j] => i = j
      /\ ToSet(s) = {s[i] : i \in 1 .. n} /\ ToSet(s) \subseteq Passed
  BY <1>4, NamesApart
<1>6. ToSet(s) \subseteq Names /\ \A v \in {"p", "q", "r", "s", "c"} : v \in Names /\ v \notin ToSet(s)
  BY <1>5, NamesApart
<1> QED
  BY <1>2, <1>4, <1>5, <1>6

(* Barray.                                                                 *)
LEMMA BarrayPlanned ==
  ASSUME NEW r, NEW n \in 0 .. MaxValues, r.fn = "Barray", r.params = ToSet(ValueNames(n)), r.own
  PROVE  Planned(r, Barray(n), Plan(<< >>, "before", {}, Names))
<1> DEFINE
     A1 == Plan(<< >>, "before", {}, Names)
     A2 == Plan(<< >>, "in", {}, Names)
     A3 == Plan(<< >>, "in", {"r"}, {"r"} \cup Scanned(r))
     A4 == Plan(<< >>, "in", {"r"}, {"r"} \cup Scanned(r))
     A5 == Plan(<< >>, "after", {"r"}, {"r"} \cup Scanned(r))
     X == <<A1, A2, A3, A4, A5, Finished>>
<1>1. /\ Room(r) = 2 /\ Scanned(r) \subseteq ToSet(ValueNames(n)) /\ r.own
      /\ Scanned(r) \subseteq Names /\ ToSet(ValueNames(n)) \subseteq Names /\ "r" \notin r.params
      /\ r.own => Scanned(r) = ToSet(ValueNames(n))
  BY FirstNames DEF Room, RoomOf, Scanned
<1>2. /\ Valid(r, A2) /\ Valid(r, A3) /\ Valid(r, A4) /\ Valid(r, A5)
  BY <1>1, ValidNone, ValidOne, ValidTwo DEF Names
<1>3. MayStep(r, Pre, A1, A2)
  BY <1>1, <1>2, RulePre DEF Names
<1>4. Assigned(r, A2, "r")
  BY <1>1, SmallStacks DEF Assigned, Names
<1>5. Registered(A2) = {}
  BY SmallStacks
<1>6. MayStep(r, New("r", "array", n), A2, A3)
  BY <1>1, <1>2, <1>4, <1>5, RuleNew DEF Names
<1>7. MayStep(r, Fill("r", ValueNames(n)), A3, A4)
  BY <1>1, <1>2, RuleFill DEF Names
<1>8. MayStep(r, Post, A4, A5)
  BY <1>1, <1>2, RulePost DEF Names
<1>9. MayStep(r, Return("r"), A5, Finished)
  BY <1>1, <1>2, RuleReturn DEF Names, Callees
<1>10. /\ Barray(n)[1] = Pre /\ Barray(n)[2] = New("r", "array", n)
      /\ Barray(n)[3] = Fill("r", ValueNames(n)) /\ Barray(n)[4] = Post
      /\ Barray(n)[5] = Return("r")
      /\ Indexed(Barray(n), 5)
  BY DEF Indexed, Barray
<1>11. /\ X[1] = A1 /\ X[2] = A2 /\ X[3] = A3 /\ X[4] = A4 /\ X[5] = A5 /\ X[6] = Finished
      /\ X[6].gc = "done" /\ 5 \in Nat /\ 6 = 5 + 1
  BY DEF Finished, Plan
<1> HIDE DEF A1, A2, A3, A4, A5, X
<1>12. \A j \in 1 .. 5 : MayStep(r, Barray(n)[j], X[j], X[j + 1])
  <2>1. \A j \in 1 .. 5 : j = 1 \/ j = 2 \/ j = 3 \/ j = 4 \/ j = 5
    OBVIOUS
  <2> QED
    BY <2>1, <1>3, <1>6, <1>7, <1>8, <1>9, <1>10, <1>11
<1>13. Planned(r, Barray(n), A1)
  BY <1>10, <1>11, <1>12, PlanByPositions
<1> QED
  BY <1>13 DEF A1

(* Bsexp: its caller may be inside PRE_GC, when it does not keep its       *)
(* arguments.                                                              *)
LEMMA BsexpPlanned ==
  ASSUME NEW r, NEW n \in 0 .. MaxValues, r.fn = "Bsexp", r.params = ToSet(ValueNames(n))
  PROVE  Planned(r, Bsexp(n), Plan(<< >>, "before", {}, Names))
<1> DEFINE
     A1 == Plan(<< >>, "before", {}, Names)
     A2 == Plan(<< >>, "in", {}, Names)
     A3 == Plan(<< >>, "in", {"r"}, {"r"} \cup Scanned(r))
     A4 == Plan(<< >>, "in", {"r"}, {"r"} \cup Scanned(r))
     A5 == Plan(<< >>, "after", {"r"}, {"r"} \cup Scanned(r))
     X == <<A1, A2, A3, A4, A5, Finished>>
<1>1. /\ Room(r) = 0 /\ Scanned(r) \subseteq ToSet(ValueNames(n))
      /\ Scanned(r) \subseteq Names /\ ToSet(ValueNames(n)) \subseteq Names /\ "r" \notin r.params
      /\ r.own => Scanned(r) = ToSet(ValueNames(n))
  BY FirstNames DEF Room, RoomOf, Scanned
<1>2. /\ Valid(r, A2) /\ Valid(r, A3) /\ Valid(r, A4) /\ Valid(r, A5)
  BY <1>1, ValidNone, ValidOne, ValidTwo DEF Names
<1>3. MayStep(r, Pre, A1, A2)
  BY <1>1, <1>2, RulePre DEF Names
<1>4. Assigned(r, A2, "r")
  BY <1>1, SmallStacks DEF Assigned, Names
<1>5. Registered(A2) = {}
  BY SmallStacks
<1>6. MayStep(r, New("r", "sexp", n), A2, A3)
  BY <1>1, <1>2, <1>4, <1>5, RuleNew DEF Names
<1>7. MayStep(r, Fill("r", ValueNames(n)), A3, A4)
  BY <1>1, <1>2, RuleFill DEF Names
<1>8. MayStep(r, Post, A4, A5)
  BY <1>1, <1>2, RulePost DEF Names
<1>9. MayStep(r, Return("r"), A5, Finished)
  BY <1>1, <1>2, RuleReturn DEF Names, Callees
<1>10. /\ Bsexp(n)[1] = Pre /\ Bsexp(n)[2] = New("r", "sexp", n)
      /\ Bsexp(n)[3] = Fill("r", ValueNames(n)) /\ Bsexp(n)[4] = Post
      /\ Bsexp(n)[5] = Return("r")
      /\ Indexed(Bsexp(n), 5)
  BY DEF Indexed, Bsexp
<1>11. /\ X[1] = A1 /\ X[2] = A2 /\ X[3] = A3 /\ X[4] = A4 /\ X[5] = A5 /\ X[6] = Finished
      /\ X[6].gc = "done" /\ 5 \in Nat /\ 6 = 5 + 1
  BY DEF Finished, Plan
<1> HIDE DEF A1, A2, A3, A4, A5, X
<1>12. \A j \in 1 .. 5 : MayStep(r, Bsexp(n)[j], X[j], X[j + 1])
  <2>1. \A j \in 1 .. 5 : j = 1 \/ j = 2 \/ j = 3 \/ j = 4 \/ j = 5
    OBVIOUS
  <2> QED
    BY <2>1, <1>3, <1>6, <1>7, <1>8, <1>9, <1>10, <1>11
<1>13. Planned(r, Bsexp(n), A1)
  BY <1>10, <1>11, <1>12, PlanByPositions
<1> QED
  BY <1>13 DEF A1

(***************************************************************************)
(* Bclosure, which registers as many words of its caller as it has values  *)
(***************************************************************************)

(* The words it registers, by positions.                                   *)
LEMMA WordsNamed ==
  ASSUME NEW n \in 0 .. MaxValues
  PROVE  /\ Indexed(StackWords(n), n) /\ Len(StackWords(n)) = n
         /\ \A i \in 1 .. n : StackWords(n)[i] = WordNames[i]
         /\ ToSet(StackWords(n)) = {WordNames[i] : i \in 1 .. n}
<1>1. n \in Nat
  OBVIOUS
<1>2. PICK s : s = StackWords(n)
  OBVIOUS
<1>3. s = [i \in 1 .. n |-> WordNames[i]]
  BY <1>2 DEF StackWords
<1>4. /\ Indexed(s, n) /\ Len(s) = n /\ \A i \in 1 .. n : s[i] = WordNames[i]
      /\ ToSet(s) = {WordNames[i] : i \in 1 .. n}
  BY <1>1, <1>3, NamesIndexed
<1> QED
  BY <1>2, <1>4

(* As many arguments as values.                                            *)
LEMMA ValuesCounted ==
  ASSUME NEW n \in 0 .. MaxValues
  PROVE  Cardinality(ToSet(ValueNames(n))) = n
<1> DEFINE S == ToSet(ValueNames(n))
           f == [i \in 1 .. n |-> ArgNames[i]]
<1>1. S = {ArgNames[i] : i \in 1 .. n} /\ \A i, j \in 1 .. n : ArgNames[i] = ArgNames[j] => i = j
  BY FirstNames, NamesApart
<1> HIDE DEF S
<1>2. /\ f \in [1 .. n -> S]
      /\ \A i, j \in 1 .. n : f[i] = f[j] => i = j
      /\ \A t \in S : \E i \in 1 .. n : f[i] = t
  BY <1>1
<1> HIDE DEF f
<1>3. f \in Bijection(1 .. n, S)
  BY <1>2 DEF Bijection, Injection, Surjection, IsInjective
<1>4. ExistsBijection(1 .. n, S)
  BY <1>3 DEF ExistsBijection
<1> QED
  BY <1>4, FS_CountingElements DEF S

(* Its script, by positions.                                               *)
LEMMA ClosureScript ==
  ASSUME NEW n \in 0 .. MaxValues
  PROVE  /\ Indexed(Bclosure(n), 2 * n + 7)
         /\ Bclosure(n)[1] = Pre
         /\ \A i \in 1 .. n : Bclosure(n)[1 + i] = Push(WordNames[i])
         /\ Bclosure(n)[n + 2] = New("r", "closure", n)
         /\ Bclosure(n)[n + 3] = Push("r")
         /\ Bclosure(n)[n + 4] = Fill("r", ValueNames(n))
         /\ Bclosure(n)[n + 5] = Post
         /\ Bclosure(n)[n + 6] = Pop("r")
         /\ \A i \in 1 .. n : Bclosure(n)[n + 6 + i] = Pop(WordNames[n + 1 - i])
         /\ Bclosure(n)[2 * n + 7] = Return("r")
<1>1. PICK V : V = StackWords(n)
  OBVIOUS
<1>2. PICK A : A = <<Pre>>
  OBVIOUS
<1>3. PICK P : P = Pushes(V)
  OBVIOUS
<1>4. PICK M : M = <<New("r", "closure", n), Push("r"), Fill("r", ValueNames(n)), Post, Pop("r")>>
  OBVIOUS
<1>5. PICK Q : Q = Pops(V)
  OBVIOUS
<1>6. PICK Z : Z = <<Return("r")>>
  OBVIOUS
<1>7. PICK C : C = Bclosure(n)
  OBVIOUS
<1>8. C = Chained(Chained(Chained(Chained(A, P), M), Q), Z)
  BY <1>1, <1>2, <1>3, <1>4, <1>5, <1>6, <1>7 DEF Bclosure, Chained
<1>9. /\ Indexed(A, 1) /\ A[1] = Pre /\ Indexed(Z, 1) /\ Z[1] = Return("r")
      /\ Indexed(M, 5) /\ M[1] = New("r", "closure", n) /\ M[2] = Push("r")
      /\ M[3] = Fill("r", ValueNames(n)) /\ M[4] = Post /\ M[5] = Pop("r")
  BY <1>2, <1>4, <1>6 DEF Indexed
<1>10. Indexed(V, n) /\ DOMAIN V = 1 .. n /\ Len(V) = n /\ \A i \in 1 .. n : V[i] = WordNames[i]
  <2>1. Indexed(V, n) /\ Len(V) = n /\ \A i \in 1 .. n : V[i] = WordNames[i]
    BY <1>1, WordsNamed
  <2>2. DOMAIN V = 1 .. n
    BY ONLY <2>1 DEF Indexed
  <2> QED
    BY <2>1, <2>2
<1>11. Indexed(P, n) /\ \A i \in 1 .. n : P[i] = Push(WordNames[i])
  <2>1. P = [i \in 1 .. n |-> Push(V[i])]
    BY ONLY <1>3, <1>10 DEF Pushes
  <2> QED
    BY ONLY <1>10, <2>1 DEF Indexed
<1>12. Indexed(Q, n) /\ \A i \in 1 .. n : Q[i] = Pop(WordNames[n + 1 - i])
  <2>1. PICK R : R = Reverse(V)
    OBVIOUS
  <2>2. R = [i \in 1 .. n |-> V[(n - i) + 1]]
    BY ONLY <1>10, <2>1 DEF Reverse
  <2>3. Q = [i \in 1 .. n |-> Pop(R[i])]
    BY ONLY <1>5, <1>10, <2>1 DEF Pops
  <2>4. ASSUME NEW i \in 1 .. n
        PROVE  R[i] = WordNames[n + 1 - i]
    <3>1. PICK k : k = (n - i) + 1
      OBVIOUS
    <3>2. k \in 1 .. n /\ k = n + 1 - i
      BY <3>1
    <3>3. R[i] = V[k]
      BY ONLY <2>2, <3>1, i \in 1 .. n
    <3> QED
      BY <1>10, <3>2, <3>3
  <2>5. Indexed(Q, n)
    BY ONLY <2>3 DEF Indexed
  <2>6. ASSUME NEW i \in 1 .. n
        PROVE  Q[i] = Pop(WordNames[n + 1 - i])
    <3>1. Q[i] = Pop(R[i])
      BY ONLY <2>3, i \in 1 .. n
    <3> QED
      BY <2>4, <3>1
  <2> QED
    BY <2>5, <2>6
<1>13. PICK p \in Nat, q \in Nat, t \in Nat, l \in Nat :
         p = 1 + n /\ q = p + 5 /\ t = q + n /\ l = t + 1
  <2>1. 1 + n \in Nat /\ 1 + n + 5 \in Nat /\ 1 + n + 5 + n \in Nat /\ 1 + n + 5 + n + 1 \in Nat
    OBVIOUS
  <2> QED
    BY <2>1
<1>14. 1 \in Nat /\ 5 \in Nat /\ n \in Nat
  OBVIOUS
<1>15. PICK D : D = Chained(A, P)
  OBVIOUS
<1>16. /\ Indexed(D, p) /\ (\A k \in 1 .. 1 : D[k] = A[k])
       /\ \A k \in 1 .. n : D[1 + k] = P[k]
  <2>1. /\ Indexed(Chained(A, P), p) /\ (\A k \in 1 .. 1 : Chained(A, P)[k] = A[k])
         /\ \A k \in 1 .. n : Chained(A, P)[1 + k] = P[k]
    <3>1. Indexed(A, 1) /\ Indexed(P, n) /\ 1 \in Nat /\ n \in Nat /\ p = 1 + n
      BY ONLY <1>9, <1>11, <1>13, <1>14
    <3> QED
      BY ONLY <3>1, ChainedAt
  <2> QED
    BY ONLY <2>1, <1>15
<1>17. PICK E : E = Chained(D, M)
  OBVIOUS
<1>18. /\ Indexed(E, q) /\ (\A k \in 1 .. p : E[k] = D[k])
       /\ \A k \in 1 .. 5 : E[p + k] = M[k]
  <2>1. /\ Indexed(Chained(D, M), q) /\ (\A k \in 1 .. p : Chained(D, M)[k] = D[k])
         /\ \A k \in 1 .. 5 : Chained(D, M)[p + k] = M[k]
    <3>1. Indexed(D, p) /\ Indexed(M, 5) /\ p \in Nat /\ 5 \in Nat /\ q = p + 5
      BY ONLY <1>9, <1>13, <1>14, <1>16, p \in Nat
    <3> QED
      BY ONLY <3>1, ChainedAt
  <2> QED
    BY ONLY <2>1, <1>17
<1>19. PICK F : F = Chained(E, Q)
  OBVIOUS
<1>20. /\ Indexed(F, t) /\ (\A k \in 1 .. q : F[k] = E[k])
       /\ \A k \in 1 .. n : F[q + k] = Q[k]
  <2>1. /\ Indexed(Chained(E, Q), t) /\ (\A k \in 1 .. q : Chained(E, Q)[k] = E[k])
         /\ \A k \in 1 .. n : Chained(E, Q)[q + k] = Q[k]
    <3>1. Indexed(E, q) /\ Indexed(Q, n) /\ q \in Nat /\ n \in Nat /\ t = q + n
      BY ONLY <1>12, <1>13, <1>14, <1>18, q \in Nat
    <3> QED
      BY ONLY <3>1, ChainedAt
  <2> QED
    BY ONLY <2>1, <1>19
<1>21. C = Chained(F, Z)
  BY ONLY <1>8, <1>15, <1>17, <1>19
<1>22. /\ Indexed(C, l) /\ (\A k \in 1 .. t : C[k] = F[k])
       /\ \A k \in 1 .. 1 : C[t + k] = Z[k]
  <2>1. /\ Indexed(Chained(F, Z), l) /\ (\A k \in 1 .. t : Chained(F, Z)[k] = F[k])
         /\ \A k \in 1 .. 1 : Chained(F, Z)[t + k] = Z[k]
    <3>1. Indexed(F, t) /\ Indexed(Z, 1) /\ t \in Nat /\ 1 \in Nat /\ l = t + 1
      BY ONLY <1>9, <1>13, <1>14, <1>20, t \in Nat
    <3> QED
      BY ONLY <3>1, ChainedAt
  <2> QED
    BY ONLY <2>1, <1>21
<1>23. /\ l = 2 * n + 7 /\ t + 1 = l
       /\ p + 1 = n + 2 /\ p + 2 = n + 3 /\ p + 3 = n + 4 /\ p + 4 = n + 5 /\ p + 5 = n + 6
       /\ 1 \in 1 .. 1 /\ 1 \in 1 .. p /\ 1 \in 1 .. q /\ 1 \in 1 .. t
       /\ \A k \in 1 .. n : 1 + k \in 1 .. p /\ 1 + k \in 1 .. q /\ 1 + k \in 1 .. t
       /\ \A k \in 1 .. 5 : p + k \in 1 .. q /\ p + k \in 1 .. t
       /\ \A k \in 1 .. n : q + k \in 1 .. t /\ q + k = n + 6 + k
       /\ 1 \in 1 .. 5 /\ 2 \in 1 .. 5 /\ 3 \in 1 .. 5 /\ 4 \in 1 .. 5 /\ 5 \in 1 .. 5
  BY <1>13
<1>24. C[1] = Pre /\ C[l] = Return("r") /\ \A i \in 1 .. n : C[1 + i] = Push(WordNames[i])
  BY ONLY <1>9, <1>11, <1>16, <1>18, <1>20, <1>22, <1>23
<1>25. \A k \in 1 .. 5 : C[p + k] = M[k]
  BY ONLY <1>18, <1>20, <1>22, <1>23
<1>26. \A k \in 1 .. n : C[q + k] = Pop(WordNames[n + 1 - k])
  BY ONLY <1>12, <1>20, <1>22, <1>23
<1>27. /\ C[n + 2] = M[1] /\ C[n + 3] = M[2] /\ C[n + 4] = M[3] /\ C[n + 5] = M[4]
       /\ C[n + 6] = M[5]
  BY ONLY <1>23, <1>25
<1>28. \A k \in 1 .. n : C[n + 6 + k] = Pop(WordNames[n + 1 - k])
  BY ONLY <1>23, <1>26
<1> QED
  BY ONLY <1>1, <1>7, <1>9, <1>22, <1>23, <1>24, <1>27, <1>28

(* A plan with any number of roots: all different, all good, no more than  *)
(* the function has room for.                                              *)
LEMMA ValidStack ==
  ASSUME NEW r, NEW gc, gc \in {"in", "after"}, NEW s, NEW l \in Nat, Len(s) = l, l <= Room(r),
         NEW R, R \subseteq Names, NEW G, G \subseteq Names, Scanned(r) \subseteq G,
         \A i \in 1 .. l : s[i] \in G,
         \A i, j \in 1 .. l : s[i] = s[j] => i = j
  PROVE  Valid(r, Plan(s, gc, R, G))
<1>1. PICK A : A = Plan(s, gc, R, G)
  OBVIOUS
<1>2. A.stack = s /\ A.gc = gc /\ A.refs = R /\ A.good = G
  BY <1>1, PlanParts
<1>3. Registered(A) \subseteq G
  BY <1>2 DEF Registered
<1>4. Kept(r, A) \subseteq G
  BY <1>2, <1>3 DEF Kept
<1>5. /\ \A i \in 1 .. l : A.stack[i] \in Names
      /\ \A i, j \in 1 .. l : A.stack[i] = A.stack[j] => i = j
  BY <1>2
<1>6. Valid(r, A)
  BY <1>2, <1>4, <1>5 DEF Valid
<1> QED
  BY <1>1, <1>6

(* One variable more, or less, in the pool.                                *)
LEMMA RuleGrow ==
  ASSUME NEW r, NEW s, NEW t, NEW v, Longer(s, t, v), NEW gc, NEW R, NEW G, v \in G,
         NEW l \in Nat, Len(s) = l, \A i \in 1 .. l : s[i] # v,
         Valid(r, Plan(t, gc, R, G))
  PROVE  MayStep(r, Push(v), Plan(s, gc, R, G), Plan(t, gc, R, G))
<1>1. PICK A : A = Plan(s, gc, R, G)
  OBVIOUS
<1>2. PICK B : B = Plan(t, gc, R, G)
  OBVIOUS
<1>3. /\ A.stack = s /\ A.gc = gc /\ A.refs = R /\ A.good = G
      /\ B.stack = t /\ B.gc = gc /\ B.refs = R /\ B.good = G
  BY <1>1, <1>2, PlanParts
<1>4. v \notin Registered(A)
  BY <1>3 DEF Registered
<1>5. PICK i : i = Push(v)
  OBVIOUS
<1>6. i.do = "push" /\ i.v = v
  BY <1>5 DEF Push
<1>7. PushRule(i, A, B)
  BY <1>3, <1>4, <1>6 DEF PushRule, Forgets
<1> QED
  BY <1>1, <1>2, <1>5, <1>7 DEF MayStep

(* The last root goes, whatever the others are.                            *)
LEMMA RuleShrink ==
  ASSUME NEW r, NEW s, NEW t, NEW v, Longer(s, t, v), NEW gc, NEW R, NEW G, Len(s) \in Nat,
         Valid(r, Plan(s, gc, R, G))
  PROVE  MayStep(r, Pop(v), Plan(t, gc, R, G), Plan(s, gc, R, G))
<1>1. PICK A : A = Plan(t, gc, R, G)
  OBVIOUS
<1>2. PICK B : B = Plan(s, gc, R, G)
  OBVIOUS
<1>3. /\ A.stack = t /\ A.gc = gc /\ A.refs = R /\ A.good = G
      /\ B.stack = s /\ B.gc = gc /\ B.refs = R /\ B.good = G
  BY <1>1, <1>2, PlanParts
<1>4. PICK i : i = Pop(v)
  OBVIOUS
<1>5. i.do = "pop" /\ i.v = v
  BY <1>4 DEF Pop
<1>6. PopRule(i, A, B)
  BY <1>3, <1>5 DEF PopRule, Forgets
<1> QED
  BY <1>1, <1>2, <1>4, <1>6 DEF MayStep

(* What Bclosure has in the pool when it comes to step j.                  *)
WithOwn(n) == [i \in 1 .. n + 1 |-> IF i <= n THEN WordNames[i] ELSE "r"]

(* The roots of Bclosure one after the other: the words of its caller, then *)
(* the closure itself.                                                     *)
LEMMA ClosureStacks ==
  ASSUME NEW n \in 0 .. MaxValues
  PROVE  /\ \A k \in 1 .. n : Longer(StackWords(k - 1), StackWords(k), WordNames[k])
         /\ \A k \in 0 .. n : Len(StackWords(k)) = k /\ \A i \in 1 .. k : StackWords(k)[i] = WordNames[i]
         /\ Longer(StackWords(n), WithOwn(n), "r") /\ Len(WithOwn(n)) = n + 1
         /\ (\A i \in 1 .. n : WithOwn(n)[i] = WordNames[i]) /\ WithOwn(n)[n + 1] = "r"
<1>1. \A k \in 0 .. n : Len(StackWords(k)) = k /\ \A i \in 1 .. k : StackWords(k)[i] = WordNames[i]
  <2>1. \A k \in 0 .. n : k \in 0 .. MaxValues
    BY RootsAssumption
  <2> QED
    BY <2>1, WordsNamed
<1>2. ASSUME NEW k \in 1 .. n
      PROVE  Longer(StackWords(k - 1), StackWords(k), WordNames[k])
  <2>1. PICK l \in Nat : l = k - 1
    OBVIOUS
  <2>2. l \in 0 .. n /\ k \in 0 .. n /\ k = l + 1 /\ k \in 1 .. k /\ \A i \in 1 .. l : i \in 1 .. k
    BY <2>1
  <2> QED
    BY <1>1, <2>1, <2>2 DEF Longer
<1>3. PICK W : W = WithOwn(n)
  OBVIOUS
<1>4. PICK m \in Nat : m = n + 1
  OBVIOUS
<1>5. W = [i \in 1 .. m |-> IF i <= n THEN WordNames[i] ELSE "r"]
  BY <1>3, <1>4 DEF WithOwn
<1>6. Indexed(W, m)
  BY ONLY <1>5 DEF Indexed
<1>7. Len(W) = m
  BY <1>6, IndexedLen
<1>8. m \in 1 .. m /\ ~(m <= n) /\ \A i \in 1 .. n : i \in 1 .. m /\ i <= n
  BY <1>4
<1>9. W[m] = "r" /\ \A i \in 1 .. n : W[i] = WordNames[i]
  BY ONLY <1>5, <1>8
<1>10. n \in 0 .. n
  OBVIOUS
<1>11. Longer(StackWords(n), W, "r")
  BY <1>1, <1>4, <1>7, <1>9, <1>10 DEF Longer
<1> QED
  BY <1>1, <1>2, <1>3, <1>4, <1>7, <1>9, <1>11

(* No words.                                                               *)
LEMMA NoWords ==
  StackWords(0) = << >>
<1>1. Indexed(StackWords(0), 0)
  BY RootsAssumption, WordsNamed
<1>2. \A i \in 1 .. 0 : FALSE
  OBVIOUS
<1> QED
  BY <1>2 DEF StackWords

(* Bclosure registers words of its caller, then the new closure, and       *)
(* unregisters them in the opposite order.                                 *)
LEMMA BclosurePlanned ==
  ASSUME NEW r, NEW n \in 0 .. MaxValues, r.fn = "Bclosure", r.params = ToSet(ValueNames(n)), r.own
  PROVE  Planned(r, Bclosure(n), Plan(<< >>, "before", {}, Names))
<1>1. PICK C : C = Bclosure(n)
  OBVIOUS
<1>2. PICK L \in Nat : L = 2 * n + 7
  OBVIOUS
<1>3. /\ Indexed(C, L) /\ C[1] = Pre /\ (\A k \in 1 .. n : C[1 + k] = Push(WordNames[k]))
      /\ C[n + 2] = New("r", "closure", n) /\ C[n + 3] = Push("r")
      /\ C[n + 4] = Fill("r", ValueNames(n)) /\ C[n + 5] = Post /\ C[n + 6] = Pop("r")
      /\ (\A k \in 1 .. n : C[n + 6 + k] = Pop(WordNames[n + 1 - k]))
      /\ C[L] = Return("r")
  BY <1>1, <1>2, ClosureScript
<1>4. PICK W : W = WithOwn(n)
  OBVIOUS
<1>5. PICK V, U : V = ToSet(ValueNames(n)) /\ U = ToSet(StackWords(n))
  OBVIOUS
<1>6. PICK G : G = V \cup U \cup {"r"}
  OBVIOUS
<1>7. /\ U = {WordNames[i] : i \in 1 .. n} /\ U \subseteq Above
      /\ \A i, j \in 1 .. n : WordNames[i] = WordNames[j] => i = j
  BY <1>5, WordsNamed, NamesApart
<1>8. /\ V \subseteq Names /\ G \subseteq Names /\ "r" \in Names /\ "r" \in G
      /\ "r" \notin V /\ "r" \notin U
      /\ \A i \in 1 .. n : WordNames[i] \in G /\ WordNames[i] \in Names /\ WordNames[i] # "r"
  BY <1>5, <1>6, <1>7, FirstNames, NamesApart
<1>9. Room(r) = n + 1 /\ Scanned(r) = V
  BY <1>5, ValuesCounted DEF Room, Scanned
<1>10. PICK X : X = [j \in Nat |->
         IF j = 1 THEN Plan(<< >>, "before", {}, Names)
         ELSE IF j <= n + 2 THEN Plan(StackWords(j - 2), "in", {}, Names)
         ELSE IF j = n + 3 THEN Plan(StackWords(n), "in", {"r"}, G)
         ELSE IF j <= n + 5 THEN Plan(W, "in", {"r"}, G)
         ELSE IF j = n + 6 THEN Plan(W, "after", {"r"}, G)
         ELSE IF j <= L THEN Plan(StackWords(2 * n + 7 - j), "after", {"r"}, G)
         ELSE Finished]
  OBVIOUS
<1>11. /\ X[1] = Plan(<< >>, "before", {}, Names)
       /\ X[n + 3] = Plan(StackWords(n), "in", {"r"}, G)
       /\ X[n + 4] = Plan(W, "in", {"r"}, G) /\ X[n + 5] = Plan(W, "in", {"r"}, G)
       /\ X[n + 6] = Plan(W, "after", {"r"}, G)
       /\ X[L + 1] = Finished
  <2>1. /\ 1 \in Nat /\ n + 3 \in Nat /\ n + 4 \in Nat /\ n + 5 \in Nat /\ n + 6 \in Nat /\ L + 1 \in Nat
        /\ n + 3 # 1 /\ n + 4 # 1 /\ n + 5 # 1 /\ n + 6 # 1 /\ L + 1 # 1
        /\ ~(n + 3 <= n + 2) /\ ~(n + 4 <= n + 2) /\ ~(n + 5 <= n + 2) /\ ~(n + 6 <= n + 2) /\ ~(L + 1 <= n + 2)
        /\ n + 4 # n + 3 /\ n + 5 # n + 3 /\ n + 6 # n + 3 /\ L + 1 # n + 3
        /\ n + 4 <= n + 5 /\ n + 5 <= n + 5 /\ ~(n + 6 <= n + 5) /\ ~(L + 1 <= n + 5) /\ L + 1 # n + 6
        /\ ~(L + 1 <= L)
    BY <1>2
  <2> QED
    BY ONLY <1>10, <2>1
<1>12. ASSUME NEW k \in 0 .. n
       PROVE  /\ X[k + 2] = Plan(StackWords(k), "in", {}, Names)
              /\ X[n + 7 + k] = Plan(StackWords(n - k), "after", {"r"}, G)
  <2>1. PICK j \in Nat : j = k + 2
    OBVIOUS
  <2>2. j # 1 /\ j <= n + 2 /\ j - 2 = k
    BY <2>1
  <2>3. X[j] = Plan(StackWords(j - 2), "in", {}, Names)
    BY ONLY <1>10, <2>2, j \in Nat
  <2>4. PICK i \in Nat : i = n + 7 + k
    OBVIOUS
  <2>5. i # 1 /\ ~(i <= n + 2) /\ i # n + 3 /\ ~(i <= n + 5) /\ i # n + 6 /\ i <= L
    BY <1>2, <2>4
  <2>6. 2 * n + 7 - i = n - k
    BY <2>4
  <2>7. X[i] = Plan(StackWords(2 * n + 7 - i), "after", {"r"}, G)
    BY ONLY <1>10, <2>5, i \in Nat
  <2> QED
    BY <2>1, <2>2, <2>3, <2>4, <2>6, <2>7
<1>13. /\ (\A k \in 1 .. n : Longer(StackWords(k - 1), StackWords(k), WordNames[k]))
       /\ (\A k \in 0 .. n : Len(StackWords(k)) = k /\ \A i \in 1 .. k : StackWords(k)[i] = WordNames[i])
       /\ Longer(StackWords(n), W, "r") /\ Len(W) = n + 1
       /\ \A i \in 1 .. n : W[i] = WordNames[i]
       /\ W[n + 1] = "r"
  BY <1>4, ClosureStacks
<1>14. ASSUME NEW k \in 0 .. n, NEW gc, gc \in {"in", "after"}, NEW R, R \subseteq Names,
              NEW H, H \subseteq Names, G \subseteq H
       PROVE  Valid(r, Plan(StackWords(k), gc, R, H))
  <2>1. k \in Nat /\ k <= Room(r) /\ \A i \in 1 .. k : i \in 1 .. n
    BY <1>9
  <2>2. Len(StackWords(k)) = k /\ \A i \in 1 .. k : StackWords(k)[i] = WordNames[i]
    BY <1>13
  <2>3. \A i \in 1 .. k : StackWords(k)[i] \in H
    BY <1>8, <1>14, <2>1, <2>2
  <2>4. \A i, j \in 1 .. k : StackWords(k)[i] = StackWords(k)[j] => i = j
    BY <1>7, <2>1, <2>2
  <2>5. Scanned(r) \subseteq H
    BY <1>6, <1>9, <1>14
  <2> QED
    BY <1>14, <2>1, <2>2, <2>3, <2>4, <2>5, ValidStack
<1>15. ASSUME NEW gc, gc \in {"in", "after"}
       PROVE  Valid(r, Plan(W, gc, {"r"}, G))
  <2>1. PICK l \in Nat : l = n + 1
    OBVIOUS
  <2>2. Len(W) = l /\ l <= Room(r) /\ \A i \in 1 .. l : i \in 1 .. n \/ i = l
    BY <1>9, <1>13, <2>1
  <2>3. W[l] = "r" /\ \A i \in 1 .. n : W[i] = WordNames[i]
    BY <1>13, <2>1
  <2>4. \A i \in 1 .. l : W[i] \in G
    BY <1>8, <2>2, <2>3
  <2>5. \A i, j \in 1 .. l : W[i] = W[j] => i = j
    BY <1>7, <1>8, <2>2, <2>3
  <2>6. Scanned(r) \subseteq G /\ {"r"} \subseteq Names
    BY <1>6, <1>8, <1>9
  <2> QED
    BY <1>8, <1>15, <2>2, <2>4, <2>5, <2>6, ValidStack
<1>16. MayStep(r, C[1], X[1], X[2])
  <2>1. X[2] = Plan(StackWords(0), "in", {}, Names) /\ 0 \in 0 .. n
    BY <1>12
  <2>2. Valid(r, Plan(StackWords(0), "in", {}, Names))
    BY <1>8, <1>14, <2>1
  <2>3. StackWords(0) = << >>
    BY NoWords
  <2> QED
    BY <1>3, <1>11, <2>1, <2>2, <2>3, RulePre
<1>17. ASSUME NEW k \in 1 .. n
       PROVE  MayStep(r, C[1 + k], X[1 + k], X[2 + k])
  <2>1. PICK l \in Nat : l = k - 1
    OBVIOUS
  <2>2. l \in 0 .. n /\ k \in 0 .. n /\ l + 2 = 1 + k /\ k + 2 = 2 + k
    BY <2>1
  <2>3. /\ X[1 + k] = Plan(StackWords(l), "in", {}, Names)
        /\ X[2 + k] = Plan(StackWords(k), "in", {}, Names)
    BY <1>12, <2>2
  <2>4. Longer(StackWords(l), StackWords(k), WordNames[k]) /\ Len(StackWords(l)) = l
    BY <1>13, <2>1, <2>2
  <2>5. \A i \in 1 .. l : StackWords(l)[i] # WordNames[k]
    <3>1. \A i \in 1 .. l : i \in 1 .. n /\ i # k
      BY <2>1
    <3> QED
      BY <1>7, <1>13, <2>2, <3>1
  <2>6. Valid(r, Plan(StackWords(k), "in", {}, Names))
    BY <1>8, <1>14, <2>2
  <2>7. WordNames[k] \in Names
    BY <1>8
  <2> QED
    BY <1>3, <2>3, <2>4, <2>5, <2>6, <2>7, RuleGrow
<1>18. MayStep(r, C[n + 2], X[n + 2], X[n + 3])
  <2>1. X[n + 2] = Plan(StackWords(n), "in", {}, Names) /\ n \in 0 .. n
    BY <1>12
  <2>2. Valid(r, Plan(StackWords(n), "in", {"r"}, G))
    BY <1>8, <1>14, <2>1
  <2>3. Registered(Plan(StackWords(n), "in", {}, Names)) = U
    <3>1. PICK A : A = Plan(StackWords(n), "in", {}, Names)
      OBVIOUS
    <3>2. A.stack = StackWords(n)
      BY <3>1, PlanParts
    <3>3. Len(A.stack) = n /\ \A i \in 1 .. n : A.stack[i] = WordNames[i]
      BY <1>13, <2>1, <3>2
    <3>4. Registered(A) = {WordNames[i] : i \in 1 .. n}
      BY ONLY <3>3 DEF Registered
    <3> QED
      BY <1>7, <3>1, <3>4
  <2>4. Assigned(r, Plan(StackWords(n), "in", {}, Names), "r")
    BY <1>5, <1>8, <2>3 DEF Assigned
  <2>5. G \subseteq Registered(Plan(StackWords(n), "in", {}, Names)) \cup Scanned(r) \cup {"r", "c"}
    BY <1>6, <1>9, <2>3
  <2> QED
    BY <1>3, <1>11, <2>1, <2>2, <2>4, <2>5, RuleNew
<1>19. MayStep(r, C[n + 3], X[n + 3], X[n + 4])
  <2>1. n \in Nat /\ n \in 0 .. n
    OBVIOUS
  <2>2. Len(StackWords(n)) = n /\ \A i \in 1 .. n : StackWords(n)[i] # "r"
    BY <1>8, <1>13, <2>1
  <2>3. Valid(r, Plan(W, "in", {"r"}, G))
    BY <1>15
  <2> QED
    BY <1>3, <1>8, <1>11, <1>13, <2>1, <2>2, <2>3, RuleGrow
<1>20. MayStep(r, C[n + 4], X[n + 4], X[n + 5])
  <2>1. Valid(r, Plan(W, "in", {"r"}, G))
    BY <1>15
  <2>2. ToSet(ValueNames(n)) \subseteq Names /\ {"r"} \cup ToSet(ValueNames(n)) \subseteq G
    BY <1>5, <1>6, <1>8
  <2>3. PICK R : R = {"r"}
    OBVIOUS
  <2>4. PICK from : from = ValueNames(n)
    OBVIOUS
  <2>5. "r" \in R /\ R \subseteq R /\ G \subseteq G /\ ToSet(from) \subseteq Names
    BY <2>2, <2>3, <2>4
  <2>6. {"r"} \cup ToSet(from) \subseteq G
    BY <2>2, <2>4
  <2>7. MayStep(r, Fill("r", from), Plan(W, "in", R, G), Plan(W, "in", R, G))
    BY ONLY <2>1, <2>3, <2>5, <2>6, RuleFill
  <2> QED
    BY <1>3, <1>11, <2>3, <2>4, <2>7
<1>21. MayStep(r, C[n + 5], X[n + 5], X[n + 6])
  <2>1. Valid(r, Plan(W, "after", {"r"}, G)) /\ {"r"} \subseteq {"r"} /\ G \subseteq G
    BY <1>15
  <2> QED
    BY <1>3, <1>11, <2>1, RulePost
<1>22. MayStep(r, C[n + 6], X[n + 6], X[n + 7])
  <2>1. X[n + 7 + 0] = Plan(StackWords(n - 0), "after", {"r"}, G) /\ n + 7 + 0 = n + 7 /\ n - 0 = n
    BY <1>12
  <2>2. Len(StackWords(n)) \in Nat
    BY <1>13
  <2>3. Valid(r, Plan(StackWords(n), "after", {"r"}, G))
    BY <1>8, <1>14
  <2>4. X[n + 7] = Plan(StackWords(n), "after", {"r"}, G)
    BY <2>1
  <2> QED
    BY <1>3, <1>11, <1>13, <2>2, <2>3, <2>4, RuleShrink
<1>23. ASSUME NEW k \in 1 .. n
       PROVE  MayStep(r, C[n + 6 + k], X[n + 6 + k], X[n + 7 + k])
  <2>1. PICK l \in Nat : l = k - 1
    OBVIOUS
  <2>2. PICK a \in Nat, b \in Nat : a = n - l /\ b = n - k
    BY <2>1
  <2>3. /\ l \in 0 .. n /\ k \in 0 .. n /\ n + 7 + l = n + 6 + k
        /\ a = n + 1 - k /\ a \in 1 .. n /\ b = a - 1 /\ b \in 0 .. n
    BY <2>1, <2>2
  <2>4. /\ X[n + 6 + k] = Plan(StackWords(a), "after", {"r"}, G)
        /\ X[n + 7 + k] = Plan(StackWords(b), "after", {"r"}, G)
    BY <1>12, <2>2, <2>3
  <2>5. Longer(StackWords(b), StackWords(a), WordNames[a]) /\ Len(StackWords(b)) \in Nat
    BY <1>13, <2>3
  <2>6. Valid(r, Plan(StackWords(b), "after", {"r"}, G))
    BY <1>8, <1>14, <2>3
  <2>7. C[n + 6 + k] = Pop(WordNames[a])
    BY <1>3, <2>3
  <2> QED
    BY <2>4, <2>5, <2>6, <2>7, RuleShrink
<1>24. MayStep(r, C[L], X[L], X[L + 1])
  <2>1. X[n + 7 + n] = Plan(StackWords(n - n), "after", {"r"}, G) /\ n + 7 + n = L /\ n - n = 0
    BY <1>2, <1>12
  <2>2. StackWords(0) = << >>
    BY NoWords
  <2>3. X[L] = Plan(<< >>, "after", {"r"}, G)
    BY <2>1, <2>2
  <2>4. r.fn \in Callees => "r" \in {"r"}
    OBVIOUS
  <2> QED
    BY <1>3, <1>8, <1>11, <2>3, <2>4, RuleReturn
<1>25. ASSUME NEW j \in 1 .. L
       PROVE  MayStep(r, C[j], X[j], X[j + 1])
  <2>1. CASE j = 1
    <3>1. j + 1 = 2
      BY <2>1
    <3> QED
      BY ONLY <1>16, <2>1, <3>1
  <2>2. CASE j \in 2 .. n + 1
    <3>1. PICK k \in 1 .. n : j = 1 + k /\ j + 1 = 2 + k
      <4>1. j - 1 \in 1 .. n /\ j = 1 + (j - 1) /\ j + 1 = 2 + (j - 1)
        BY <2>2
      <4> QED
        BY <4>1
    <3> QED
      BY ONLY <1>17, <3>1
  <2>3. CASE j = n + 2
    <3>1. j + 1 = n + 3
      BY <2>3
    <3> QED
      BY ONLY <1>18, <2>3, <3>1
  <2>4. CASE j = n + 3
    <3>1. j + 1 = n + 4
      BY <2>4
    <3> QED
      BY ONLY <1>19, <2>4, <3>1
  <2>5. CASE j = n + 4
    <3>1. j + 1 = n + 5
      BY <2>5
    <3> QED
      BY ONLY <1>20, <2>5, <3>1
  <2>6. CASE j = n + 5
    <3>1. j + 1 = n + 6
      BY <2>6
    <3> QED
      BY ONLY <1>21, <2>6, <3>1
  <2>7. CASE j = n + 6
    <3>1. j + 1 = n + 7
      BY <2>7
    <3> QED
      BY ONLY <1>22, <2>7, <3>1
  <2>8. CASE j \in n + 7 .. 2 * n + 6
    <3>1. PICK k \in 1 .. n : j = n + 6 + k /\ j + 1 = n + 7 + k
      <4>1. j - (n + 6) \in 1 .. n /\ j = n + 6 + (j - (n + 6)) /\ j + 1 = n + 7 + (j - (n + 6))
        BY <2>8
      <4> QED
        BY <4>1
    <3> QED
      BY ONLY <1>23, <3>1
  <2>9. CASE j = L
    BY ONLY <1>24, <2>9
  <2> QED
    BY <1>2, <2>1, <2>2, <2>3, <2>4, <2>5, <2>6, <2>7, <2>8, <2>9
<1>26. PICK m : m = L + 1
  OBVIOUS
<1>27. X[m].gc = "done"
  BY <1>11, <1>26, PlanParts DEF Finished
<1>28. Planned(r, C, X[1])
  BY ONLY <1>3, <1>25, <1>26, <1>27, L \in Nat, PlanByPositions
<1> QED
  BY ONLY <1>1, <1>11, <1>28

(***************************************************************************)
(* set_args                                                                *)
(***************************************************************************)

(* Step j of the loop: of three steps for each element.                    *)
ArgStep(j, pFirst) ==
  LET k == (j + 2) \div 3 IN
  IF pFirst THEN <<Take("q", "p"), Call("Bstring", 0, <<"c">>, "s"), Store("q", k, "s")>>[((j + 2) % 3) + 1]
            ELSE <<Call("Bstring", 0, <<"c">>, "s"), Take("q", "p"), Store("q", k, "s")>>[((j + 2) % 3) + 1]

ArgsScripted(C, l, n, pFirst) ==
  /\ Indexed(C, l + 6)
  /\ C[1] = Pre /\ C[2] = Call("LmakeArray", n, << >>, "p") /\ C[3] = Push("p")
  /\ (\A j \in 1 .. l : C[3 + j] = ArgStep(j, pFirst))
  /\ C[l + 4] = Pop("p") /\ C[l + 5] = Post /\ C[l + 6] = SetGlobal("p")

(* The script of set_args, by positions: three steps for each argument.    *)
LEMMA ArgsScript ==
  ASSUME NEW n \in 0 .. MaxValues, NEW pFirst \in BOOLEAN
  PROVE  \E l \in Nat : l = 3 * n /\ ArgsScripted(SetArgs(n, pFirst), l, n, pFirst)
<1>a. PICK C : C = SetArgs(n, pFirst)
  OBVIOUS
<1>b. PICK l \in Nat : l = 3 * n
  OBVIOUS
<1>1. PICK M : M = [j \in 1 .. l |-> ArgStep(j, pFirst)]
  OBVIOUS
<1>2. Indexed(M, l) /\ \A j \in 1 .. l : M[j] = ArgStep(j, pFirst)
  BY ONLY <1>1 DEF Indexed
<1>3. PICK call : call = Call("LmakeArray", n, << >>, "p")
  OBVIOUS
<1>4. PICK head : head = <<Pre, call, Push("p")>>
  OBVIOUS
<1>5. PICK tail : tail = <<Pop("p"), Post, SetGlobal("p")>>
  OBVIOUS
<1>6. C = (head \o M) \o tail
  <2>1. ASSUME NEW j \in 1 .. l
        PROVE  (IF pFirst
                  THEN <<Take("q", "p"), Call("Bstring", 0, <<"c">>, "s"),
                         Store("q", (j + 2) \div 3, "s")>>
                  ELSE <<Call("Bstring", 0, <<"c">>, "s"), Take("q", "p"),
                         Store("q", (j + 2) \div 3, "s")>>)[((j + 2) % 3) + 1] = M[j]
    <3>1. M[j] = ArgStep(j, pFirst)
      BY <1>2
    <3> QED
      BY <3>1 DEF ArgStep
  <2>2. C = (head \o [j \in 1 .. l |->
                (IF pFirst
                  THEN <<Take("q", "p"), Call("Bstring", 0, <<"c">>, "s"),
                         Store("q", (j + 2) \div 3, "s")>>
                  ELSE <<Call("Bstring", 0, <<"c">>, "s"), Take("q", "p"),
                         Store("q", (j + 2) \div 3, "s")>>)[((j + 2) % 3) + 1]]) \o tail
    BY <1>a, <1>b, <1>3, <1>4, <1>5, Zenon DEF SetArgs
  <2>3. M = [j \in 1 .. l |-> M[j]]
    BY ONLY <1>2 DEF Indexed
  <2> QED
    BY <2>1, <2>2, <2>3, Zenon
<1>7. C = Chained(Chained(<<Pre, call, Push("p")>>, M), <<Pop("p"), Post, SetGlobal("p")>>)
  BY ONLY <1>4, <1>5, <1>6 DEF Chained
<1>8. PICK c1, c3, c4, c5, c6 : /\ c1 = Pre /\ c3 = Push("p")
                               /\ c4 = Pop("p") /\ c5 = Post /\ c6 = SetGlobal("p")
  OBVIOUS
<1>9. C = Enclosed(c1, call, c3, M, c4, c5, c6)
  BY ONLY <1>7, <1>8 DEF Enclosed
<1>10. /\ Indexed(C, l + 6)
       /\ C[1] = c1 /\ C[2] = call /\ C[3] = c3
       /\ (\A k \in 1 .. l : C[3 + k] = M[k])
       /\ C[l + 4] = c4 /\ C[l + 5] = c5 /\ C[l + 6] = c6
  <2>1. Indexed(M, l) /\ l \in Nat
    BY <1>2
  <2> QED
    BY ONLY <1>9, <2>1, Between
<1>11. \A j \in 1 .. l : C[3 + j] = ArgStep(j, pFirst)
  BY ONLY <1>2, <1>10
<1>12. ArgsScripted(C, l, n, pFirst)
  BY ONLY <1>3, <1>8, <1>10, <1>11 DEF ArgsScripted
<1> QED
  BY ONLY <1>a, <1>b, <1>12

(* The three steps for one argument, in either order of the pointer and    *)
(* the string.                                                             *)
LEMMA ArgSteps ==
  ASSUME NEW r, r.fn = "SetArgs", r.params = {}, NEW k,
         NEW A0, A0 = Plan(<<"p">>, "in", {"p"}, {"p", "c"}),
         NEW A1, A1 = Plan(<<"p">>, "in", {"p", "q"}, {"p", "q", "c"}),
         NEW A2, A2 = Plan(<<"p">>, "in", {"p", "q", "s"}, {"p", "s", "c"}),
         NEW B1, B1 = Plan(<<"p">>, "in", {"p", "s"}, {"p", "s", "c"}),
         NEW B2, B2 = Plan(<<"p">>, "in", {"p", "q", "s"}, {"p", "q", "s", "c"})
  PROVE  /\ MayStep(r, Take("q", "p"), A0, A1)
         /\ MayStep(r, Call("Bstring", 0, <<"c">>, "s"), A1, A2)
         /\ MayStep(r, Store("q", k, "s"), A2, A0)
         /\ MayStep(r, Call("Bstring", 0, <<"c">>, "s"), A0, B1)
         /\ MayStep(r, Take("q", "p"), B1, B2)
         /\ MayStep(r, Store("q", k, "s"), B2, A0)
<1>1. Room(r) = 2 /\ Scanned(r) = {} /\ 2 \in Nat /\ 2 >= 1
  BY DEF Room, RoomOf, Scanned
<1>2. Valid(r, A0) /\ Valid(r, A1) /\ Valid(r, A2) /\ Valid(r, B1) /\ Valid(r, B2)
  BY <1>1, ValidOne DEF Names
<1>3. /\ Registered(A0) = {"p"} /\ Registered(A1) = {"p"} /\ Registered(A2) = {"p"}
      /\ Registered(B1) = {"p"} /\ Registered(B2) = {"p"}
  BY SmallStacks
<1>4. /\ Assigned(r, A0, "q") /\ Assigned(r, A0, "s") /\ Assigned(r, A1, "s") /\ Assigned(r, B1, "q")
  BY <1>3 DEF Assigned, Names
<1>5. MayStep(r, Take("q", "p"), A0, A1)
  <2>1. {"p", "q"} = {"p"} \cup {"q"} /\ {"p", "q", "c"} = {"p", "c"} \cup {"q"}
    OBVIOUS
  <2>2. "p" \in Names /\ "q" # "p" /\ "p" \in {"p"} /\ "p" \in {"p", "c"}
    BY DEF Names
  <2> QED
    BY <1>2, <1>4, <2>1, <2>2, RuleTake
<1>6. MayStep(r, Take("q", "p"), B1, B2)
  <2>1. {"p", "q", "s"} = {"p", "s"} \cup {"q"} /\ {"p", "q", "s", "c"} = {"p", "s", "c"} \cup {"q"}
    OBVIOUS
  <2>2. "p" \in Names /\ "q" # "p" /\ "p" \in {"p", "s"} /\ "p" \in {"p", "s", "c"}
    BY DEF Names
  <2> QED
    BY <1>2, <1>4, <2>1, <2>2, RuleTake
<1>7. Callable("Bstring", 0, <<"c">>) /\ ToSet(<<"c">>) = {"c"} /\ Len(<<"p">>) = 1
  BY CallsOfFunctions, ToSetSmall
<1>8. 1 + RoomOf("Bstring") <= Room(r)
  BY <1>1, CallRooms
<1>9. MayStep(r, Call("Bstring", 0, <<"c">>, "s"), A1, A2)
  <2>1. {"p", "s", "c"} \subseteq Registered(A1) \cup Scanned(r) \cup {"s", "c"}
    BY <1>1, <1>3
  <2>2. {"p", "q", "s"} \subseteq {"p", "q"} \cup {"s"} /\ ToSet(<<"c">>) \subseteq {"p", "q", "c"}
    BY <1>7
  <2> QED
    BY <1>2, <1>4, <1>7, <1>8, <2>1, <2>2, RuleCallIn
<1>10. MayStep(r, Call("Bstring", 0, <<"c">>, "s"), A0, B1)
  <2>1. {"p", "s", "c"} \subseteq Registered(A0) \cup Scanned(r) \cup {"s", "c"}
    BY <1>1, <1>3
  <2>2. {"p", "s"} \subseteq {"p"} \cup {"s"} /\ ToSet(<<"c">>) \subseteq {"p", "c"}
    BY <1>7
  <2> QED
    BY <1>2, <1>4, <1>7, <1>8, <2>1, <2>2, RuleCallIn
<1>11. MayStep(r, Store("q", k, "s"), A2, A0)
  <2>1. {"p"} \subseteq {"p", "q", "s"} /\ {"p", "c"} \subseteq {"p", "s", "c"} /\ "s" \in Names
        /\ "q" \in {"p", "q", "s"}
    BY DEF Names
  <2> QED
    BY <1>2, <2>1, RuleStore
<1>12. MayStep(r, Store("q", k, "s"), B2, A0)
  <2>1. {"p"} \subseteq {"p", "q", "s"} /\ {"p", "c"} \subseteq {"p", "q", "s", "c"} /\ "s" \in Names
        /\ "q" \in {"p", "q", "s"}
    BY DEF Names
  <2> QED
    BY <1>2, <2>1, RuleStore
<1> QED
  BY <1>5, <1>6, <1>9, <1>10, <1>11, <1>12

(* set_args: the array is a root while each string is allocated; the array *)
(* read before that, in one of the two orders, is stale when the string is *)
(* stored.                                                                 *)
LEMMA SetArgsPlanned ==
  ASSUME NEW r, r.fn = "SetArgs", r.params = {}, r.own, NEW n \in 0 .. MaxValues, NEW pFirst \in BOOLEAN
  PROVE  Planned(r, SetArgs(n, pFirst), Plan(<< >>, "before", {}, Names))
<1>1. PICK C : C = SetArgs(n, pFirst)
  OBVIOUS
<1>2. PICK l \in Nat : l = 3 * n /\ ArgsScripted(C, l, n, pFirst)
  BY <1>1, ArgsScript
<1>3. PICK L \in Nat : L = l + 6
  BY <1>2
<1>4. /\ Indexed(C, L)
      /\ C[1] = Pre /\ C[2] = Call("LmakeArray", n, << >>, "p") /\ C[3] = Push("p")
      /\ (\A j \in 1 .. l : C[3 + j] = ArgStep(j, pFirst))
      /\ C[l + 4] = Pop("p") /\ C[l + 5] = Post /\ C[L] = SetGlobal("p")
  <2>1. /\ Indexed(C, l + 6)
        /\ C[1] = Pre /\ C[2] = Call("LmakeArray", n, << >>, "p") /\ C[3] = Push("p")
        /\ (\A j \in 1 .. l : C[3 + j] = ArgStep(j, pFirst))
        /\ C[l + 4] = Pop("p") /\ C[l + 5] = Post /\ C[l + 6] = SetGlobal("p")
    BY <1>2 DEF ArgsScripted
  <2> QED
    BY ONLY <1>3, <2>1
<1>5. PICK Z : Z = Plan(<< >>, "before", {}, Names)
  OBVIOUS
<1>6. PICK I : I = Plan(<< >>, "in", {}, Names)
  OBVIOUS
<1>7. PICK U : U = Plan(<< >>, "in", {"p"}, {"p", "c"})
  OBVIOUS
<1>8. PICK O : O = Plan(<< >>, "after", {"p"}, {"p", "c"})
  OBVIOUS
<1>9. PICK A0 : A0 = Plan(<<"p">>, "in", {"p"}, {"p", "c"})
  OBVIOUS
<1>10. PICK A1 : A1 = Plan(<<"p">>, "in", {"p", "q"}, {"p", "q", "c"})
  OBVIOUS
<1>11. PICK A2 : A2 = Plan(<<"p">>, "in", {"p", "q", "s"}, {"p", "s", "c"})
  OBVIOUS
<1>12. PICK B1 : B1 = Plan(<<"p">>, "in", {"p", "s"}, {"p", "s", "c"})
  OBVIOUS
<1>13. PICK B2 : B2 = Plan(<<"p">>, "in", {"p", "q", "s"}, {"p", "q", "s", "c"})
  OBVIOUS
<1>14. \A k : /\ MayStep(r, Take("q", "p"), A0, A1)
              /\ MayStep(r, Call("Bstring", 0, <<"c">>, "s"), A1, A2)
              /\ MayStep(r, Store("q", k, "s"), A2, A0)
              /\ MayStep(r, Call("Bstring", 0, <<"c">>, "s"), A0, B1)
              /\ MayStep(r, Take("q", "p"), B1, B2)
              /\ MayStep(r, Store("q", k, "s"), B2, A0)
  BY <1>9, <1>10, <1>11, <1>12, <1>13, ArgSteps
<1>15. PICK E : E = [m \in 0 .. 2 |-> IF m = 0 THEN A0
                                      ELSE IF m = 1 THEN (IF pFirst THEN A1 ELSE B1)
                                      ELSE (IF pFirst THEN A2 ELSE B2)]
  OBVIOUS
<1>16. E[0] = A0 /\ E[1] = (IF pFirst THEN A1 ELSE B1) /\ E[2] = (IF pFirst THEN A2 ELSE B2)
  BY ONLY <1>15
<1>17. PICK X : X = [j \in Nat |-> IF j = 1 THEN Z ELSE IF j = 2 THEN I ELSE IF j = 3 THEN U
                                   ELSE IF j <= l + 4 THEN E[(j - 4) % 3]
                                   ELSE IF j = l + 5 THEN U ELSE IF j = l + 6 THEN O
                                   ELSE Finished]
  OBVIOUS
<1>18. X[1] = Z /\ X[2] = I /\ X[3] = U /\ X[l + 5] = U /\ X[l + 6] = O /\ X[l + 7] = Finished
  <2>1. /\ l + 5 \in Nat /\ l + 6 \in Nat /\ l + 7 \in Nat
        /\ l + 5 # 1 /\ l + 5 # 2 /\ l + 5 # 3 /\ ~(l + 5 <= l + 4)
        /\ l + 6 # 1 /\ l + 6 # 2 /\ l + 6 # 3 /\ ~(l + 6 <= l + 4) /\ l + 6 # l + 5
        /\ l + 7 # 1 /\ l + 7 # 2 /\ l + 7 # 3 /\ ~(l + 7 <= l + 4) /\ l + 7 # l + 5 /\ l + 7 # l + 6
    OBVIOUS
  <2> QED
    BY ONLY <1>17, <2>1
<1>19. \A j \in 0 .. l : X[4 + j] = E[j % 3]
  <2>1. ASSUME NEW j \in 0 .. l
        PROVE  X[4 + j] = E[j % 3]
    <3>1. PICK i \in Nat : i = 4 + j
      OBVIOUS
    <3>2. i # 1 /\ i # 2 /\ i # 3 /\ i <= l + 4 /\ i - 4 = j
      BY <3>1
    <3>3. X[i] = E[(i - 4) % 3]
      BY ONLY <1>17, <3>2, i \in Nat
    <3> QED
      BY <3>1, <3>2, <3>3
  <2> QED
    BY <2>1
<1>20. ASSUME NEW j \in 1 .. l
       PROVE  MayStep(r, C[3 + j], X[3 + j], X[4 + j])
  <2>1. PICK i \in 0 .. l : i = j - 1
    BY <1>2
  <2>2. PICK m \in 0 .. 2 : m = i % 3
    <3>1. i % 3 \in 0 .. 2
      OBVIOUS
    <3> QED
      BY <3>1
  <2>3. (j + 2) % 3 = m /\ j % 3 = IF m = 2 THEN 0 ELSE m + 1
    BY <2>1, <2>2
  <2>4. 4 + i = 3 + j /\ j \in 0 .. l
    BY <2>1
  <2>5. X[3 + j] = E[m] /\ X[4 + j] = E[IF m = 2 THEN 0 ELSE m + 1]
    BY <1>19, <2>2, <2>3, <2>4
  <2>6. PICK k : k = (j + 2) \div 3
    OBVIOUS
  <2>7. C[3 + j] = (IF pFirst
                      THEN <<Take("q", "p"), Call("Bstring", 0, <<"c">>, "s"), Store("q", k, "s")>>
                      ELSE <<Call("Bstring", 0, <<"c">>, "s"), Take("q", "p"), Store("q", k, "s")>>)[m + 1]
    <3>1. C[3 + j] = ArgStep(j, pFirst)
      BY <1>4
    <3>2. CASE pFirst
      BY <2>3, <2>6, <3>1, <3>2 DEF ArgStep
    <3>3. CASE ~pFirst
      BY <2>3, <2>6, <3>1, <3>3 DEF ArgStep
    <3> QED
      BY <3>2, <3>3
  <2>8. PICK t : t = Take("q", "p")
    OBVIOUS
  <2>9. PICK c : c = Call("Bstring", 0, <<"c">>, "s")
    OBVIOUS
  <2>10. PICK s : s = Store("q", k, "s")
    OBVIOUS
  <2>11. /\ MayStep(r, t, A0, A1) /\ MayStep(r, c, A1, A2) /\ MayStep(r, s, A2, A0)
         /\ MayStep(r, c, A0, B1) /\ MayStep(r, t, B1, B2) /\ MayStep(r, s, B2, A0)
    BY <1>14, <2>8, <2>9, <2>10
  <2>12. C[3 + j] = (IF pFirst THEN <<t, c, s>> ELSE <<c, t, s>>)[m + 1]
    BY <2>7, <2>8, <2>9, <2>10
  <2>13. CASE m = 0
    <3>1. C[3 + j] = IF pFirst THEN t ELSE c
      BY ONLY <2>12, <2>13
    <3>2. X[3 + j] = E[0] /\ X[4 + j] = E[1]
      BY <2>5, <2>13
    <3> QED
      BY <1>16, <2>11, <3>1, <3>2
  <2>14. CASE m = 1
    <3>1. C[3 + j] = IF pFirst THEN c ELSE t
      BY ONLY <2>12, <2>14
    <3>2. X[3 + j] = E[1] /\ X[4 + j] = E[2]
      BY <2>5, <2>14
    <3> QED
      BY <1>16, <2>11, <3>1, <3>2
  <2>15. CASE m = 2
    <3>1. C[3 + j] = s
      BY ONLY <2>12, <2>15
    <3>2. X[3 + j] = E[2] /\ X[4 + j] = E[0]
      BY <2>5, <2>15
    <3> QED
      BY <1>16, <2>11, <3>1, <3>2
  <2> QED
    BY <2>2, <2>13, <2>14, <2>15
<1>21. /\ Room(r) = 2 /\ Scanned(r) = {} /\ 2 \in Nat /\ 2 >= 1 /\ {} \subseteq Names
       /\ {"p", "c"} \subseteq Names /\ {"p"} \subseteq Names /\ "p" \in {"p", "c"}
       /\ {} \subseteq {"p", "c"} /\ "in" \in {"before", "in", "after"} /\ "in" # "before"
       /\ "after" \in {"before", "in", "after"} /\ "after" # "before" /\ "in" \in {"in", "after"}
  BY DEF Room, RoomOf, Scanned, Names
<1>22. Valid(r, I) /\ Valid(r, U) /\ Valid(r, O)
  BY <1>6, <1>7, <1>8, <1>21, ValidNone
<1>23. Valid(r, A0)
  BY <1>9, <1>21, ValidOne
<1>24. MayStep(r, C[1], X[1], X[2])
  BY <1>4, <1>5, <1>6, <1>18, <1>21, <1>22, RulePre
<1>25. MayStep(r, C[2], X[2], X[3])
  <2>1. Registered(I) = {}
    BY <1>6, SmallStacks
  <2>2. Assigned(r, I, "p")
    BY <2>1 DEF Assigned, Names
  <2>3. Callable("LmakeArray", n, << >>) /\ ToSet(<< >>) \subseteq Names /\ Len(<< >>) = 0
    BY CallsOfFunctions, ToSetSmall
  <2>4. 0 + RoomOf("LmakeArray") <= Room(r)
    BY <1>21, CallRooms
  <2>5. {"p", "c"} \subseteq Registered(I) \cup Scanned(r) \cup {"p", "c"} /\ {"p"} \subseteq {} \cup {"p"}
    OBVIOUS
  <2>6. r.fn # "Bclosure" /\ "LmakeArray" # "Bsexp"
    OBVIOUS
  <2>7. /\ Assigned(r, Plan(<< >>, "in", {}, Names), "p")
        /\ Valid(r, Plan(<< >>, "in", {"p"}, {"p", "c"}))
        /\ {"p", "c"} \subseteq Registered(Plan(<< >>, "in", {}, Names)) \cup Scanned(r) \cup {"p", "c"}
    BY ONLY <1>6, <1>7, <1>22, <2>2, <2>5
  <2>8. /\ ToSet(<< >>) \subseteq Names /\ Len(<< >>) = 0
        /\ 0 + RoomOf("LmakeArray") <= Room(r) /\ {"p"} \subseteq {} \cup {"p"}
    BY ONLY <2>3, <2>4, <2>5
  <2>9. MayStep(r, Call("LmakeArray", n, << >>, "p"), Plan(<< >>, "in", {}, Names),
                Plan(<< >>, "in", {"p"}, {"p", "c"}))
    BY ONLY <2>3, <2>6, <2>7, <2>8, RuleCallIn
  <2>10. C[2] = Call("LmakeArray", n, << >>, "p") /\ X[2] = I /\ X[3] = U
    BY ONLY <1>4, <1>18
  <2> QED
    BY ONLY <1>6, <1>7, <2>9, <2>10
<1>26. MayStep(r, C[3], X[3], A0)
  BY <1>4, <1>7, <1>9, <1>18, <1>21, <1>23, RulePush
<1>27. /\ X[4] = A0 /\ X[l + 4] = A0
  <2>1. 0 \in 0 .. l /\ l \in 0 .. l /\ 0 % 3 = 0 /\ l % 3 = 0 /\ 4 + 0 = 4 /\ 4 + l = l + 4
    BY <1>2
  <2> QED
    BY <1>16, <1>19, <2>1
<1>28. MayStep(r, C[l + 4], X[l + 4], X[l + 5])
  BY <1>4, <1>7, <1>9, <1>18, <1>22, <1>27, RulePop
<1>29. MayStep(r, C[l + 5], X[l + 5], X[l + 6])
  BY <1>4, <1>7, <1>8, <1>18, <1>22, RulePost
<1>30. MayStep(r, C[l + 6], X[l + 6], X[l + 7])
  BY <1>3, <1>4, <1>8, <1>18, <1>21, RuleGlobal
<1>31. ASSUME NEW j \in 1 .. L
       PROVE  MayStep(r, C[j], X[j], X[j + 1])
  <2>1. CASE j = 1
    <3>1. j + 1 = 2
      BY <2>1
    <3> QED
      BY ONLY <1>24, <2>1, <3>1
  <2>2. CASE j = 2
    <3>1. j + 1 = 3
      BY <2>2
    <3> QED
      BY ONLY <1>25, <2>2, <3>1
  <2>3. CASE j = 3
    <3>1. j + 1 = 4
      BY <2>3
    <3> QED
      BY ONLY <1>26, <1>27, <2>3, <3>1
  <2>4. CASE j \in 4 .. l + 3
    <3>1. PICK k \in 1 .. l : j = 3 + k /\ j + 1 = 4 + k
      <4>1. j - 3 \in 1 .. l /\ j = 3 + (j - 3) /\ j + 1 = 4 + (j - 3)
        BY <2>4
      <4> QED
        BY <4>1
    <3> QED
      BY ONLY <1>20, <3>1
  <2>5. CASE j = l + 4
    <3>1. j + 1 = l + 5
      BY <2>5
    <3> QED
      BY ONLY <1>28, <2>5, <3>1
  <2>6. CASE j = l + 5
    <3>1. j + 1 = l + 6
      BY <2>6
    <3> QED
      BY ONLY <1>29, <2>6, <3>1
  <2>7. CASE j = l + 6
    <3>1. j + 1 = l + 7
      BY <2>7
    <3> QED
      BY ONLY <1>30, <2>7, <3>1
  <2> QED
    BY <1>3, <2>1, <2>2, <2>3, <2>4, <2>5, <2>6, <2>7
<1>32. PICK m : m = L + 1
  OBVIOUS
<1>33. X[m].gc = "done"
  <2>1. m = l + 7
    BY <1>3, <1>32
  <2> QED
    BY <1>18, <2>1, PlanParts DEF Finished
<1>34. Planned(r, C, X[1])
  BY <1>4, <1>31, <1>32, <1>33, PlanByPositions
<1> QED
  BY <1>1, <1>5, <1>18, <1>34
=============================================================================
