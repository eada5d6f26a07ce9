----------------------------- MODULE BasicFacts -----------------------------
(***************************************************************************)
(* Facts the proofs of several components need: induction over numbers,    *)
(* put in terms of sets so that it can be used by citing it, sets that are *)
(* widened round by round, and sequences used as stacks.                   *)
(***************************************************************************)
EXTENDS Integers, Sequences, SequencesExt, SequenceTheorems, FiniteSetTheorems,
        WellFoundedInduction, TLAPS

-----------------------------------------------------------------------------
(***************************************************************************)
(* Induction                                                               *)
(***************************************************************************)

(* A set of numbers has a least element.                                   *)
LEMMA LeastNat ==
  ASSUME NEW S \in SUBSET Nat, S # {}
  PROVE  \E m \in S : \A k \in S : m <= k
<1> DEFINE R == OpToRel(<, Nat)
<1>1. \A x, y \in Nat : x < y => <<x, y>> \in R
  BY DEF OpToRel
<1>2. IsWellFoundedOn(R, Nat)
  BY NatLessThanWellFounded
<1> HIDE DEF R
<1>3. PICK x \in S : \A y \in S : ~(<<y, x>> \in R)
  BY <1>2, WFMin
<1>4. ASSUME NEW y \in S
      PROVE  x <= y
  <2>1. x \in Nat /\ y \in Nat
    OBVIOUS
  <2>2. ~(y < x)
    BY <1>1, <1>3, <2>1
  <2> QED
    BY <2>1, <2>2
<1> QED
  BY <1>4

(* A set that has 0 and with each number the next one has them all.        *)
LEMMA NatInSet ==
  ASSUME NEW S, 0 \in S, \A n \in Nat : n \in S => n + 1 \in S
  PROVE  Nat \subseteq S
<1> SUFFICES ASSUME ~(Nat \subseteq S)
             PROVE  FALSE
  OBVIOUS
<1>1. Nat \ S \in SUBSET Nat /\ Nat \ S # {}
  OBVIOUS
<1>2. PICK m \in Nat \ S : \A k \in Nat \ S : m <= k
  BY <1>1, LeastNat
<1>3. m # 0 /\ m - 1 \in Nat /\ m - 1 + 1 = m
  BY <1>2
<1>4. m - 1 \in S
  BY <1>2, <1>3
<1> QED
  BY <1>2, <1>3, <1>4

-----------------------------------------------------------------------------
(***************************************************************************)
(* Rounds                                                                  *)
(***************************************************************************)

(* F, applied again and again to A.                                        *)
Iterates(R, n, A, F) == R = [k \in 0 .. n |-> IF k = 0 THEN A ELSE F[R[k - 1]]]

(* The rounds, as a function on the natural numbers.                      *)
LEMMA IteratesExists ==
  ASSUME NEW A, NEW F, NEW m \in Nat
  PROVE  \E R : Iterates(R, m, A, F)
<1> DEFINE S == {k \in Nat : \E R : Iterates(R, k, A, F)}
<1>1. 0 \in S
  <2>1. PICK R : R = [k \in 0 .. 0 |-> A]
    OBVIOUS
  <2>2. Iterates(R, 0, A, F)
    BY <2>1 DEF Iterates
  <2> QED
    BY <2>2
<1>2. ASSUME NEW n \in Nat, n \in S
      PROVE  n + 1 \in S
  <2>1. PICK R : Iterates(R, n, A, F)
    BY <1>2
  <2>2. PICK T : T = [k \in 0 .. n + 1 |-> IF k = n + 1 THEN F[R[n]] ELSE R[k]]
    OBVIOUS
  <2>3. /\ DOMAIN T = 0 .. n + 1 /\ T[n + 1] = F[R[n]]
        /\ \A k \in 0 .. n : T[k] = R[k]
    BY <2>2
  <2>4. R[0] = A /\ \A k \in 1 .. n : R[k] = F[R[k - 1]]
    BY <2>1 DEF Iterates
  <2>5. ASSUME NEW k \in 0 .. n + 1
        PROVE  T[k] = IF k = 0 THEN A ELSE F[T[k - 1]]
    <3>1. CASE k = 0
      BY <2>3, <2>4, <3>1
    <3>2. CASE k \in 1 .. n
      <4>1. k \in 0 .. n /\ k - 1 \in 0 .. n /\ k # 0
        BY <3>2
      <4> QED
        BY <2>3, <2>4, <3>2, <4>1
    <3>3. CASE k = n + 1
      <4>1. k - 1 = n /\ n \in 0 .. n /\ k # 0
        BY <3>3
      <4> QED
        BY <2>3, <3>3, <4>1
    <3> QED
      BY <3>1, <3>2, <3>3
  <2>6. T = [k \in 0 .. n + 1 |-> IF k = 0 THEN A ELSE F[T[k - 1]]]
    BY <2>2, <2>5
  <2>7. Iterates(T, n + 1, A, F)
    BY <2>6 DEF Iterates
  <2> QED
    BY <2>7
<1> HIDE DEF S
<1>3. Nat \subseteq S
  BY <1>1, <1>2, NatInSet
<1> QED
  BY <1>3 DEF S

(* The subsets of U, widened by F.                                         *)
WidensIn(F, U) ==
  IsFiniteSet(U) /\ \A Z \in SUBSET U : F[Z] \in SUBSET U /\ Z \subseteq F[Z]

(* Each set is a part of the next; from one that is a fixed point on they  *)
(* are equal, and up to it each has an element more: so the last of them   *)
(* is one if there are rounds enough.                                      *)
LEMMA IterationSettles ==
  ASSUME NEW U, NEW F, NEW A, NEW n, NEW R, n \in Nat, WidensIn(F, U), A \subseteq U,
         Iterates(R, n, A, F)
  PROVE  /\ \A k \in 0 .. n : A \subseteq R[k] /\ R[k] \subseteq U
         /\ Cardinality(U) <= Cardinality(A) + n => F[R[n]] = R[n]
<1>1. R[0] = A /\ \A k \in 1 .. n : R[k] = F[R[k - 1]]
  BY DEF Iterates
<1>2. IsFiniteSet(U) /\ \A Z \in SUBSET U : F[Z] \in SUBSET U /\ Z \subseteq F[Z]
  BY DEF WidensIn
<1>3. \A Z : Z \subseteq U => IsFiniteSet(Z) /\ Cardinality(Z) \in Nat
  BY <1>2, FS_Subset, FS_CardinalityType
<1>4. PICK a \in Nat : a = Cardinality(A)
  BY <1>3
<1> DEFINE Claim(k) == /\ A \subseteq R[k] /\ R[k] \subseteq U
                       /\ F[R[k]] = R[k] \/ Cardinality(R[k]) >= a + k
           S == {k \in Nat : k <= n => Claim(k)}
<1>5. 0 \in S
  BY <1>1, <1>4
<1>6. ASSUME NEW k \in Nat, k \in S
      PROVE  k + 1 \in S
  <2>1. SUFFICES ASSUME k + 1 <= n
                 PROVE  Claim(k + 1)
    OBVIOUS
  <2>2. Claim(k)
    BY <1>6, <2>1
  <2>3. R[k + 1] = F[R[k]]
    <3>1. k + 1 \in 1 .. n /\ k + 1 - 1 = k
      BY <2>1
    <3> QED
      BY <1>1, <3>1
  <2>4. A \subseteq R[k + 1] /\ R[k + 1] \subseteq U /\ R[k] \subseteq R[k + 1]
    BY <1>2, <2>2, <2>3
  <2>5. CASE F[R[k]] = R[k]
    BY <2>2, <2>3, <2>4, <2>5
  <2>6. CASE F[R[k]] # R[k]
    <3>1. PICK x, y : x = Cardinality(R[k]) /\ y = Cardinality(R[k + 1])
      OBVIOUS
    <3>2. x \in Nat /\ y \in Nat /\ IsFiniteSet(R[k + 1])
      BY <1>3, <2>2, <2>4, <3>1
    <3>3. x >= a + k
      BY <2>2, <2>6, <3>1
    <3>4. x <= y /\ x # y
      BY <2>3, <2>4, <2>6, <3>1, <3>2, FS_Subset
    <3>5. y >= a + (k + 1)
      BY <1>4, <3>2, <3>3, <3>4
    <3> QED
      BY <2>4, <3>1, <3>5
  <2> QED
    BY <2>5, <2>6
<1> HIDE DEF S
<1>7. Nat \subseteq S
  BY <1>5, <1>6, NatInSet
<1>8. ASSUME NEW k \in 0 .. n
      PROVE  Claim(k)
  <2>1. k \in Nat /\ k <= n
    OBVIOUS
  <2>2. k \in S
    BY <1>7, <2>1
  <2> QED
    BY <2>1, <2>2 DEF S
<1>9. ASSUME Cardinality(U) <= Cardinality(A) + n
      PROVE  F[R[n]] = R[n]
  <2>1. PICK Z : Z = R[n]
    OBVIOUS
  <2>2. Claim(n)
    BY <1>8
  <2>3. Z \subseteq U /\ (F[Z] = Z \/ Cardinality(Z) >= a + n)
    BY <2>1, <2>2
  <2>4. CASE Cardinality(Z) >= a + n
    <3>1. PICK x, y : x = Cardinality(Z) /\ y = Cardinality(U)
      OBVIOUS
    <3>2. x \in Nat /\ y \in Nat /\ x <= y /\ (x = y => Z = U)
      BY <1>2, <1>3, <2>3, <3>1, FS_Subset
    <3>3. x = y
      <4>1. y <= a + n
        BY <1>4, <1>9, <3>1
      <4>2. a + n <= x
        BY <1>4, <2>4, <3>1, <3>2
      <4> QED
        BY <3>2, <4>1, <4>2
    <3>4. Z = U
      BY <3>2, <3>3
    <3>5. F[U] \subseteq U /\ U \subseteq F[U]
      BY <1>2
    <3> QED
      BY <2>1, <3>4, <3>5
  <2> QED
    BY <2>1, <2>3, <2>4
<1> QED
  BY <1>8, <1>9

(* What two recursions define alike is the same.                           *)
LEMMA SameIteration ==
  ASSUME NEW n \in Nat, NEW R, NEW H, H[0] = R[0],
         \A k \in 1 .. n : H[k - 1] = R[k - 1] => H[k] = R[k]
  PROVE  H[n] = R[n]
<1> DEFINE S == {k \in Nat : k <= n => H[k] = R[k]}
<1>1. 0 \in S
  OBVIOUS
<1>2. ASSUME NEW k \in Nat, k \in S
      PROVE  k + 1 \in S
  <2>1. SUFFICES ASSUME k + 1 <= n
                 PROVE  H[k + 1] = R[k + 1]
    OBVIOUS
  <2>2. H[k] = R[k] /\ k + 1 \in 1 .. n /\ k + 1 - 1 = k
    BY <1>2, <2>1
  <2> QED
    BY <2>2
<1> HIDE DEF S
<1>3. Nat \subseteq S
  BY <1>1, <1>2, NatInSet
<1> QED
  BY <1>3 DEF S

-----------------------------------------------------------------------------
(***************************************************************************)
(* Sequences used as stacks                                                *)
(***************************************************************************)

(* Popping: a non-empty stack is what is left of it and its last element.  *)
LEMMA PopSeq ==
  ASSUME NEW S, NEW s \in Seq(S), s # << >>
  PROVE  /\ Front(s) \in Seq(S)
         /\ Last(s) \in S
         /\ ToSet(s) = ToSet(Front(s)) \cup {Last(s)}
<1>1. Len(s) \in Nat \ {0} /\ DOMAIN s = 1 .. Len(s) /\ \A k \in 1 .. Len(s) : s[k] \in S
  BY LenProperties, EmptySeq, ElementOfSeq
<1>2. /\ Front(s) \in Seq(S)
      /\ Len(Front(s)) = Len(s) - 1
      /\ \A k \in 1 .. Len(s) - 1 : Front(s)[k] = s[k]
  <2>1. Len(s) - 1 \in Int /\ 1 \in Int
    BY <1>1
  <2>2. \A k \in 1 .. Len(s) - 1 : s[k] \in S
    BY <1>1
  <2>3. Front(s) = SubSeq(s, 1, Len(s) - 1)
    BY DEF Front
  <2> QED
    BY <1>1, <2>1, <2>2, <2>3, SubSeqProperties
<1>3. Last(s) = s[Len(s)]
  BY DEF Last
<1>4. DOMAIN Front(s) = 1 .. Len(s) - 1
  BY <1>2, LenProperties
<1>5. ToSet(s) = ToSet(Front(s)) \cup {Last(s)}
  BY <1>1, <1>2, <1>3, <1>4 DEF ToSet
<1> QED
  BY <1>1, <1>2, <1>3, <1>5

(* Pushing: the elements of a concatenation are those of its two parts.    *)
LEMMA PushSeq ==
  ASSUME NEW S, NEW s \in Seq(S), NEW t \in Seq(S)
  PROVE  /\ s \o t \in Seq(S)
         /\ ToSet(s \o t) = ToSet(s) \cup ToSet(t)
<1>1. /\ s \o t \in Seq(S)
      /\ Len(s \o t) = Len(s) + Len(t)
      /\ \A k \in 1 .. Len(s) + Len(t) : (s \o t)[k] =
           IF k <= Len(s) THEN s[k] ELSE t[k - Len(s)]
  BY ConcatProperties
<1>2. /\ DOMAIN (s \o t) = 1 .. Len(s) + Len(t)
      /\ DOMAIN s = 1 .. Len(s) /\ DOMAIN t = 1 .. Len(t)
      /\ Len(s) \in Nat /\ Len(t) \in Nat
  BY <1>1, LenProperties
<1>3. ASSUME NEW x \in ToSet(s \o t)
      PROVE  x \in ToSet(s) \cup ToSet(t)
  <2>1. PICK k \in 1 .. Len(s) + Len(t) : x = (s \o t)[k]
    BY <1>2, <1>3 DEF ToSet
  <2>2. CASE k <= Len(s)
    BY <1>1, <1>2, <2>1, <2>2 DEF ToSet
  <2>3. CASE k > Len(s)
    <3>1. k - Len(s) \in 1 .. Len(t) /\ x = t[k - Len(s)]
      BY <1>1, <1>2, <2>1, <2>3
    <3> QED
      BY <1>2, <3>1 DEF ToSet
  <2> QED
    BY <1>2, <2>2, <2>3
<1>4. ASSUME NEW x \in ToSet(s)
      PROVE  x \in ToSet(s \o t)
  <2>1. PICK k \in 1 .. Len(s) : x = s[k]
    BY <1>2 DEF ToSet
  <2>2. k \in 1 .. Len(s) + Len(t) /\ (s \o t)[k] = x
    BY <1>1, <1>2, <2>1
  <2> QED
    BY <1>2, <2>2 DEF ToSet
<1>5. ASSUME NEW x \in ToSet(t)
      PROVE  x \in ToSet(s \o t)
  <2>1. PICK k \in 1 .. Len(t) : x = t[k]
    BY <1>2 DEF ToSet
  <2>2. Len(s) + k \in 1 .. Len(s) + Len(t) /\ (s \o t)[Len(s) + k] = x
    BY <1>1, <1>2, <2>1
  <2> QED
    BY <1>2, <2>2 DEF ToSet
<1> QED
  BY <1>1, <1>3, <1>4, <1>5

(* One element and none.                                                   *)
LEMMA ShortSeq ==
  /\ ToSet(<< >>) = {}
  /\ \A S : << >> \in Seq(S)
  /\ \A S : \A x \in S : <<x>> \in Seq(S)
  /\ \A x : ToSet(<<x>>) = {x}
  BY DEF ToSet

(* Append as a push.                                                       *)
LEMMA AppendSeq ==
  ASSUME NEW S, NEW s \in Seq(S), NEW x \in S
  PROVE  /\ Append(s, x) \in Seq(S)
         /\ ToSet(Append(s, x)) = ToSet(s) \cup {x}
<1>1. Append(s, x) = s \o <<x>>
  OBVIOUS
<1>2. <<x>> \in Seq(S) /\ ToSet(<<x>>) = {x}
  BY ShortSeq
<1>3. s \o <<x>> \in Seq(S) /\ ToSet(s \o <<x>>) = ToSet(s) \cup ToSet(<<x>>)
  BY <1>2, PushSeq, ZenonT(30)
<1> QED
  BY <1>1, <1>2, <1>3, Zenon

(* The last element and the others, by their positions.                    *)
LEMMA LastSeq ==
  ASSUME NEW S, NEW s \in Seq(S), s # << >>
  PROVE  /\ Len(s) \in Nat \ {0} /\ DOMAIN s = 1 .. Len(s)
         /\ Last(s) = s[Len(s)] /\ Last(s) \in S
         /\ Front(s) \in Seq(S) /\ Len(Front(s)) = Len(s) - 1
         /\ \A k \in 1 .. Len(s) - 1 : Front(s)[k] = s[k]
<1>1. Len(s) \in Nat \ {0} /\ DOMAIN s = 1 .. Len(s) /\ \A k \in 1 .. Len(s) : s[k] \in S
  BY LenProperties, EmptySeq, ElementOfSeq
<1>2. Len(s) - 1 \in Int /\ 1 \in Int /\ \A k \in 1 .. Len(s) - 1 : s[k] \in S
  BY <1>1
<1>3. Front(s) = SubSeq(s, 1, Len(s) - 1)
  BY DEF Front
<1> QED
  BY <1>1, <1>2, <1>3, SubSeqProperties DEF Last

(* Append, by positions.                                                   *)
LEMMA AppendAt ==
  ASSUME NEW S, NEW s \in Seq(S), NEW x \in S
  PROVE  /\ Append(s, x) \in Seq(S) /\ Append(s, x) # << >>
         /\ Len(Append(s, x)) = Len(s) + 1 /\ DOMAIN Append(s, x) = 1 .. Len(s) + 1
         /\ \A k \in 1 .. Len(s) : Append(s, x)[k] = s[k]
         /\ Append(s, x)[Len(s) + 1] = x
         /\ Last(Append(s, x)) = x /\ Front(Append(s, x)) = s
<1>1. /\ Append(s, x) \in Seq(S)
      /\ Len(Append(s, x)) = Len(s) + 1
      /\ \A k \in 1 .. Len(s) : Append(s, x)[k] = s[k]
      /\ Append(s, x)[Len(s) + 1] = x
      /\ Len(s) \in Nat
  BY AppendProperties, LenProperties
<1>2. Append(s, x) # << >>
  BY <1>1, EmptySeq
<1>3. DOMAIN Append(s, x) = 1 .. Len(s) + 1
  BY <1>1, LenProperties
<1>4. Last(Append(s, x)) = x
  BY <1>1 DEF Last
<1>5. Front(Append(s, x)) = s
  <2> DEFINE t == Append(s, x)
  <2>1. t \in Seq(S) /\ t # << >> /\ Len(t) = Len(s) + 1
    BY <1>1, <1>2
  <2>2. \A k \in 1 .. Len(s) : t[k] = s[k]
    BY <1>1
  <2> HIDE DEF t
  <2>3. /\ Front(t) \in Seq(S) /\ Len(Front(t)) = Len(t) - 1
        /\ \A k \in 1 .. Len(t) - 1 : Front(t)[k] = t[k]
    BY <2>1, LastSeq
  <2>4. Len(t) - 1 = Len(s)
    BY <1>1, <2>1
  <2>5. Front(t) = s
    BY <2>2, <2>3, <2>4, SeqEqual
  <2> QED
    BY <2>5 DEF t
<1> QED
  BY <1>1, <1>2, <1>3, <1>4, <1>5

(* Replacing the last element.                                             *)
LEMMA ReplaceLast ==
  ASSUME NEW S, NEW s \in Seq(S), s # << >>, NEW x \in S
  PROVE  LET t == Append(Front(s), x)
         IN  /\ t \in Seq(S) /\ t # << >> /\ Len(t) = Len(s) /\ DOMAIN t = DOMAIN s
             /\ \A k \in 1 .. Len(s) - 1 : t[k] = s[k]
             /\ t[Len(s)] = x /\ Last(t) = x /\ Front(t) = Front(s)
<1>1. /\ Front(s) \in Seq(S) /\ Len(Front(s)) = Len(s) - 1 /\ Len(s) \in Nat \ {0}
      /\ \A k \in 1 .. Len(s) - 1 : Front(s)[k] = s[k]
      /\ DOMAIN s = 1 .. Len(s)
  BY LastSeq
<1> HIDE DEF Front
<1> QED
  BY <1>1, AppendAt

(* A stack is its last element on top of the others.                       *)
LEMMA FrontLast ==
  ASSUME NEW S, NEW s \in Seq(S), s # << >>
  PROVE  Append(Front(s), Last(s)) = s
<1> DEFINE t == Append(Front(s), Last(s))
<1>1. /\ Front(s) \in Seq(S) /\ Last(s) \in S /\ Last(s) = s[Len(s)] /\ Len(s) \in Nat \ {0}
      /\ Len(Front(s)) = Len(s) - 1
      /\ \A k \in 1 .. Len(s) - 1 : Front(s)[k] = s[k]
  BY LastSeq
<1>2. t \in Seq(S) /\ Len(t) = Len(s) /\ t[Len(s)] = s[Len(s)]
      /\ \A k \in 1 .. Len(s) - 1 : t[k] = s[k]
  BY <1>1, ReplaceLast
<1> HIDE DEF t
<1>3. \A k \in 1 .. Len(s) : t[k] = s[k]
  BY <1>1, <1>2
<1>4. t = s
  BY <1>2, <1>3, SeqEqual
<1> QED
  BY <1>4 DEF t

(* A sequence given by its positions.                                      *)
LEMMA SeqByPositions ==
  ASSUME NEW n \in Nat, NEW F, F = [k \in 1 .. n |-> F[k]], NEW S, \A k \in 1 .. n : F[k] \in S
  PROVE  F \in Seq(S) /\ Len(F) = n /\ DOMAIN F = 1 .. n
<1>1. F \in [1 .. n -> S]
  OBVIOUS
<1>2. F \in Seq(S)
  BY <1>1, SeqDef
<1>3. DOMAIN F = 1 .. n
  OBVIOUS
<1> QED
  BY <1>2, <1>3, LenProperties

(* A stack with n elements, and one that has in its positions 1 to n what  *)
(* another one has above position p.                                       *)
Indexed(F, n) == F = [k \in 1 .. n |-> F[k]]

Repeats(G, F, p, n) == \A k \in 1 .. n : G[k] = F[p + k]

(* Two stacks that differ in the last element.                             *)
LEMMA LastReplaced ==
  ASSUME NEW n \in Nat, NEW m \in Nat, n = m + 1,
         NEW F, Indexed(F, n), NEW G, Indexed(G, n), Repeats(G, F, 0, m)
  PROVE  Last(F) = F[n] /\ Len(F) = n /\ F # << >> /\ G = Append(Front(F), G[n])
<1>0. /\ F = [k \in 1 .. n |-> F[k]] /\ G = [k \in 1 .. n |-> G[k]]
      /\ \A k \in 1 .. m : G[k] = F[k]
      /\ \A k \in 1 .. n - 1 : k \in 1 .. m
  <2>1. F = [k \in 1 .. n |-> F[k]] /\ G = [k \in 1 .. n |-> G[k]]
    BY Zenon DEF Indexed
  <2>2. \A k \in 1 .. m : 0 + k = k
    OBVIOUS
  <2>3. \A k \in 1 .. m : G[k] = F[k]
    BY <2>2 DEF Repeats
  <2>4. \A k \in 1 .. n - 1 : k \in 1 .. m
    OBVIOUS
  <2> QED
    BY <2>1, <2>3, <2>4
<1> DEFINE S == {F[k] : k \in 1 .. n} \cup {G[k] : k \in 1 .. n}
<1>1. (\A k \in 1 .. n : F[k] \in S /\ G[k] \in S) /\ n \in 1 .. n /\ n \in Nat
  OBVIOUS
<1> HIDE DEF S
<1>2. F \in Seq(S) /\ Len(F) = n /\ G \in Seq(S) /\ Len(G) = n
  BY <1>0, <1>1, SeqByPositions
<1>3. F # << >>
  BY <1>2, EmptySeq
<1>4. Last(F) = F[n]
  BY <1>2 DEF Last
<1> DEFINE H == Append(Front(F), G[n])
<1>5. H \in Seq(S) /\ Len(H) = n /\ H[n] = G[n] /\ \A k \in 1 .. n - 1 : H[k] = F[k]
  <2>1. G[n] \in S
    BY <1>1
  <2>2. /\ H \in Seq(S) /\ Len(H) = Len(F) /\ H[Len(F)] = G[n]
        /\ \A k \in 1 .. Len(F) - 1 : H[k] = F[k]
    BY ONLY <1>2, <1>3, <2>1, ReplaceLast DEF H
  <2> QED
    BY <1>2, <2>2
<1> HIDE DEF H
<1>6. \A k \in 1 .. n : G[k] = H[k]
  <2>1. \A k \in 1 .. n : k \in 1 .. n - 1 \/ k = n
    OBVIOUS
  <2> QED
    BY <1>0, <1>5, <2>1
<1>7. G = H
  BY <1>2, <1>5, <1>6, SeqEqual
<1> QED
  BY <1>2, <1>3, <1>4, <1>7 DEF H

(* One element more.                                                       *)
LEMMA LastAdded ==
  ASSUME NEW n \in Nat, NEW m \in Nat, m = n + 1,
         NEW F, Indexed(F, n), NEW G, Indexed(G, m), Repeats(G, F, 0, n)
  PROVE  G = Append(F, G[m])
<1>0. /\ F = [k \in 1 .. n |-> F[k]] /\ G = [k \in 1 .. m |-> G[k]]
      /\ \A k \in 1 .. n : G[k] = F[k]
  <2>1. F = [k \in 1 .. n |-> F[k]] /\ G = [k \in 1 .. m |-> G[k]]
    BY Zenon DEF Indexed
  <2>2. \A k \in 1 .. n : 0 + k = k
    OBVIOUS
  <2> QED
    BY <2>1, <2>2 DEF Repeats
<1> DEFINE S == {F[k] : k \in 1 .. n} \cup {G[k] : k \in 1 .. m}
<1>1. /\ \A k \in 1 .. n : F[k] \in S
      /\ \A k \in 1 .. m : G[k] \in S
      /\ m \in 1 .. m
  OBVIOUS
<1> HIDE DEF S
<1>2. F \in Seq(S) /\ Len(F) = n /\ G \in Seq(S) /\ Len(G) = m
  BY <1>0, <1>1, SeqByPositions
<1> DEFINE H == Append(F, G[m])
<1>3. H \in Seq(S) /\ Len(H) = m /\ H[m] = G[m] /\ \A k \in 1 .. n : H[k] = F[k]
  BY <1>1, <1>2, AppendAt
<1> HIDE DEF H
<1>4. \A k \in 1 .. m : G[k] = H[k]
  <2>1. \A k \in 1 .. m : k \in 1 .. n \/ k = m
    OBVIOUS
  <2> QED
    BY <1>0, <1>3, <2>1
<1>5. G = H
  BY <1>2, <1>3, <1>4, SeqEqual
<1> QED
  BY <1>5 DEF H

(* A part of a stack.                                                      *)
LEMMA PartOf ==
  ASSUME NEW n \in Nat, NEW F, Indexed(F, n), NEW p \in Nat, NEW q \in Nat, p + q <= n,
         NEW G, Indexed(G, q), Repeats(G, F, p, q)
  PROVE  G = SubSeq(F, p + 1, p + q)
<1>0. /\ F = [k \in 1 .. n |-> F[k]] /\ G = [k \in 1 .. q |-> G[k]]
      /\ \A k \in 1 .. q : G[k] = F[p + k]
  BY DEF Indexed, Repeats
<1> DEFINE S == {F[k] : k \in 1 .. n} \cup {G[k] : k \in 1 .. q}
<1>1. /\ \A k \in 1 .. n : F[k] \in S
      /\ \A k \in 1 .. q : G[k] \in S
  OBVIOUS
<1> HIDE DEF S
<1>2. F \in Seq(S) /\ Len(F) = n /\ G \in Seq(S) /\ Len(G) = q
  BY <1>0, <1>1, SeqByPositions
<1> DEFINE H == SubSeq(F, p + 1, p + q)
<1>3. PICK a \in Int, b \in Int : a = p + 1 /\ b = p + q
  OBVIOUS
<1>4. /\ H \in Seq(S)
      /\ Len(H) = IF a <= b THEN b - a + 1 ELSE 0
      /\ \A i \in 1 .. b - a + 1 : H[i] = F[a + i - 1]
  <2>1. \A i \in a .. b : F[i] \in S
    BY <1>1, <1>3
  <2>2. H = SubSeq(F, a, b)
    BY <1>3
  <2> HIDE DEF H
  <2> QED
    BY ONLY a \in Int, b \in Int, <2>1, <2>2, SubSeqProperties
<1> HIDE DEF H
<1>5. Len(H) = q
  BY <1>3, <1>4
<1>7. \A i \in 1 .. q : H[i] = F[p + i]
  <2>1. ASSUME NEW i \in 1 .. q
        PROVE  i \in 1 .. b - a + 1 /\ a + i - 1 = p + i
    BY <1>3
  <2> QED
    BY <1>4, <2>1
<1>8. G = H
  BY <1>0, <1>2, <1>4, <1>5, <1>7, SeqEqual
<1> QED
  BY <1>8 DEF H

(* The number of elements.                                                 *)
LEMMA IndexedLen ==
  ASSUME NEW n \in Nat, NEW F, Indexed(F, n)
  PROVE  Len(F) = n /\ (F # << >> <=> n > 0)
<1> DEFINE S == {F[k] : k \in 1 .. n}
<1>1. F \in Seq(S) /\ Len(F) = n
  <2>1. F = [k \in 1 .. n |-> F[k]]
    BY DEF Indexed
  <2>2. \A k \in 1 .. n : F[k] \in S
    OBVIOUS
  <2> HIDE DEF S
  <2> QED
    BY <2>1, <2>2, SeqByPositions
<1> HIDE DEF S
<1> QED
  BY <1>1, EmptySeq

(* A part of a stack and one element more, or two.                         *)
LEMMA OneOver ==
  ASSUME NEW n \in Nat, NEW F, Indexed(F, n), NEW p \in Nat, p <= n, NEW q \in Nat, q = p + 1,
         NEW G, Indexed(G, q), Repeats(G, F, 0, p)
  PROVE  G = Append(SubSeq(F, 1, p), G[q])
<1> DEFINE H == [k \in 1 .. p |-> F[k]]
<1>1. Indexed(H, p) /\ \A k \in 1 .. p : H[k] = F[k]
  BY DEF Indexed
<1> HIDE DEF H
<1>2. \A k \in 1 .. p : 0 + k = k
  OBVIOUS
<1>3. Repeats(H, F, 0, p) /\ Repeats(G, H, 0, p)
  BY <1>1, <1>2 DEF Repeats
<1>4. H = SubSeq(F, 1, p)
  <2>1. 0 \in Nat /\ 0 + p <= n /\ 0 + 1 = 1 /\ 0 + p = p
    OBVIOUS
  <2>2. H = SubSeq(F, 0 + 1, 0 + p)
    BY <1>1, <1>3, <2>1, PartOf
  <2> QED
    BY <2>1, <2>2
<1>5. G = Append(H, G[q])
  BY <1>1, <1>3, LastAdded
<1> QED
  BY <1>4, <1>5

LEMMA TwoOver ==
  ASSUME NEW n \in Nat, NEW F, Indexed(F, n), NEW p \in Nat, p <= n,
         NEW q \in Nat, q = p + 1, NEW r \in Nat, r = q + 1,
         NEW G, Indexed(G, r), Repeats(G, F, 0, p)
  PROVE  G = SubSeq(F, 1, p) \o <<G[q], G[r]>>
<1> DEFINE H == [k \in 1 .. q |-> G[k]]
<1>1. Indexed(H, q) /\ \A k \in 1 .. q : H[k] = G[k]
  BY DEF Indexed
<1> HIDE DEF H
<1>2. (\A k \in 1 .. q : 0 + k = k) /\ (\A k \in 1 .. p : 0 + k = k /\ k \in 1 .. q) /\ q \in 1 .. q
  OBVIOUS
<1>3. Repeats(H, F, 0, p) /\ Repeats(G, H, 0, q)
  BY <1>1, <1>2 DEF Repeats
<1>4. H = Append(SubSeq(F, 1, p), G[q])
  <2>1. H = Append(SubSeq(F, 1, p), H[q])
    BY <1>1, <1>3, OneOver
  <2> QED
    BY <1>1, <1>2, <2>1
<1>5. G = Append(H, G[r])
  BY <1>1, <1>3, LastAdded
<1>6. PICK s, x, y : s = SubSeq(F, 1, p) /\ x = G[q] /\ y = G[r]
  OBVIOUS
<1>7. PICK S : s \in Seq(S) /\ x \in S /\ y \in S
  <2> DEFINE T == {F[k] : k \in 1 .. n} \cup {G[k] : k \in 1 .. r}
  <2>1. (\A k \in 1 .. n : F[k] \in T) /\ (\A k \in 1 .. r : G[k] \in T) /\ q \in 1 .. r /\ r \in 1 .. r
    OBVIOUS
  <2> HIDE DEF T
  <2>2. F \in Seq(T) /\ Len(F) = n
    <3>1. F = [k \in 1 .. n |-> F[k]]
      BY DEF Indexed
    <3> QED
      BY <2>1, <3>1, SeqByPositions
  <2>3. s \in Seq(T)
    <3>1. 1 \in Int /\ p \in Int /\ \A k \in 1 .. p : F[k] \in T
      BY <2>1
    <3> QED
      BY ONLY <1>6, <3>1, SubSeqProperties
  <2> QED
    BY <1>6, <2>1, <2>3
<1>8. Append(Append(s, x), y) = s \o <<x, y>>
  BY ONLY <1>7, SMT
<1> QED
  BY <1>4, <1>5, <1>6, <1>8
=============================================================================
