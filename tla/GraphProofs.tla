---------------------------- MODULE GraphProofs ----------------------------
(***************************************************************************)
(* Heap and collector implement the graph of objects of ObjectGraph.tla,   *)
(* for every program and every place and size of the heap: what the        *)
(* interpreter does to words in memory, the instructions of the graph do   *)
(* to its objects, and a collection, from the first mark to the last       *)
(* memmove, does nothing to them.                                          *)
(***************************************************************************)
EXTENDS CollectorProofs

-----------------------------------------------------------------------------
(***************************************************************************)
(* Numbering the elements of a finite set                                  *)
(***************************************************************************)

(* The elements of a finite set of integers are numbered from 1 on, in     *)
(* their order.                                                            *)
LEMMA RankFacts ==
  ASSUME NEW S \in SUBSET Int, IsFiniteSet(S)
  PROVE  /\ Cardinality(S) \in Nat
         /\ \A p \in S : Rank(S, p) \in 1 .. Cardinality(S)
         /\ \A p, q \in S : p < q => Rank(S, p) < Rank(S, q)
         /\ \A n \in 1 .. Cardinality(S) : \E p \in S : Rank(S, p) = n
<1>1. PICK n : n = Cardinality(S)
  OBVIOUS
<1>2. n \in Nat
  BY <1>1, FS_CardinalityType
<1>3. ASSUME NEW p \in S
      PROVE  Rank(S, p) \in 1 .. n
  <2>1. PICK T : T = {q \in S : q <= p}
    OBVIOUS
  <2>2. T \in SUBSET S /\ p \in T
    BY <2>1
  <2>3. IsFiniteSet(T) /\ Cardinality(T) <= n
    BY <1>1, <2>2, FS_Subset
  <2>4. Cardinality(T) \in Nat /\ Cardinality(T) # 0
    BY <2>2, <2>3, FS_CardinalityType, FS_EmptySet
  <2> QED
    BY <1>2, <2>1, <2>3, <2>4 DEF Rank
<1>4. ASSUME NEW p \in S, NEW q \in S, p < q
      PROVE  Rank(S, p) < Rank(S, q)
  <2>1. PICK T, U : T = {r \in S : r <= p} /\ U = {r \in S : r <= q}
    OBVIOUS
  <2>2. T \in SUBSET U /\ U \in SUBSET S /\ q \in U /\ q \notin T
    <3>1. p \in Int /\ q \in Int /\ \A r \in S : r \in Int
      OBVIOUS
    <3>2. \A r \in S : r <= p => r <= q
      BY <1>4, <3>1
    <3>3. ~(q <= p) /\ q <= q
      BY <1>4, <3>1
    <3> QED
      BY <2>1, <3>2, <3>3
  <2>3. IsFiniteSet(U) /\ IsFiniteSet(T) /\ Cardinality(T) <= Cardinality(U)
    BY <2>2, FS_Subset
  <2>4. Cardinality(T) # Cardinality(U)
    BY <2>2, <2>3, FS_Subset
  <2>5. Cardinality(T) \in Nat /\ Cardinality(U) \in Nat
    BY <2>3, FS_CardinalityType
  <2> QED
    BY <2>1, <2>3, <2>4, <2>5 DEF Rank
<1>5. ASSUME NEW k \in 1 .. n
      PROVE  \E p \in S : Rank(S, p) = k
  <2>1. PICK f : f = [p \in S |-> Rank(S, p)]
    OBVIOUS
  <2>2. f \in [S -> 1 .. n]
    BY <1>3, <2>1
  <2>3. \A p, q \in S : f[p] = f[q] => p = q
    <3>1. ASSUME NEW p \in S, NEW q \in S, p # q
          PROVE  f[p] # f[q]
      <4>1. p < q \/ q < p
        BY <3>1
      <4>2. f[p] \in Int /\ f[q] \in Int
        BY <2>2
      <4> QED
        BY <1>4, <2>1, <4>1, <4>2
    <3> QED
      BY <3>1
  <2>4. f \in Injection(S, 1 .. n)
    BY <2>2, <2>3 DEF Injection, IsInjective
  <2>5. IsFiniteSet(1 .. n) /\ Cardinality(1 .. n) = n
    BY <1>2, FS_Interval
  <2>6. f \in Surjection(S, 1 .. n)
    BY <1>1, <2>4, <2>5, FS_Injection
  <2>7. \E p \in S : f[p] = k
    BY <2>6 DEF Surjection
  <2> QED
    BY <2>1, <2>7
<1> QED
  BY <1>1, <1>2, <1>3, <1>4, <1>5

(* f keeps the order of 1 .. n                                             *)
Rising(f, n) ==
  /\ \A k \in 1 .. n : f[k] \in Int
  /\ \A j, k \in 1 .. n : j < k => f[j] < f[k]

(* R is what f makes of S.                                                 *)
ImageOf(R, f, S) == R = {f[k] : k \in S}

(* f is one to one on S, and its values have in R the numbers that the     *)
(* elements have in S.                                                     *)
SameRanks(R, f, S) ==
  /\ R \in SUBSET Int /\ IsFiniteSet(R) /\ IsFiniteSet(S)
  /\ Cardinality(R) = Cardinality(S)
  /\ \A k \in S : Rank(R, f[k]) = Rank(S, k)
  /\ \A j, k \in S : f[j] = f[k] => j = k

(* What keeps the order keeps the numbers.                                 *)
LEMMA RankKept ==
  ASSUME NEW n \in Nat, NEW f, Rising(f, n), NEW S, S \subseteq 1 .. n,
         NEW R, ImageOf(R, f, S)
  PROVE  SameRanks(R, f, S)
<1>1. \A j, k \in 1 .. n : j # k => f[j] # f[k]
  <2>1. \A j, k \in 1 .. n : j # k => j < k \/ k < j
    OBVIOUS
  <2> QED
    BY <2>1 DEF Rising
<1>2. IsFiniteSet(S)
  <2>1. IsFiniteSet(1 .. n)
    BY FS_Interval
  <2> QED
    BY <2>1, FS_Subset
<1>3. ASSUME NEW T, T \subseteq S, NEW U, U = {f[k] : k \in T}
      PROVE  IsFiniteSet(U) /\ Cardinality(U) = Cardinality(T)
  <2>1. PICK g : g = [k \in T |-> f[k]]
    OBVIOUS
  <2>2. g \in Surjection(T, U)
    BY <1>3, <2>1 DEF Surjection
  <2>3. g \in Injection(T, U)
    <3>1. g \in [T -> U]
      BY <2>2 DEF Surjection
    <3>2. \A j, k \in T : g[j] = g[k] => j = k
      BY <1>1, <1>3, <2>1
    <3> QED
      BY <3>1, <3>2 DEF Injection, IsInjective
  <2>4. IsFiniteSet(T)
    BY <1>2, <1>3, FS_Subset
  <2> QED
    BY <2>2, <2>3, <2>4, FS_Surjection
<1>0. R = {f[k] : k \in S}
  BY DEF ImageOf
<1>4. IsFiniteSet(R) /\ Cardinality(R) = Cardinality(S)
  BY <1>0, <1>3
<1>5. ASSUME NEW k \in S
      PROVE  Rank(R, f[k]) = Rank(S, k)
  <2>1. PICK T, U : T = {j \in S : j <= k} /\ U = {q \in R : q <= f[k]}
    OBVIOUS
  <2>2. \A j \in S : j <= k <=> f[j] <= f[k]
    <3>1. ASSUME NEW j \in S
          PROVE  j <= k <=> f[j] <= f[k]
      <4>1. j \in 1 .. n /\ k \in 1 .. n
        OBVIOUS
      <4>2. f[j] \in Int /\ f[k] \in Int /\ (j < k => f[j] < f[k]) /\ (k < j => f[k] < f[j])
        BY <4>1 DEF Rising
      <4>3. j = k => f[j] = f[k]
        OBVIOUS
      <4> QED
        BY <4>1, <4>2, <4>3
    <3> QED
      BY <3>1
  <2>3. T \subseteq S /\ U = {f[j] : j \in T}
    BY <1>0, <2>1, <2>2
  <2>4. Cardinality(U) = Cardinality(T)
    BY <1>3, <2>3
  <2> QED
    BY <2>1, <2>4 DEF Rank
<1>6. R \in SUBSET Int
  BY <1>0 DEF Rising
<1> QED
  BY <1>1, <1>2, <1>4, <1>5, <1>6 DEF SameRanks

-----------------------------------------------------------------------------
(***************************************************************************)
(* What can be reached in a graph                                          *)
(***************************************************************************)

(* C holds what the values and its own objects lead to                     *)
LeadsIn(objects, values, C) ==
  /\ Abstract!RefsIn(values) \subseteq C
  /\ \A k \in C : Abstract!RefsIn(objects[k].fields) \subseteq C

(* What can be reached from values, as an iteration.                       *)
ReachesFrom(R, objects, values, n) ==
  R = [k \in 0 .. n |->
         IF k = 0 THEN Abstract!RefsIn(values)
         ELSE UNION {{j} \cup Abstract!RefsIn(objects[j].fields) : j \in R[k - 1]}]

(* It is a closed set of objects, and in every other that is closed.       *)
LEMMA ReachableLeads ==
  ASSUME NEW n \in Nat, NEW objects, Len(objects) = n, NEW values,
         NEW C, C \subseteq 1 .. n, LeadsIn(objects, values, C),
         NEW S, S = Abstract!Reachable(objects, values)
  PROVE  S \subseteq C /\ LeadsIn(objects, values, S)
<1>1. PICK A : A = Abstract!RefsIn(values)
  OBVIOUS
<1>2. PICK F : F = [Z \in SUBSET C |-> UNION {{j} \cup Abstract!RefsIn(objects[j].fields) : j \in Z}]
  OBVIOUS
<1>3. \A Z \in SUBSET C : F[Z] = UNION {{j} \cup Abstract!RefsIn(objects[j].fields) : j \in Z}
  BY <1>2
<1>4. A \subseteq C /\ \A k \in C : Abstract!RefsIn(objects[k].fields) \subseteq C
  BY <1>1 DEF LeadsIn
<1>5. IsFiniteSet(C) /\ Cardinality(C) <= n
  <2>1. IsFiniteSet(1 .. n) /\ Cardinality(1 .. n) = n
    BY FS_Interval
  <2> QED
    BY <2>1, FS_Subset
<1>6. WidensIn(F, C)
  <2>1. ASSUME NEW Z \in SUBSET C
        PROVE  F[Z] \in SUBSET C /\ Z \subseteq F[Z]
    BY <1>3, <1>4
  <2> QED
    BY <1>5, <2>1 DEF WidensIn
<1>7. PICK R : Iterates(R, n, A, F)
  BY IteratesExists
<1>8. (\A k \in 0 .. n : A \subseteq R[k] /\ R[k] \subseteq C) /\ F[R[n]] = R[n]
  <2>1. IsFiniteSet(A)
    BY <1>4, <1>5, FS_Subset
  <2>2. Cardinality(A) \in Nat /\ Cardinality(C) \in Nat
    BY <1>5, <2>1, FS_CardinalityType
  <2>3. Cardinality(C) <= Cardinality(A) + n
    BY <1>5, <2>2
  <2>4. A \subseteq C
    BY <1>4
  <2> QED
    BY ONLY n \in Nat, <1>6, <1>7, <2>3, <2>4, IterationSettles
<1>9. /\ 0 \in 0 .. n /\ n \in 0 .. n
      /\ \A k \in 1 .. n : k \in 0 .. n /\ k # 0 /\ k - 1 \in 0 .. n
      /\ \A k \in 0 .. n : k = 0 \/ k \in 1 .. n
  OBVIOUS
<1>10. /\ R[0] = A
       /\ \A k \in 1 .. n : R[k] = UNION {{j} \cup Abstract!RefsIn(objects[j].fields) : j \in R[k - 1]}
  <2>1. R[0] = A /\ \A k \in 1 .. n : R[k] = F[R[k - 1]]
    BY <1>7, <1>9 DEF Iterates
  <2> QED
    BY <1>3, <1>8, <1>9, <2>1
<1>11. ReachesFrom(R, objects, values, n)
  <2>1. R = [k \in 0 .. n |-> R[k]]
    BY <1>7 DEF Iterates
  <2>2. \A k \in 0 .. n :
           R[k] = IF k = 0 THEN Abstract!RefsIn(values)
                  ELSE UNION {{j} \cup Abstract!RefsIn(objects[j].fields) : j \in R[k - 1]}
    BY <1>1, <1>9, <1>10
  <2> QED
    BY <2>1, <2>2 DEF ReachesFrom
<1>12. PICK H : S = H[n] /\ ReachesFrom(H, objects, values, n)
  <2>1. ReachesFrom(CHOOSE H : ReachesFrom(H, objects, values, n), objects, values, n)
    BY <1>11, Zenon
  <2>2. S = (CHOOSE H : ReachesFrom(H, objects, values, n))[n]
    BY Zenon DEF Abstract!Reachable, ReachesFrom
  <2> QED
    BY <2>1, <2>2
<1>13. H[n] = R[n]
  <2>1. /\ H[0] = A
        /\ \A k \in 1 .. n :
             H[k] = UNION {{j} \cup Abstract!RefsIn(objects[j].fields) : j \in H[k - 1]}
    BY <1>1, <1>9, <1>12 DEF ReachesFrom
  <2>2. \A k \in 1 .. n : H[k - 1] = R[k - 1] => H[k] = R[k]
    BY <1>10, <2>1
  <2>3. H[0] = R[0]
    BY <1>10, <2>1
  <2> QED
    BY ONLY n \in Nat, <2>2, <2>3, SameIteration
<1>14. S \in SUBSET C /\ A \subseteq S /\ F[S] = S
  BY <1>8, <1>9, <1>12, <1>13
<1>15. S = UNION {{j} \cup Abstract!RefsIn(objects[j].fields) : j \in S}
  BY <1>3, <1>14
<1> QED
  BY <1>1, <1>14, <1>15 DEF LeadsIn

-----------------------------------------------------------------------------
(***************************************************************************)
(* Graphs and the words they are drawn from                                *)
(***************************************************************************)

(* The word w is the value v, where the objects 1 .. n of the graph have   *)
(* their headers at the offsets `to' from b.                               *)
Shown(v, w, b, to, n) ==
  \/ v.kind = "ref" /\ v.v \in 1 .. n /\ w.kind = "ptr" /\ w = Ptr(b + to[v.v] + 2)
  \/ v.kind = "int" /\ v = w

(* The words are the values, one by one.                                   *)
Drawn(values, words, len, b, to, n) ==
  Indexed(values, len) /\ \A i \in 1 .. len : Shown(values[i], words[i], b, to, n)

(* the content of the object at h: raw words and fields                    *)
Raws(m, h) == RawSize(m[h].kind, m[h].v)
Fields(m, h) == FieldCount(m[h].kind, m[h].v)
RawSeq(m, h) == [i \in 1 .. Raws(m, h) |-> m[h + HeaderWords + i - 1]]
FieldSeq(m, h) == [i \in 1 .. Fields(m, h) |-> m[FirstField(m, h) + i - 1]]

(* The object x of the graph is the one with its header at h.              *)
DrawnObject(x, m, h, b, to, n) ==
  /\ x = [type |-> m[h].kind, raw |-> RawSeq(m, h), fields |-> x.fields]
  /\ Drawn(x.fields, FieldSeq(m, h), Fields(m, h), b, to, n)

(* The objects stand at offsets `at', among those of O.                    *)
Standing(objects, n, m, b, at, O) ==
  /\ n \in Nat /\ Len(objects) = n /\ Indexed(objects, n)
  /\ Rising(at, n) /\ \A k \in 1 .. n : at[k] \in O
  /\ \A k \in 1 .. n : DrawnObject(objects[k], m, at[k], b, at, n)

(* The fields of an object are the words of its sequence of fields.        *)
LEMMA FieldSeqWords ==
  ASSUME NEW m, NEW h \in Nat, ObjectAt(m, h)
  PROVE  /\ Fields(m, h) \in Nat
         /\ \A i \in 1 .. Fields(m, h) : /\ FirstField(m, h) + i - 1 \in FieldsAt(m, h)
                                         /\ FieldSeq(m, h)[i] = m[FirstField(m, h) + i - 1]
         /\ \A o \in FieldsAt(m, h) : \E i \in 1 .. Fields(m, h) :
              o = FirstField(m, h) + i - 1 /\ m[o] = FieldSeq(m, h)[i]
<1>1. PICK f, c, next : f = FirstField(m, h) /\ c = Fields(m, h) /\ next = NextObject(m, h)
  OBVIOUS
<1>2. f \in Nat /\ next \in Nat /\ c \in Nat /\ next = f + c
  <2>1. PICK r : r = Raws(m, h)
    OBVIOUS
  <2>2. c \in Nat
    BY <1>1, SizeFacts DEF ObjectAt, Fields
  <2>3. r \in Nat /\ f \in Nat /\ f = h + 2 + r /\ next = h + SizeAt(m, h) /\ SizeAt(m, h) = 2 + r + c
    BY <1>1, <2>1, ObjectSize DEF Raws, Fields
  <2> QED
    BY <2>2, <2>3
<1>3. FieldsAt(m, h) = f .. next - 1
  BY <1>1 DEF FieldsAt
<1>4. FieldSeq(m, h) = [i \in 1 .. c |-> m[f + i - 1]]
  BY <1>1 DEF FieldSeq
<1>5. ASSUME NEW i \in 1 .. c
      PROVE  f + i - 1 \in f .. next - 1 /\ FieldSeq(m, h)[i] = m[f + i - 1]
  BY <1>2, <1>4
<1>6. ASSUME NEW o \in f .. next - 1
      PROVE  \E i \in 1 .. c : o = f + i - 1 /\ m[o] = FieldSeq(m, h)[i]
  <2>1. PICK i : i = o - f + 1
    OBVIOUS
  <2>2. i \in 1 .. c /\ o = f + i - 1
    BY <1>2, <2>1
  <2> QED
    BY <1>4, <2>2
<1> QED
  BY <1>1, <1>2, <1>3, <1>5, <1>6

(* The graph's numbers are those of the model of the heap.                 *)
LEMMA SameNumbers ==
  ASSUME NEW S
  PROVE  /\ Abstract!Cardinality(S) = Cardinality(S)
         /\ \A k : Abstract!Rank(S, k) = Rank(S, k)
<1>1. \A T : Abstract!Cardinality(T) = Cardinality(T)
  BY Zenon DEF Cardinality, Abstract!Cardinality
<1> QED
  BY <1>1 DEF Rank, Abstract!Rank

(* The references among values are those that stand there.                 *)
LEMMA RefsInValues ==
  ASSUME NEW values, NEW len \in Nat, Indexed(values, len)
  PROVE  Abstract!RefsIn(values) = {values[i].v : i \in {j \in 1 .. len : values[j].kind = "ref"}}
<1>1. DOMAIN values = 1 .. len
  BY DEF Indexed
<1> QED
  BY <1>1 DEF Abstract!RefsIn, Abstract!ToSet

(* Words that are drawn as values lead where the values do,                *)
LEMMA ValuesLead ==
  ASSUME NEW values, NEW words, NEW len \in Nat, NEW b \in Int, NEW to, NEW n \in Nat,
         Drawn(values, words, len, b, to, n), \A k \in 1 .. n : to[k] \in Int,
         NEW C, Abstract!RefsIn(values) \subseteq C,
         NEW O, \A i \in 1 .. len : words[i] \in Refs(b, O),
         NEW D, ImageOf(D, to, C)
  PROVE  \A i \in 1 .. len : words[i] \in Refs(b, D)
<1> SUFFICES ASSUME NEW i \in 1 .. len
             PROVE  words[i] \in Refs(b, D)
  OBVIOUS
<1>1. PICK v, w : v = values[i] /\ w = words[i]
  OBVIOUS
<1>2. Shown(v, w, b, to, n) /\ w \in Refs(b, O) /\ Indexed(values, len)
  BY <1>1 DEF Drawn
<1>3. CASE w.kind # "ptr"
  BY <1>1, <1>2, <1>3, RefFacts
<1>4. CASE w.kind = "ptr"
  <2>1. v.kind = "ref" /\ v.v \in 1 .. n /\ w = Ptr(b + to[v.v] + 2)
    BY <1>2, <1>4 DEF Shown
  <2>2. PICK k \in 1 .. n : k = v.v
    BY <2>1
  <2>3. k \in C
    BY <1>1, <1>2, <2>1, <2>2, RefsInValues
  <2>4. to[k] \in D /\ to[k] \in Int /\ w.v = b + to[k] + 2
    BY <2>1, <2>2, <2>3 DEF Ptr, ImageOf
  <2>5. w.v - b - 2 = to[k]
    BY <2>4
  <2>6. w \in Refs(b, D)
    BY <1>2, <2>4, <2>5, RefFacts
  <2> QED
    BY <1>1, <2>6
<1> QED
  BY <1>3, <1>4

(* and values that are drawn of words lead where the words do.             *)
LEMMA WordsLead ==
  ASSUME NEW values, NEW words, NEW len \in Nat, NEW b \in Int, NEW to, NEW n \in Nat,
         Drawn(values, words, len, b, to, n), \A k \in 1 .. n : to[k] \in Int,
         NEW D, \A i \in 1 .. len : words[i] \in Refs(b, D)
  PROVE  Abstract!RefsIn(values) \subseteq {k \in 1 .. n : to[k] \in D}
<1>1. ASSUME NEW i \in 1 .. len, values[i].kind = "ref"
      PROVE  values[i].v \in {k \in 1 .. n : to[k] \in D}
  <2>1. PICK v, w : v = values[i] /\ w = words[i]
    OBVIOUS
  <2>2. Shown(v, w, b, to, n) /\ w \in Refs(b, D) /\ v.kind = "ref"
    BY <1>1, <2>1 DEF Drawn
  <2>3. v.v \in 1 .. n /\ w.kind = "ptr" /\ w = Ptr(b + to[v.v] + 2)
    BY <2>2 DEF Shown
  <2>4. w.v = b + to[v.v] + 2 /\ to[v.v] \in Int
    BY <2>3 DEF Ptr
  <2>5. w.v - b - 2 \in D
    BY <2>2, <2>3, RefFacts
  <2> QED
    BY <2>1, <2>3, <2>4, <2>5
<1> QED
  BY <1>1, RefsInValues DEF Drawn

(* R is where the contents of the objects S are.                           *)
Contents(R, b, to, S) == R = {b + to[k] + 2 : k \in S}

(* A reference leads to an object of S.                                    *)
RefIn(v, S) == v.kind = "ref" => v.v \in S

(* The word w, in the graph of the objects with contents at R, is the      *)
(* value v, in the graph of the objects S.                                 *)
SameValue(R, w, S, v) ==
  ValueIn(R, w) = IF v.kind = "ref" THEN Abstract!Ref(Abstract!Rank(S, v.v)) ELSE v

(* Numbered anew, a value is the word in the graph of the objects kept.    *)
LEMMA ValueRenamed ==
  ASSUME NEW v, NEW w, NEW b \in Int, NEW to, NEW n \in Nat, Rising(to, n), Shown(v, w, b, to, n),
         NEW S, S \subseteq 1 .. n, RefIn(v, S), NEW R, Contents(R, b, to, S)
  PROVE  SameValue(R, w, S, v)
<1>0. R = {b + to[k] + 2 : k \in S}
  BY DEF Contents
<1>1. CASE v.kind = "ref"
  <2>1. PICK k : k = v.v
    OBVIOUS
  <2>2. k \in S /\ w.kind = "ptr" /\ w = Ptr(b + to[k] + 2)
    BY <1>1, <2>1 DEF Shown, RefIn
  <2>3. w.v = b + to[k] + 2
    BY <2>2 DEF Ptr
  <2>4. w.v \in R
    BY <1>0, <2>2, <2>3
  <2>5. PICK f : f = [j \in 1 .. n |-> b + to[j] + 2]
    OBVIOUS
  <2>6. Rising(f, n)
    BY <2>5 DEF Rising
  <2>7. R = {f[j] : j \in S} /\ f[k] = w.v
    BY <1>0, <2>2, <2>3, <2>5
  <2>8. Rank(R, w.v) = Rank(S, k)
    <3>1. ImageOf(R, f, S) /\ S \subseteq 1 .. n
      BY <2>7 DEF ImageOf
    <3>2. SameRanks(R, f, S)
      BY ONLY n \in Nat, <2>6, <3>1, RankKept
    <3> QED
      BY <2>2, <2>7, <3>2 DEF SameRanks
  <2>9. Rank(S, k) = Abstract!Rank(S, k)
    BY SameNumbers
  <2>10. ValueIn(R, w) = [kind |-> "ref", v |-> Rank(R, w.v)]
    BY <2>2, <2>4 DEF ValueIn
  <2>11. ValueIn(R, w) = Abstract!Ref(Abstract!Rank(S, k))
    BY <2>8, <2>9, <2>10 DEF Abstract!Ref
  <2> QED
    BY <1>1, <2>1, <2>11 DEF SameValue
<1>2. CASE v.kind # "ref"
  <2>1. v = w /\ w.kind # "ptr"
    BY <1>2 DEF Shown
  <2> QED
    BY <1>2, <2>1 DEF ValueIn, SameValue
<1> QED
  BY <1>1, <1>2

(* The graph and the words s are one, where the heap has the objects O.    *)
Depicts(objects, values, n, m, b, s, at, O) ==
  Standing(objects, n, m, b, at, O) /\ Drawn(values, s, Len(s), b, at, n)

(* the words of a heap whose references lead to its objects O              *)
Sound(m, b, s, O) ==
  /\ b \in Nat /\ s \in Seq(Refs(b, O)) /\ FieldsIn(m, O, Refs(b, O))
  /\ \A h \in O : h \in Nat /\ ObjectAt(m, h)

(* The elements of a stack, as a set.                                      *)
LEMMA SeqElements ==
  ASSUME NEW S, NEW s \in Seq(S)
  PROVE  /\ Len(s) \in Nat /\ DOMAIN s = 1 .. Len(s)
         /\ ToSet(s) = {s[i] : i \in 1 .. Len(s)}
         /\ \A i \in 1 .. Len(s) : s[i] \in S
<1>1. Len(s) \in Nat /\ DOMAIN s = 1 .. Len(s) /\ \A i \in 1 .. Len(s) : s[i] \in S
  BY LenProperties, ElementOfSeq
<1> QED
  BY <1>1 DEF ToSet

(* What is closed in the graph is closed in the heap.                      *)
LEMMA LeadsEncloses ==
  ASSUME NEW objects, NEW values, NEW n, NEW m, NEW b, NEW s, NEW at, NEW O, NEW C, NEW D,
         Depicts(objects, values, n, m, b, s, at, O), Sound(m, b, s, O),
         C \subseteq 1 .. n, LeadsIn(objects, values, C), ImageOf(D, at, C)
  PROVE  D \subseteq O /\ Encloses(m, b, ToSet(s), D)
<1>1. /\ n \in Nat /\ b \in Int /\ Rising(at, n) /\ \A k \in 1 .. n : at[k] \in O /\ at[k] \in Int
      /\ Drawn(values, s, Len(s), b, at, n)
      /\ \A k \in 1 .. n : DrawnObject(objects[k], m, at[k], b, at, n)
      /\ s \in Seq(Refs(b, O)) /\ FieldsIn(m, O, Refs(b, O))
      /\ \A h \in O : h \in Nat /\ ObjectAt(m, h)
  BY DEF Depicts, Standing, Sound, Rising
<1>2. Len(s) \in Nat /\ ToSet(s) = {s[i] : i \in 1 .. Len(s)} /\ \A i \in 1 .. Len(s) : s[i] \in Refs(b, O)
  BY <1>1, SeqElements
<1>3. D = {at[k] : k \in C} /\ D \subseteq O
  BY <1>1 DEF ImageOf
<1>4. ToSet(s) \subseteq Refs(b, D)
  <2>1. PICK len : len = Len(s)
    OBVIOUS
  <2>2. /\ len \in Nat /\ Drawn(values, s, len, b, at, n) /\ \A k \in 1 .. n : at[k] \in Int
        /\ Abstract!RefsIn(values) \subseteq C /\ \A i \in 1 .. len : s[i] \in Refs(b, O)
    BY <1>1, <1>2, <2>1 DEF LeadsIn
  <2>3. \A i \in 1 .. len : s[i] \in Refs(b, D)
    BY ONLY <1>1, <2>2, ImageOf(D, at, C), ValuesLead
  <2> QED
    BY <1>2, <2>1, <2>3
<1>5. ASSUME NEW h \in D
      PROVE  \A o \in FieldsAt(m, h) : m[o] \in Refs(b, D)
  <2>1. PICK k \in C : h = at[k]
    BY <1>3
  <2>2. h \in O /\ h \in Nat /\ ObjectAt(m, h)
    BY <1>1, <2>1
  <2>3. PICK x, words, len : x = objects[k].fields /\ words = FieldSeq(m, h) /\ len = Fields(m, h)
    OBVIOUS
  <2>4. /\ len \in Nat
        /\ \A i \in 1 .. len : FirstField(m, h) + i - 1 \in FieldsAt(m, h) /\ words[i] = m[FirstField(m, h) + i - 1]
        /\ \A o \in FieldsAt(m, h) : \E i \in 1 .. len : m[o] = words[i]
    BY <2>2, <2>3, FieldSeqWords
  <2>5. /\ Drawn(x, words, len, b, at, n) /\ \A j \in 1 .. n : at[j] \in Int
        /\ Abstract!RefsIn(x) \subseteq C /\ \A i \in 1 .. len : words[i] \in Refs(b, O)
    BY <1>1, <2>1, <2>2, <2>3, <2>4 DEF LeadsIn, DrawnObject, FieldsIn
  <2>6. \A i \in 1 .. len : words[i] \in Refs(b, D)
    BY ONLY <1>1, <2>4, <2>5, ImageOf(D, at, C), ValuesLead
  <2> QED
    BY <2>4, <2>6
<1> QED
  BY <1>3, <1>4, <1>5 DEF Encloses, FieldsIn

(* and what is closed in the heap is closed in the graph.                  *)
LEMMA EnclosesLeads ==
  ASSUME NEW objects, NEW values, NEW n, NEW m, NEW b, NEW s, NEW at, NEW O, NEW D,
         Depicts(objects, values, n, m, b, s, at, O), Sound(m, b, s, O),
         D \subseteq O, Encloses(m, b, ToSet(s), D)
  PROVE  LeadsIn(objects, values, {k \in 1 .. n : at[k] \in D})
<1>1. /\ n \in Nat /\ b \in Int /\ Rising(at, n) /\ \A k \in 1 .. n : at[k] \in O /\ at[k] \in Int
      /\ Drawn(values, s, Len(s), b, at, n)
      /\ \A k \in 1 .. n : DrawnObject(objects[k], m, at[k], b, at, n)
      /\ s \in Seq(Refs(b, O))
      /\ \A h \in O : h \in Nat /\ ObjectAt(m, h)
  BY DEF Depicts, Standing, Sound, Rising
<1>2. Len(s) \in Nat /\ ToSet(s) = {s[i] : i \in 1 .. Len(s)}
  BY <1>1, SeqElements
<1>3. ToSet(s) \subseteq Refs(b, D) /\ FieldsIn(m, D, Refs(b, D))
  BY DEF Encloses
<1>4. PICK C : C = {k \in 1 .. n : at[k] \in D}
  OBVIOUS
<1>5. Abstract!RefsIn(values) \subseteq C
  <2>1. PICK len : len = Len(s)
    OBVIOUS
  <2>2. /\ len \in Nat /\ Drawn(values, s, len, b, at, n) /\ \A k \in 1 .. n : at[k] \in Int
        /\ \A i \in 1 .. len : s[i] \in Refs(b, D)
    BY <1>1, <1>2, <1>3, <2>1
  <2> QED
    BY <1>1, <1>4, <2>2, WordsLead
<1>6. ASSUME NEW k \in C
      PROVE  Abstract!RefsIn(objects[k].fields) \subseteq C
  <2>1. PICK h : h = at[k]
    OBVIOUS
  <2>2. h \in D /\ h \in O /\ h \in Nat /\ ObjectAt(m, h) /\ k \in 1 .. n
    BY <1>1, <1>4, <2>1
  <2>3. PICK x, words, len : x = objects[k].fields /\ words = FieldSeq(m, h) /\ len = Fields(m, h)
    OBVIOUS
  <2>4. /\ len \in Nat
        /\ \A i \in 1 .. len : FirstField(m, h) + i - 1 \in FieldsAt(m, h) /\ words[i] = m[FirstField(m, h) + i - 1]
    BY <2>2, <2>3, FieldSeqWords
  <2>5. /\ Drawn(x, words, len, b, at, n) /\ \A j \in 1 .. n : at[j] \in Int
        /\ \A i \in 1 .. len : words[i] \in Refs(b, D)
    BY <1>1, <1>3, <2>1, <2>2, <2>3, <2>4 DEF DrawnObject, FieldsIn
  <2>6. Abstract!RefsIn(x) \subseteq C
    BY <1>1, <1>4, <2>4, <2>5, WordsLead
  <2> QED
    BY <2>3, <2>6
<1> QED
  BY <1>4, <1>5, <1>6 DEF LeadsIn

(* The graph has the same objects reachable as the heap.                   *)
LEMMA ReachDrawn ==
  ASSUME NEW hp, NEW b, NEW m, NEW O, Stocked(hp, b, m, O), NEW s, Sound(m, b, s, O),
         NEW N \in Nat, Cardinality(O) <= N, NEW n, NEW objects, NEW values, NEW at,
         Depicts(objects, values, n, m, b, s, at, O),
         NEW S, S = Abstract!Reachable(objects, values)
  PROVE  /\ S \subseteq 1 .. n /\ LeadsIn(objects, values, S)
         /\ Reach(hp, m, ToSet(s), N) = {b + at[k] + 2 : k \in S}
<1>1. n \in Nat /\ Len(objects) = n /\ \A k \in 1 .. n : at[k] \in O /\ at[k] \in Int
  BY DEF Depicts, Standing, Rising
<1>2. PICK W : W = ToSet(s)
  OBVIOUS
<1>3. Encloses(m, b, W, O)
  <2>1. s \in Seq(Refs(b, O)) /\ FieldsIn(m, O, Refs(b, O))
    BY DEF Sound
  <2>2. ToSet(s) = {s[i] : i \in 1 .. Len(s)} /\ \A i \in 1 .. Len(s) : s[i] \in Refs(b, O)
    BY <2>1, SeqElements
  <2> QED
    BY <1>2, <2>1, <2>2 DEF Encloses
<1>4. PICK A : A = 1 .. n
  OBVIOUS
<1>5. LeadsIn(objects, values, A)
  <2>1. O \subseteq O
    OBVIOUS
  <2>2. LeadsIn(objects, values, {k \in 1 .. n : at[k] \in O})
    BY <1>2, <1>3, <2>1, EnclosesLeads
  <2>3. {k \in 1 .. n : at[k] \in O} = A
    BY <1>1, <1>4
  <2> QED
    BY <2>2, <2>3
<1>6. S \subseteq A /\ LeadsIn(objects, values, S)
  BY <1>1, <1>4, <1>5, ReachableLeads
<1>7. PICK M : ImageOf(M, at, S)
  BY DEF ImageOf
<1>8. M \subseteq O /\ Encloses(m, b, W, M)
  BY <1>2, <1>4, <1>6, <1>7, LeadsEncloses
<1>9. PICK D : /\ D \subseteq M /\ Encloses(m, b, W, D)
               /\ Reach(hp, m, W, N) = {b + h + 2 : h \in D}
  BY <1>8, ReachEncloses
<1>10. PICK C : C = {k \in 1 .. n : at[k] \in D}
  OBVIOUS
<1>11. LeadsIn(objects, values, C)
  <2>1. D \subseteq O
    BY <1>8, <1>9
  <2> QED
    BY <1>2, <1>9, <1>10, <2>1, EnclosesLeads
<1>12. C \subseteq 1 .. n
  BY <1>10
<1>13. S \subseteq C
  BY <1>1, <1>11, <1>12, ReachableLeads
<1>14. D = {at[k] : k \in S}
  BY <1>7, <1>9, <1>10, <1>13 DEF ImageOf
<1>15. {b + h + 2 : h \in D} = {b + at[k] + 2 : k \in S}
  BY <1>14
<1> QED
  BY <1>2, <1>4, <1>6, <1>9, <1>15

(* the graph without all objects but those of S                            *)
TrimTo(objects, values, S) ==
  [ objs |-> [k \in 1 .. Abstract!Cardinality(S) |->
                [objects[CHOOSE j \in S : Abstract!Rank(S, j) = k]
                   EXCEPT !.fields = Abstract!Renamed(S, @)]],
    operands |-> Abstract!Renamed(S, values) ]

(* the graph of the objects with contents at R                             *)
DrawnFrom(b, m, words, R) ==
  [ objs |-> [k \in 1 .. Cardinality(R) |->
                ObjectIn(R, m, (CHOOSE p \in R : Rank(R, p) = k) - b - HeaderWords)],
    operands |-> [i \in DOMAIN words |-> ValueIn(R, words[i])] ]

(* Trim keeps the objects that can be reached,                             *)
LEMMA TrimIs ==
  ASSUME NEW objects, NEW values
  PROVE  Abstract!Trim(objects, values) = TrimTo(objects, values, Abstract!Reachable(objects, values))
  BY Zenon DEF Abstract!Trim, TrimTo

(* and GraphOf draws those whose contents can be.                          *)
LEMMA GraphIs ==
  ASSUME NEW hp, NEW m, NEW s, NEW N
  PROVE  GraphOf(hp, m, s, N) = DrawnFrom(hp.begin, m, s, Reach(hp, m, ToSet(s), N))
  BY Zenon DEF GraphOf, DrawnFrom

(* Without its garbage the graph is the one that the model of the heap     *)
(* draws.                                                                  *)
LEMMA TrimDraws ==
  ASSUME NEW hp, NEW b, NEW m, NEW O, Stocked(hp, b, m, O), NEW s, Sound(m, b, s, O),
         NEW N \in Nat, Cardinality(O) <= N, NEW n, NEW objects, NEW values, NEW at,
         Depicts(objects, values, n, m, b, s, at, O)
  PROVE  Abstract!Trim(objects, values) = GraphOf(hp, m, s, N)
<1>1. /\ n \in Nat /\ Len(objects) = n /\ Rising(at, n) /\ \A k \in 1 .. n : at[k] \in O /\ at[k] \in Int
      /\ b \in Int /\ Drawn(values, s, Len(s), b, at, n)
      /\ \A k \in 1 .. n : DrawnObject(objects[k], m, at[k], b, at, n)
      /\ s \in Seq(Refs(b, O)) /\ Indexed(objects, n)
      /\ \A h \in O : h \in Nat /\ ObjectAt(m, h)
  BY DEF Depicts, Standing, Sound, Rising
<1>2. PICK S : S = Abstract!Reachable(objects, values)
  OBVIOUS
<1>3. /\ S \subseteq 1 .. n /\ LeadsIn(objects, values, S)
      /\ Reach(hp, m, ToSet(s), N) = {b + at[k] + 2 : k \in S}
  BY <1>2, ReachDrawn
<1>4. PICK R : R = {b + at[k] + 2 : k \in S} /\ Contents(R, b, at, S)
  BY DEF Contents
<1>5. PICK f : f = [k \in 1 .. n |-> b + at[k] + 2]
  OBVIOUS
<1>6. /\ R \in SUBSET Int /\ IsFiniteSet(R) /\ IsFiniteSet(S)
      /\ Cardinality(R) = Cardinality(S)
      /\ \A k \in S : Rank(R, f[k]) = Rank(S, k)
      /\ \A k \in S : f[k] = b + at[k] + 2 /\ f[k] \in R
      /\ \A p \in R : \E k \in S : p = f[k]
  <2>1. Rising(f, n)
    BY <1>1, <1>5 DEF Rising
  <2>2. ImageOf(R, f, S) /\ \A k \in S : f[k] = b + at[k] + 2
    BY <1>3, <1>4, <1>5 DEF ImageOf
  <2>3. SameRanks(R, f, S)
    BY <1>1, <1>3, <2>1, <2>2, RankKept
  <2> QED
    BY <2>2, <2>3 DEF SameRanks, ImageOf
<1>7. PICK c \in Nat : c = Cardinality(S)
  BY <1>6, FS_CardinalityType
<1>8. /\ \A k \in 1 .. c : \E j \in S : Rank(S, j) = k
      /\ \A i, j \in S : Rank(S, i) = Rank(S, j) => i = j
  <2>1. S \in SUBSET Int
    BY <1>3
  <2>2. /\ \A i \in S : Rank(S, i) \in 1 .. c
        /\ \A i, j \in S : i < j => Rank(S, i) < Rank(S, j)
        /\ \A k \in 1 .. c : \E j \in S : Rank(S, j) = k
    BY <1>6, <1>7, <2>1, RankFacts
  <2>3. ASSUME NEW i \in S, NEW j \in S, i # j
        PROVE  Rank(S, i) # Rank(S, j)
    <3>1. i < j \/ j < i
      BY <2>1, <2>3
    <3> QED
      BY <2>2, <3>1
  <2> QED
    BY <2>2, <2>3
<1>9. ASSUME NEW x, NEW words, NEW len \in Nat, Drawn(x, words, len, b, at, n),
             Abstract!RefsIn(x) \subseteq S
      PROVE  Abstract!Renamed(S, x) = [i \in 1 .. len |-> ValueIn(R, words[i])]
  <2>1. DOMAIN x = 1 .. len /\ Indexed(x, len)
    BY <1>9 DEF Drawn, Indexed
  <2>2. ASSUME NEW i \in 1 .. len
        PROVE  ValueIn(R, words[i])
                 = IF x[i].kind = "ref" THEN Abstract!Ref(Abstract!Rank(S, x[i].v)) ELSE x[i]
    <3>1. PICK v, w : v = x[i] /\ w = words[i]
      OBVIOUS
    <3>2. Shown(v, w, b, at, n)
      BY <1>9, <3>1 DEF Drawn
    <3>3. RefIn(v, S)
      BY <1>9, <2>1, <3>1, RefsInValues DEF RefIn
    <3>4. SameValue(R, w, S, v)
      <4>1. b \in Int /\ n \in Nat /\ Rising(at, n) /\ S \subseteq 1 .. n /\ Contents(R, b, at, S)
        BY <1>1, <1>3, <1>4
      <4> QED
        BY ONLY <3>2, <3>3, <4>1, ValueRenamed
    <3> QED
      BY <3>1, <3>4 DEF SameValue
  <2> QED
    BY <2>1, <2>2 DEF Abstract!Renamed
<1>10. Abstract!Renamed(S, values) = [i \in DOMAIN s |-> ValueIn(R, s[i])]
  <2>1. Len(s) \in Nat /\ DOMAIN s = 1 .. Len(s)
    BY <1>1, SeqElements
  <2>2. Abstract!RefsIn(values) \subseteq S
    BY <1>3 DEF LeadsIn
  <2> QED
    BY <1>1, <1>9, <2>1, <2>2
<1>11. ASSUME NEW k \in S
       PROVE  [objects[k] EXCEPT !.fields = Abstract!Renamed(S, @)] = ObjectIn(R, m, at[k])
  <2>1. PICK h, x, y : h = at[k] /\ x = objects[k] /\ y = x.fields
    OBVIOUS
  <2>2. h \in Nat /\ ObjectAt(m, h) /\ DrawnObject(x, m, h, b, at, n)
    BY <1>1, <1>3, <2>1
  <2>3. /\ x = [type |-> m[h].kind, raw |-> RawSeq(m, h), fields |-> y]
        /\ Drawn(y, FieldSeq(m, h), Fields(m, h), b, at, n)
    BY <2>1, <2>2 DEF DrawnObject
  <2>4. Abstract!RefsIn(y) \subseteq S
    BY <1>3, <2>1 DEF LeadsIn
  <2>5. /\ Fields(m, h) \in Nat
        /\ \A i \in 1 .. Fields(m, h) : FieldSeq(m, h)[i] = m[FirstField(m, h) + i - 1]
    BY <2>2, FieldSeqWords
  <2>6. Abstract!Renamed(S, y) = [i \in 1 .. Fields(m, h) |-> ValueIn(R, FieldSeq(m, h)[i])]
    BY <1>9, <2>3, <2>4, <2>5
  <2>7. Abstract!Renamed(S, y)
          = [i \in 1 .. Fields(m, h) |-> ValueIn(R, m[FirstField(m, h) + i - 1])]
    BY <2>5, <2>6
  <2>8. [x EXCEPT !.fields = Abstract!Renamed(S, @)]
          = [type |-> m[h].kind, raw |-> RawSeq(m, h), fields |-> Abstract!Renamed(S, y)]
    BY <2>3
  <2>9. ObjectIn(R, m, h)
          = [type |-> m[h].kind, raw |-> RawSeq(m, h), fields |-> Abstract!Renamed(S, y)]
    BY <2>7 DEF ObjectIn, RawSeq, Raws, Fields
  <2> QED
    BY <2>1, <2>8, <2>9
<1>12. ASSUME NEW k \in 1 .. c
       PROVE  [objects[CHOOSE j \in S : Abstract!Rank(S, j) = k] EXCEPT !.fields = Abstract!Renamed(S, @)]
                = ObjectIn(R, m, (CHOOSE p \in R : Rank(R, p) = k) - b - HeaderWords)
  <2>1. PICK j \in S : Rank(S, j) = k
    BY <1>8
  <2>2. (CHOOSE i \in S : Abstract!Rank(S, i) = k) = j
    <3>1. \A i \in S : Abstract!Rank(S, i) = k <=> i = j
      BY <1>8, <2>1, SameNumbers
    <3> QED
      BY <3>1
  <2>3. (CHOOSE p \in R : Rank(R, p) = k) = f[j]
    <3>1. \A p \in R : Rank(R, p) = k <=> p = f[j]
      BY <1>6, <1>8, <2>1
    <3>2. f[j] \in R
      BY <1>6
    <3> QED
      BY <3>1, <3>2
  <2>4. f[j] - b - HeaderWords = at[j]
    <3>1. at[j] \in Int /\ f[j] = b + at[j] + 2
      BY <1>1, <1>3, <1>6
    <3> QED
      BY <1>1, <3>1 DEF HeaderWords
  <2> QED
    BY <1>11, <2>2, <2>3, <2>4
<1>13. Abstract!Trim(objects, values) = TrimTo(objects, values, S)
  BY <1>2, TrimIs
<1>14. GraphOf(hp, m, s, N) = DrawnFrom(b, m, s, R)
  <2>1. Reach(hp, m, ToSet(s), N) = R /\ hp.begin = b
    BY <1>3, <1>4 DEF Stocked
  <2> QED
    BY <2>1, GraphIs
<1>15. TrimTo(objects, values, S).objs = DrawnFrom(b, m, s, R).objs
  <2>1. Abstract!Cardinality(S) = c /\ Cardinality(R) = c
    BY <1>6, <1>7, SameNumbers
  <2> DEFINE X(k) == [objects[CHOOSE j \in S : Abstract!Rank(S, j) = k]
                         EXCEPT !.fields = Abstract!Renamed(S, @)]
             Y(k) == ObjectIn(R, m, (CHOOSE p \in R : Rank(R, p) = k) - b - HeaderWords)
  <2>2. TrimTo(objects, values, S).objs = [k \in 1 .. c |-> X(k)]
    BY <2>1, Zenon DEF TrimTo
  <2>3. DrawnFrom(b, m, s, R).objs = [k \in 1 .. c |-> Y(k)]
    BY <2>1, Zenon DEF DrawnFrom
  <2>4. \A k \in 1 .. c : X(k) = Y(k)
    BY <1>12
  <2> HIDE DEF X, Y
  <2> QED
    BY <2>2, <2>3, <2>4
<1>16. TrimTo(objects, values, S) = DrawnFrom(b, m, s, R)
  BY <1>10, <1>15, Zenon DEF TrimTo, DrawnFrom
<1> QED
  BY <1>13, <1>14, <1>16

(* The graph that is drawn is that of the heap, and has no garbage: its    *)
(* objects are in every set that is closed.                                *)
LEMMA GraphDrawn ==
  ASSUME NEW hp, NEW b, NEW m, NEW O, Stocked(hp, b, m, O), NEW s, Sound(m, b, s, O),
         NEW N \in Nat, Cardinality(O) <= N, NEW g, g = GraphOf(hp, m, s, N)
  PROVE  \E n, at :
           /\ Depicts(g.objs, g.operands, n, m, b, s, at, O)
           /\ \A C \in SUBSET O : Encloses(m, b, ToSet(s), C) => \A k \in 1 .. n : at[k] \in C
<1>1. /\ b \in Int /\ s \in Seq(Refs(b, O)) /\ FieldsIn(m, O, Refs(b, O))
      /\ \A h \in O : h \in Nat /\ ObjectAt(m, h)
      /\ hp.begin = b
  BY DEF Sound, Stocked
<1>2. PICK W : W = ToSet(s)
  OBVIOUS
<1>3. /\ Len(s) \in Nat /\ DOMAIN s = 1 .. Len(s)
      /\ W = {s[i] : i \in 1 .. Len(s)} /\ \A i \in 1 .. Len(s) : s[i] \in Refs(b, O)
  BY <1>1, <1>2, SeqElements
<1>4. O \subseteq O /\ Encloses(m, b, W, O)
  BY <1>1, <1>3 DEF Encloses
<1>5. PICK D : D \subseteq O /\ Encloses(m, b, W, D) /\ Reach(hp, m, W, N) = {b + h + 2 : h \in D}
  BY <1>4, ReachEncloses
<1>6. PICK R : R = {b + h + 2 : h \in D}
  OBVIOUS
<1>7. g = DrawnFrom(b, m, s, R)
  BY <1>1, <1>2, <1>5, <1>6, GraphIs
<1>8. R \in SUBSET Int /\ IsFiniteSet(R)
  <2>1. R \in SUBSET Int
    BY <1>1, <1>5, <1>6
  <2>2. IsFiniteSet(D)
    <3>1. IsFiniteSet(O)
      <4>1. hp.used \in Nat /\ Tiles(m, O, 0, hp.used)
        BY DEF Stocked
      <4> QED
        BY <4>1, TilesFinite
    <3> QED
      BY <1>5, <3>1, FS_Subset
  <2>3. PICK f : f = [h \in D |-> b + h + 2]
    OBVIOUS
  <2>4. f \in Surjection(D, R)
    BY <1>6, <2>3 DEF Surjection
  <2> QED
    BY <2>1, <2>2, <2>4, FS_Surjection
<1>9. PICK n : n = Cardinality(R)
  OBVIOUS
<1>10. /\ n \in Nat
       /\ \A p \in R : Rank(R, p) \in 1 .. n
       /\ \A p, q \in R : p < q => Rank(R, p) < Rank(R, q)
       /\ \A k \in 1 .. n : \E p \in R : Rank(R, p) = k
  BY <1>8, <1>9, RankFacts
<1>11. PICK at : at = [k \in 1 .. n |-> (CHOOSE p \in R : Rank(R, p) = k) - b - HeaderWords]
  OBVIOUS
<1>12. ASSUME NEW k \in 1 .. n
       PROVE  at[k] \in D /\ at[k] \in Int /\ b + at[k] + 2 \in R /\ Rank(R, b + at[k] + 2) = k
  <2>1. PICK p : p = CHOOSE q \in R : Rank(R, q) = k
    OBVIOUS
  <2>2. p \in R /\ Rank(R, p) = k
    BY <1>10, <2>1
  <2>3. PICK h \in D : p = b + h + 2
    BY <1>6, <2>2
  <2>4. at[k] = h
    <3>1. at[k] = p - b - 2
      BY <1>11, <2>1 DEF HeaderWords
    <3>2. h \in Int
      BY <1>1, <1>5
    <3> QED
      BY <1>1, <2>3, <3>1, <3>2
  <2> QED
    BY <1>1, <1>5, <2>2, <2>3, <2>4
<1>13. \A p, q \in R : Rank(R, p) = Rank(R, q) => p = q
  <2>1. ASSUME NEW p \in R, NEW q \in R, p # q
        PROVE  Rank(R, p) # Rank(R, q)
    <3>1. p < q \/ q < p
      BY <1>8, <2>1
    <3> QED
      BY <1>10, <3>1
  <2> QED
    BY <2>1
<1>14. Rising(at, n)
  <2>1. ASSUME NEW j \in 1 .. n, NEW k \in 1 .. n, j < k
        PROVE  at[j] < at[k]
    <3>1. PICK p, q : p = b + at[j] + 2 /\ q = b + at[k] + 2
      OBVIOUS
    <3>2. p \in R /\ q \in R /\ Rank(R, p) = j /\ Rank(R, q) = k /\ at[j] \in Int /\ at[k] \in Int
      BY <1>12, <3>1
    <3>3. p \in Int /\ q \in Int /\ ~(q < p) /\ p # q
      BY <1>8, <1>10, <2>1, <3>2
    <3> QED
      BY <1>1, <3>1, <3>2, <3>3
  <2> QED
    BY <1>12, <2>1 DEF Rising
<1>15. ASSUME NEW w \in Refs(b, D)
       PROVE  Shown(ValueIn(R, w), w, b, at, n)
  <2>1. w \in [kind : {"int", "ptr"}, v : Int]
    BY DEF Refs
  <2>2. CASE w.kind = "int"
    <3>1. ValueIn(R, w) = w
      BY <2>2 DEF ValueIn
    <3> QED
      BY <2>2, <3>1 DEF Shown
  <2>3. CASE w.kind = "ptr"
    <3>1. w.v - b - 2 \in D /\ w.v \in Int
      BY <2>3, RefFacts
    <3>2. w.v \in R
      <4>1. w.v = b + (w.v - b - 2) + 2
        BY <1>1, <3>1
      <4> QED
        BY <1>6, <3>1, <4>1
    <3>3. PICK k \in 1 .. n : k = Rank(R, w.v)
      BY <1>10, <3>2
    <3>4. w.v = b + at[k] + 2
      BY <1>12, <1>13, <3>2, <3>3
    <3>5. w = Ptr(b + at[k] + 2)
      BY <2>1, <2>3, <3>4 DEF Ptr
    <3>6. ValueIn(R, w) = [kind |-> "ref", v |-> k]
      BY <2>3, <3>2, <3>3 DEF ValueIn
    <3> QED
      BY <2>3, <3>3, <3>5, <3>6 DEF Shown
  <2> QED
    BY <2>1, <2>2, <2>3
<1>16. ASSUME NEW k \in 1 .. n
       PROVE  DrawnObject(g.objs[k], m, at[k], b, at, n)
  <2>1. PICK h, x : h = at[k] /\ x = g.objs[k]
    OBVIOUS
  <2>2. h \in D /\ h \in Nat /\ ObjectAt(m, h)
    BY <1>1, <1>5, <1>12, <2>1
  <2>3. x = ObjectIn(R, m, h)
    BY <1>7, <1>9, <1>11, <2>1 DEF DrawnFrom
  <2>4. /\ Fields(m, h) \in Nat
        /\ \A i \in 1 .. Fields(m, h) : /\ FirstField(m, h) + i - 1 \in FieldsAt(m, h)
                                        /\ FieldSeq(m, h)[i] = m[FirstField(m, h) + i - 1]
    BY <2>2, FieldSeqWords
  <2>5. PICK y : y = [i \in 1 .. Fields(m, h) |-> ValueIn(R, m[FirstField(m, h) + i - 1])]
    OBVIOUS
  <2>6. x = [type |-> m[h].kind, raw |-> RawSeq(m, h), fields |-> y]
    BY <2>3, <2>5 DEF ObjectIn, RawSeq, Raws, Fields
  <2>7. ASSUME NEW i \in 1 .. Fields(m, h)
        PROVE  Shown(y[i], FieldSeq(m, h)[i], b, at, n)
    <3>1. PICK w : w = m[FirstField(m, h) + i - 1]
      OBVIOUS
    <3>2. w \in Refs(b, D) /\ FieldSeq(m, h)[i] = w
      BY <1>5, <2>2, <2>4, <3>1 DEF Encloses, FieldsIn
    <3>3. y[i] = ValueIn(R, w)
      BY <2>5, <3>1
    <3> QED
      BY <1>15, <3>2, <3>3
  <2>8. Indexed(y, Fields(m, h))
    BY <2>5 DEF Indexed
  <2>9. x.fields = y
    BY <2>6
  <2>10. Drawn(y, FieldSeq(m, h), Fields(m, h), b, at, n)
    BY <2>7, <2>8 DEF Drawn
  <2> QED
    BY <2>1, <2>6, <2>9, <2>10 DEF DrawnObject
<1>17. Indexed(g.objs, n) /\ Len(g.objs) = n
  <2>1. Indexed(g.objs, n)
    BY <1>7, <1>9 DEF DrawnFrom, Indexed
  <2> QED
    BY <1>10, <2>1, IndexedLen
<1>18. Standing(g.objs, n, m, b, at, O)
  BY <1>5, <1>10, <1>12, <1>14, <1>16, <1>17 DEF Standing
<1>19. Drawn(g.operands, s, Len(s), b, at, n)
  <2>1. g.operands = [i \in 1 .. Len(s) |-> ValueIn(R, s[i])]
    BY <1>3, <1>7 DEF DrawnFrom
  <2>2. \A i \in 1 .. Len(s) : s[i] \in Refs(b, D)
    BY <1>3, <1>5 DEF Encloses
  <2> QED
    BY <1>15, <2>1, <2>2 DEF Drawn, Indexed
<1>20. ASSUME NEW C \in SUBSET O, Encloses(m, b, W, C), NEW k \in 1 .. n
       PROVE  at[k] \in C
  <2>1. C \subseteq O
    OBVIOUS
  <2>2. PICK E : E \subseteq C /\ Encloses(m, b, W, E) /\ Reach(hp, m, W, N) = {b + h + 2 : h \in E}
    BY <1>20, <2>1, ReachEncloses
  <2>3. PICK p : p = b + at[k] + 2
    OBVIOUS
  <2>4. p \in R /\ R = {b + h + 2 : h \in E}
    BY <1>5, <1>6, <1>12, <2>2, <2>3
  <2>5. PICK h \in E : p = b + h + 2
    BY <2>4
  <2>6. h = at[k]
    <3>1. h \in Int /\ at[k] \in Int
      BY <1>1, <1>12, <2>2
    <3> QED
      BY <1>1, <2>3, <2>5, <3>1
  <2> QED
    BY <2>2, <2>6
<1> QED
  BY <1>2, <1>18, <1>19, <1>20 DEF Depicts


-----------------------------------------------------------------------------
(***************************************************************************)
(* Objects that stay as they are drawn                                     *)
(***************************************************************************)

(* Raw words are where the header says.                                    *)
LEMMA RawSeqWords ==
  ASSUME NEW m, NEW h \in Nat, ObjectAt(m, h)
  PROVE  /\ Raws(m, h) \in Nat /\ FirstField(m, h) = h + 2 + Raws(m, h)
         /\ RawSeq(m, h) = [i \in 1 .. Raws(m, h) |-> m[h + 1 + i]]
         /\ \A i \in 1 .. Raws(m, h) : h + 1 + i \in h + 2 .. FirstField(m, h) - 1
<1>1. PICK r : r = Raws(m, h)
  OBVIOUS
<1>2. r \in Nat /\ FirstField(m, h) = h + 2 + r
  BY <1>1, ObjectSize DEF Raws
<1>3. \A i \in 1 .. r : h + HeaderWords + i - 1 = h + 1 + i /\ h + 1 + i \in h + 2 .. h + 2 + r - 1
  BY <1>2 DEF HeaderWords
<1>4. RawSeq(m, h) = [i \in 1 .. r |-> m[h + HeaderWords + i - 1]]
  BY <1>1 DEF RawSeq
<1>5. RawSeq(m, h) = [i \in 1 .. r |-> m[h + 1 + i]]
  BY <1>3, <1>4
<1> QED
  BY <1>1, <1>2, <1>3, <1>5

(* The object at h in m and the one at g in n are copies of one another.   *)
SameContent(m, h, n, g) ==
  n[g] = m[h] /\ RawSeq(n, g) = RawSeq(m, h) /\ FieldSeq(n, g) = FieldSeq(m, h)

(* An object that is kept has the content it had,                          *)
LEMMA ContentKept ==
  ASSUME NEW m, NEW n, NEW h \in Nat, ObjectAt(m, h),
         Alike(m, n, h), SameFields(m, n, h), SameRaws(m, n, h)
  PROVE  SameContent(m, h, n, h)
<1>1. /\ ObjectAt(n, h) /\ FirstField(n, h) = FirstField(m, h) /\ n[h] = m[h]
      /\ Raws(n, h) = Raws(m, h) /\ Fields(n, h) = Fields(m, h)
  BY AlikeObject DEF Alike, Raws, Fields
<1>2. RawSeq(n, h) = RawSeq(m, h)
  <2>1. /\ RawSeq(m, h) = [i \in 1 .. Raws(m, h) |-> m[h + 1 + i]]
        /\ \A i \in 1 .. Raws(m, h) : h + 1 + i \in h + 2 .. FirstField(m, h) - 1
    BY RawSeqWords
  <2>2. RawSeq(n, h) = [i \in 1 .. Raws(m, h) |-> n[h + 1 + i]]
    BY <1>1, RawSeqWords
  <2>3. \A i \in 1 .. Raws(m, h) : n[h + 1 + i] = m[h + 1 + i]
    BY <2>1 DEF SameRaws
  <2> QED
    BY <2>1, <2>2, <2>3
<1>3. FieldSeq(n, h) = FieldSeq(m, h)
  <2>1. \A i \in 1 .. Fields(m, h) : FirstField(m, h) + i - 1 \in FieldsAt(m, h)
    BY FieldSeqWords
  <2>2. \A i \in 1 .. Fields(m, h) : n[FirstField(m, h) + i - 1] = m[FirstField(m, h) + i - 1]
    BY <2>1 DEF SameFields
  <2> QED
    BY <1>1, <2>2 DEF FieldSeq
<1> QED
  BY <1>1, <1>2, <1>3 DEF SameContent

(* and what has the content of an object is the same in the graph.         *)
LEMMA DrawnSame ==
  ASSUME NEW x, NEW m, NEW n, NEW h, NEW g, NEW b, NEW to, NEW k,
         SameContent(m, h, n, g), DrawnObject(x, m, h, b, to, k)
  PROVE  DrawnObject(x, n, g, b, to, k)
<1>1. n[g] = m[h] /\ RawSeq(n, g) = RawSeq(m, h) /\ FieldSeq(n, g) = FieldSeq(m, h)
  BY DEF SameContent
<1>2. Fields(n, g) = Fields(m, h)
  BY <1>1 DEF Fields
<1> QED
  BY <1>1, <1>2 DEF DrawnObject

(* An object whose header, raw words and fields are kept stays as it is    *)
(* drawn.                                                                  *)
LEMMA DrawnKept ==
  ASSUME NEW x, NEW m, NEW n, NEW h \in Nat, ObjectAt(m, h),
         Alike(m, n, h), SameFields(m, n, h), SameRaws(m, n, h),
         NEW b, NEW to, NEW k, DrawnObject(x, m, h, b, to, k)
  PROVE  DrawnObject(x, n, h, b, to, k)
<1>1. SameContent(m, h, n, h)
  BY ContentKept
<1> QED
  BY <1>1, DrawnSame

(* A graph that is drawn of words is drawn of them as long as they are     *)
(* kept.                                                                   *)
LEMMA DepictsKept ==
  ASSUME NEW objects, NEW values, NEW k, NEW m, NEW n, NEW b, NEW s, NEW at, NEW O,
         Depicts(objects, values, k, m, b, s, at, O),
         \A h \in O : h \in Nat /\ ObjectAt(m, h), Kept(m, n, O)
  PROVE  Depicts(objects, values, k, n, b, s, at, O)
<1>1. /\ k \in Nat /\ Len(objects) = k /\ Indexed(objects, k)
      /\ Rising(at, k) /\ \A j \in 1 .. k : at[j] \in O
      /\ \A j \in 1 .. k : DrawnObject(objects[j], m, at[j], b, at, k)
      /\ Drawn(values, s, Len(s), b, at, k)
  BY DEF Depicts, Standing
<1>2. ASSUME NEW j \in 1 .. k
      PROVE  DrawnObject(objects[j], n, at[j], b, at, k)
  <2>1. PICK h \in O, x \in {objects[j]} : h = at[j] /\ x = objects[j]
    BY <1>1
  <2>2. /\ h \in Nat /\ ObjectAt(m, h) /\ DrawnObject(x, m, h, b, at, k)
        /\ Alike(m, n, h) /\ SameFields(m, n, h) /\ SameRaws(m, n, h)
    BY <1>1, <2>1 DEF Kept
  <2>3. DrawnObject(x, n, h, b, at, k)
    BY ONLY h \in O, <2>2, DrawnKept
  <2> QED
    BY <2>1, <2>3
<1> QED
  BY <1>1, <1>2 DEF Depicts, Standing

-----------------------------------------------------------------------------
(***************************************************************************)
(* References that are rewritten, objects that slide                       *)
(***************************************************************************)

(* the new places of the objects at offsets `at' from b                    *)
Placing(m, b, at, to, n) == \A k \in 1 .. n : at[k] \in Int /\ to[k] = Dest(m, b, at[k])

(* update_references knows its objects by where they were.                 *)
Renewing(O, M, b) ==
  /\ HeapOK /\ Tiles(mem, O, 0, heap.used) /\ M \subseteq O
  /\ b \in Nat /\ old.begin = b /\ old.used = heap.used

(* A value is the same when the word it is drawn of leads to the new place *)
(* of the object,                                                          *)
LEMMA FixedShown ==
  ASSUME NEW O, NEW M, NEW b, Renewing(O, M, b), NEW w \in Refs(b, M),
         NEW at, NEW to, NEW n, Placing(mem, b, at, to, n),
         NEW v, Shown(v, w, b, at, n)
  PROVE  Shown(v, Fixed(w), heap.begin, to, n)
<1>1. /\ HeapOK /\ Tiles(mem, O, 0, heap.used) /\ M \subseteq O
      /\ b \in Nat /\ old.begin = b /\ old.used = heap.used
  BY DEF Renewing
<1>2. CASE w.kind # "ptr"
  <2>1. Fixed(w) = w
    BY <1>2 DEF Fixed
  <2> QED
    BY <1>2, <2>1 DEF Shown
<1>3. CASE w.kind = "ptr"
  <2>1. PICK k, h : k \in 1 .. n /\ k = v.v /\ h = at[k] /\ v.kind = "ref" /\ w = Ptr(b + h + 2)
    BY <1>3 DEF Shown
  <2>2. h \in Int /\ w.v = b + h + 2
    BY <2>1 DEF Placing, Ptr
  <2>3. w.v - b - 2 = h
    BY <1>1, <2>2
  <2>4. h \in O
    BY <1>1, <1>3, <2>3, RefFacts
  <2>5. h \in Nat /\ ObjectAt(mem, h) /\ NextObject(mem, h) <= heap.used /\ heap.used \in Nat
    BY <1>1, <2>4 DEF Tiles
  <2>6. NextObject(mem, h) \in Nat /\ h + 2 <= NextObject(mem, h)
    BY <2>5, ObjectSize
  <2>7. b <= w.v /\ w.v <= b + heap.used
    BY <1>1, <2>2, <2>5, <2>6
  <2>8. Fixed(w) = Ptr(heap.begin + (mem[h + 1].v - b) + 2)
    BY <1>1, <1>3, <2>3, <2>7 DEF Fixed, HeaderWords
  <2>9. Fixed(w) = Ptr(heap.begin + to[k] + 2)
    BY <2>1, <2>8 DEF Dest, Placing
  <2>10. Fixed(w).kind = "ptr"
    BY <2>9 DEF Ptr
  <2> QED
    BY <2>1, <2>9, <2>10 DEF Shown
<1> QED
  BY <1>2, <1>3

(* the words, one by one, lead to new places                               *)
Renews(s, t, len) == \A i \in 1 .. len : t[i] = Fixed(s[i])

(* and so are all values of a sequence.                                    *)
LEMMA FixedDrawn ==
  ASSUME NEW O, NEW M, NEW b, Renewing(O, M, b), NEW at, NEW to, NEW n, Placing(mem, b, at, to, n),
         NEW values, NEW s, NEW len, Drawn(values, s, len, b, at, n),
         \A i \in 1 .. len : s[i] \in Refs(b, M), NEW t, Renews(s, t, len)
  PROVE  Drawn(values, t, len, heap.begin, to, n)
<1>1. ASSUME NEW i \in 1 .. len
      PROVE  Shown(values[i], t[i], heap.begin, to, n)
  <2>1. PICK v, w : v = values[i] /\ w = s[i]
    OBVIOUS
  <2>2. Shown(v, w, b, at, n) /\ w \in Refs(b, M)
    BY <2>1 DEF Drawn
  <2>3. Shown(v, Fixed(w), heap.begin, to, n)
    BY ONLY Renewing(O, M, b), Placing(mem, b, at, to, n), <2>2, FixedShown
  <2>4. t[i] = Fixed(w)
    BY <2>1 DEF Renews
  <2> QED
    BY <2>1, <2>3, <2>4
<1> QED
  BY <1>1 DEF Drawn

(* An object whose fields lead to new places is the same object.           *)
LEMMA FixedObject ==
  ASSUME NEW O, NEW M, NEW b, Renewing(O, M, b), NEW at, NEW to, NEW k, Placing(mem, b, at, to, k),
         NEW h \in M, \A o \in FieldsAt(mem, h) : mem[o] \in Refs(b, M),
         NEW n, n[h] = mem[h], ObjectAt(n, h), SameRaws(mem, n, h),
         \A o \in FieldsAt(mem, h) : n[o] = Fixed(mem[o]),
         NEW x, DrawnObject(x, mem, h, b, at, k)
  PROVE  DrawnObject(x, n, h, heap.begin, to, k)
<1>1. h \in Nat /\ ObjectAt(mem, h)
  BY DEF Renewing, Tiles
<1>2. /\ FirstField(n, h) = FirstField(mem, h)
      /\ Raws(n, h) = Raws(mem, h) /\ Fields(n, h) = Fields(mem, h)
  BY DEF FirstField, Raws, Fields
<1>3. RawSeq(n, h) = RawSeq(mem, h)
  <2>1. /\ RawSeq(mem, h) = [i \in 1 .. Raws(mem, h) |-> mem[h + 1 + i]]
        /\ \A i \in 1 .. Raws(mem, h) : h + 1 + i \in h + 2 .. FirstField(mem, h) - 1
    BY <1>1, RawSeqWords
  <2>2. RawSeq(n, h) = [i \in 1 .. Raws(mem, h) |-> n[h + 1 + i]]
    BY <1>1, <1>2, RawSeqWords
  <2>3. \A i \in 1 .. Raws(mem, h) : n[h + 1 + i] = mem[h + 1 + i]
    BY <2>1 DEF SameRaws
  <2> QED
    BY <2>1, <2>2, <2>3
<1>4. PICK len, s, t, y : /\ len = Fields(mem, h) /\ s = FieldSeq(mem, h) /\ t = FieldSeq(n, h)
                          /\ y = x.fields
  OBVIOUS
<1>5. /\ \A i \in 1 .. len : /\ FirstField(mem, h) + i - 1 \in FieldsAt(mem, h)
                              /\ s[i] = mem[FirstField(mem, h) + i - 1]
      /\ \A i \in 1 .. len : t[i] = n[FirstField(mem, h) + i - 1]
  BY <1>1, <1>2, <1>4, FieldSeqWords
<1>6. Renews(s, t, len) /\ \A i \in 1 .. len : s[i] \in Refs(b, M)
  BY <1>5 DEF Renews
<1>7. Drawn(y, s, len, b, at, k)
  BY <1>4 DEF DrawnObject
<1>8. Drawn(y, t, len, heap.begin, to, k)
  BY ONLY Renewing(O, M, b), Placing(mem, b, at, to, k), <1>6, <1>7, FixedDrawn
<1> QED
  BY <1>2, <1>3, <1>4, <1>8 DEF DrawnObject

(* An object that has moved has the content it had.                        *)
LEMMA MovedContent ==
  ASSUME NEW m, NEW n, NEW s, NEW t, NEW z,
         s \in Nat, t \in Nat, Moves(m, n, t, s, z), ObjectAt(m, s), SizeAt(m, s) = z
  PROVE  SameContent(m, s, n, t)
<1>1. n[t] = m[s] /\ \A i \in 2 .. z - 1 : n[t + i] = m[s + i]
  BY DEF Moves
<1>2. ObjectAt(n, t)
  BY MovedObject
<1>3. PICK r, f : r = Raws(m, s) /\ f = Fields(m, s)
  OBVIOUS
<1>4. /\ r \in Nat /\ f \in Nat /\ z = 2 + r + f
      /\ FirstField(m, s) = s + 2 + r /\ Raws(n, t) = r /\ Fields(n, t) = f
      /\ FirstField(n, t) = t + 2 + r
  <2>1. f \in Nat
    BY <1>3, FieldSeqWords
  <2>2. Raws(n, t) = r /\ Fields(n, t) = f
    BY <1>1, <1>3 DEF Raws, Fields
  <2>3. r \in Nat /\ z = 2 + r + f /\ FirstField(m, s) = s + 2 + r
    BY <1>3, ObjectSize DEF Raws, Fields
  <2>4. FirstField(n, t) = t + 2 + r
    BY <1>2, <2>2, RawSeqWords
  <2> QED
    BY <2>1, <2>2, <2>3, <2>4
<1>5. RawSeq(n, t) = RawSeq(m, s)
  <2>1. /\ RawSeq(m, s) = [i \in 1 .. r |-> m[s + 1 + i]]
        /\ RawSeq(n, t) = [i \in 1 .. r |-> n[t + 1 + i]]
    BY <1>2, <1>3, <1>4, RawSeqWords
  <2>2. ASSUME NEW i \in 1 .. r
        PROVE  n[t + 1 + i] = m[s + 1 + i]
    <3>1. i + 1 \in 2 .. z - 1 /\ t + (i + 1) = t + 1 + i /\ s + (i + 1) = s + 1 + i
      BY <1>4
    <3> QED
      BY <1>1, <3>1
  <2> QED
    BY <2>1, <2>2
<1>6. FieldSeq(n, t) = FieldSeq(m, s)
  <2>1. /\ FieldSeq(m, s) = [i \in 1 .. f |-> m[s + 2 + r + i - 1]]
        /\ FieldSeq(n, t) = [i \in 1 .. f |-> n[t + 2 + r + i - 1]]
    BY <1>3, <1>4 DEF FieldSeq
  <2>2. ASSUME NEW i \in 1 .. f
        PROVE  n[t + 2 + r + i - 1] = m[s + 2 + r + i - 1]
    <3>1. /\ r + i + 1 \in 2 .. z - 1
          /\ t + (r + i + 1) = t + 2 + r + i - 1 /\ s + (r + i + 1) = s + 2 + r + i - 1
      BY <1>4
    <3> QED
      BY <1>1, <3>1
  <2> QED
    BY <2>1, <2>2
<1> QED
  BY <1>1, <1>5, <1>6 DEF SameContent

-----------------------------------------------------------------------------
(***************************************************************************)
(* The graph during an allocation                                          *)
(***************************************************************************)

(* the operands when the object was asked for: Lclone has popped the last  *)
OperandWords == IF cells = << >> THEN stack ELSE Append(stack, Last(cells))

(* what the interpreter may ask for                                        *)
RequestDrawn ==
  cells = << >> =>
    /\ request.raw \in RawWords
    /\ \E s \in UNION {b.shapes : b \in Bounds} : request.type = s.type /\ request.len = s.len

(* the graph is that of the words, its objects are at offsets `at'         *)
Pending(O, n, at) ==
  Depicts(graph.objs, graph.operands, n, mem, heap.begin, OperandWords, at, O)

(* all of them can be reached from the roots                               *)
Held(O, n, at) == Least(mem, heap.begin, stack, cells, O, {at[k] : k \in 1 .. n})

(* The objects of M, at offsets `at' from b, get their new places: the     *)
(* references of those before s lead there already, to offsets from e.     *)
Renewed(objects, values, n, m, b, e, words, s, at, to, M) ==
  /\ n \in Nat /\ Len(objects) = n /\ Indexed(objects, n)
  /\ Rising(at, n) /\ Rising(to, n) /\ Placing(m, b, at, to, n)
  /\ \A k \in 1 .. n : at[k] \in M
  /\ \A k \in 1 .. n : at[k] < s => DrawnObject(objects[k], m, at[k], e, to, n)
  /\ \A k \in 1 .. n : at[k] >= s => DrawnObject(objects[k], m, at[k], b, at, n)
  /\ Drawn(values, words, Len(words), b, at, n)

(* The objects of P have moved, those of M have not: all references lead   *)
(* to new places.                                                          *)
Sliding(objects, values, n, m, b, e, words, to, P, M) ==
  /\ n \in Nat /\ Len(objects) = n /\ Indexed(objects, n) /\ Rising(to, n)
  /\ \A k \in 1 .. n :
       \/ to[k] \in P /\ DrawnObject(objects[k], m, to[k], e, to, n)
       \/ \E h \in M : to[k] = Dest(m, b, h) /\ DrawnObject(objects[k], m, h, e, to, n)
  /\ Drawn(values, words, Len(words), e, to, n)

(* the graph while update_references runs,                                 *)
DuringUpdate(O, n, at, to) ==
  Renewed(graph.objs, graph.operands, n, mem, old.begin, heap.begin, OperandWords, scan, at, to,
          Marked(mem, O))

(* and while physically_relocate does                                      *)
DuringRelocation(P, O, n, to) ==
  Sliding(graph.objs, graph.operands, n, mem, old.begin, heap.begin, OperandWords, to, P,
          Marked(mem, O))

(* The graph that the last instruction has left stands for the heap until  *)
(* the next one is done.                                                   *)
GraphStands ==
  \/ phase = "run" /\ graph = GraphOf(heap, mem, stack, allocs)
  \/ phase = "alloc" /\ \E O, n, at : Quiet(O) /\ Pending(O, n, at) /\ Held(O, n, at)
  \/ phase = "mark" /\ \E O, n, at : Marking(O) /\ Pending(O, n, at) /\ Held(O, n, at)
  \/ phase \in {"compute", "exited"} /\ \E O, n, at : Computing(O) /\ Pending(O, n, at) /\ Held(O, n, at)
  \/ phase = "update" /\ \E O, n, at, to : Updating(O) /\ DuringUpdate(O, n, at, to)
  \/ phase = "relocate" /\ \E P, O, t, n, to : Relocating(P, O, t) /\ DuringRelocation(P, O, n, to)
  \/ phase = "retry" /\ \E O, n, at : Quiet(O) /\ Pending(O, n, at)

(* What is asked for is an object, and the graph stands for the heap.      *)
GraphInv == (phase # "run" => RequestDrawn) /\ GraphStands

(* what one step may do to the graph                                       *)
GraphStep == [Abstract!GraphNext]_(Abstract!graphVars)

(* A step that leaves the graph alone is none of the graph's.              *)
LEMMA NoGraphStep ==
  ASSUME graph' = graph
  PROVE  GraphStep
  BY DEF GraphStep, Abstract!graphVars

(* What is not the interpreter's does not change what was asked for.       *)
LEMMA RequestSame ==
  ASSUME UNCHANGED mutatorVars, RequestDrawn
  PROVE  RequestDrawn' /\ OperandWords' = OperandWords /\ graph' = graph /\ GraphStep
<1>1. stack' = stack /\ cells' = cells /\ request' = request /\ graph' = graph
  BY DEF mutatorVars
<1>2. RequestDrawn'
  BY <1>1 DEF RequestDrawn
<1> QED
  BY <1>1, <1>2, NoGraphStep DEF OperandWords

(* The objects of a heap, one by one.                                      *)
LEMMA WalkedObjects ==
  ASSUME NEW O, Walked(O)
  PROVE  \A h \in O : h \in Nat /\ ObjectAt(mem, h)
  BY DEF Walked, Tiles

(* What writes forward words only leaves the graph as it is.               *)
LEMMA PendingKept ==
  ASSUME NEW O, Walked(O), UNCHANGED <<mutatorVars, heap>>, Kept(mem, mem', O), NEW n, NEW at,
         Pending(O, n, at)
  PROVE  Pending(O, n, at)'
<1>1. OperandWords' = OperandWords /\ graph' = graph /\ heap' = heap
  BY DEF OperandWords, mutatorVars
<1>2. PICK k, objects, values, b, s : /\ k = mem' /\ objects = graph.objs /\ values = graph.operands
                                      /\ b = heap.begin /\ s = OperandWords
  OBVIOUS
<1>3. Depicts(objects, values, n, mem, b, s, at, O)
  BY <1>2 DEF Pending
<1>4. \A h \in O : h \in Nat /\ ObjectAt(mem, h)
  BY WalkedObjects
<1>5. Kept(mem, k, O)
  BY <1>2
<1>6. Depicts(objects, values, n, k, b, s, at, O)
  BY ONLY <1>3, <1>4, <1>5, DepictsKept
<1> QED
  BY <1>1, <1>2, <1>6 DEF Pending

(* and with the same roots the same objects are held.                      *)
LEMMA HeldKept ==
  ASSUME NEW O, Walked(O), UNCHANGED <<mutatorVars, heap>>, Kept(mem, mem', O), NEW n, NEW at,
         Held(O, n, at)
  PROVE  Held(O, n, at)'
<1>1. stack' = stack /\ cells' = cells /\ heap' = heap
  BY DEF mutatorVars
<1>2. PICK k, b, s, c, D : /\ k = mem' /\ b = heap.begin /\ s = stack /\ c = cells
                           /\ D = {at[j] : j \in 1 .. n}
  OBVIOUS
<1>3. Least(mem, b, s, c, O, D)
  BY <1>2 DEF Held
<1>4. \A h \in O : ObjectAt(mem, h)
  BY WalkedObjects
<1>5. Kept(mem, k, O)
  BY <1>2
<1>6. Least(k, b, s, c, O, D)
  BY ONLY <1>3, <1>4, <1>5, LeastKept
<1> QED
  BY <1>1, <1>2, <1>6 DEF Held

-----------------------------------------------------------------------------
(***************************************************************************)
(* The steps of a collection                                               *)
(***************************************************************************)

(* The collection starts.                                                  *)
LEMMA CollectGraph ==
  ASSUME MCInv, GraphInv, Collect
  PROVE  GraphInv' /\ GraphStep
<1>1. phase = "alloc" /\ phase' = "mark" /\ UNCHANGED <<heap, mem, mutatorVars>>
  BY DEF Collect
<1>2. PICK O, n, at : Quiet(O) /\ Pending(O, n, at) /\ Held(O, n, at)
  BY <1>1 DEF GraphInv, GraphStands
<1>3. Marking(O)'
  BY <1>2, CollectStep
<1>4. Walked(O) /\ Kept(mem, mem', O)
  <2>1. Walked(O)
    BY <1>2 DEF Quiet
  <2>2. Kept(mem, mem, O)
    BY <2>1, WalkedObjects, KeptSame
  <2> QED
    BY <1>1, <2>1, <2>2
<1>5. Pending(O, n, at)' /\ Held(O, n, at)'
  BY <1>1, <1>2, <1>4, PendingKept, HeldKept
<1>6. RequestDrawn' /\ GraphStep
  BY <1>1, RequestSame DEF GraphInv
<1> QED
  BY <1>1, <1>3, <1>5, <1>6 DEF GraphInv, GraphStands

(* Marking goes on.                                                        *)
LEMMA MarkingGraph ==
  ASSUME MCInv, GraphInv, MarkRoot \/ MarkStep \/ MarkField
  PROVE  GraphInv' /\ GraphStep
<1>1. phase = "mark" /\ phase' = "mark" /\ UNCHANGED <<heap, mutatorVars>>
  BY DEF MarkRoot, MarkStep, MarkField
<1>2. PICK O, n, at : Marking(O) /\ Pending(O, n, at) /\ Held(O, n, at)
  BY <1>1 DEF GraphInv, GraphStands
<1>3. Marking(O)' /\ Kept(mem, mem', O)
  BY <1>2, MarkRootStep, MarkStepStep, MarkFieldStep
<1>4. Walked(O)
  BY <1>2 DEF Marking
<1>5. Pending(O, n, at)' /\ Held(O, n, at)'
  BY <1>1, <1>2, <1>3, <1>4, PendingKept, HeldKept
<1>6. RequestDrawn' /\ GraphStep
  BY <1>1, RequestSame DEF GraphInv
<1> QED
  BY <1>1, <1>3, <1>5, <1>6 DEF GraphInv, GraphStands

(* Marking is done.                                                        *)
LEMMA MarkDoneGraph ==
  ASSUME MCInv, GraphInv, MarkDone
  PROVE  GraphInv' /\ GraphStep
<1>1. phase = "mark" /\ phase' = "compute" /\ UNCHANGED <<heap, mem, mutatorVars>>
  BY DEF MarkDone
<1>2. PICK O, n, at : Marking(O) /\ Pending(O, n, at) /\ Held(O, n, at)
  BY <1>1 DEF GraphInv, GraphStands
<1>3. Computing(O)'
  BY <1>2, MarkDoneStep
<1>4. Walked(O) /\ Kept(mem, mem', O)
  <2>1. Walked(O)
    BY <1>2 DEF Marking
  <2>2. Kept(mem, mem, O)
    BY <2>1, WalkedObjects, KeptSame
  <2> QED
    BY <1>1, <2>1, <2>2
<1>5. Pending(O, n, at)' /\ Held(O, n, at)'
  BY <1>1, <1>2, <1>4, PendingKept, HeldKept
<1>6. RequestDrawn' /\ GraphStep
  BY <1>1, RequestSame DEF GraphInv
<1> QED
  BY <1>1, <1>3, <1>5, <1>6 DEF GraphInv, GraphStands

(* New places are computed.                                                *)
LEMMA ComputeGraph ==
  ASSUME MCInv, GraphInv, Compute
  PROVE  GraphInv' /\ GraphStep
<1>1. phase = "compute" /\ phase' = "compute" /\ UNCHANGED <<heap, mutatorVars>>
  BY DEF Compute
<1>2. PICK O, n, at : Computing(O) /\ Pending(O, n, at) /\ Held(O, n, at)
  BY <1>1 DEF GraphInv, GraphStands
<1>3. Computing(O)' /\ Kept(mem, mem', O)
  BY <1>2, ComputeStep
<1>4. Walked(O)
  BY <1>2 DEF Computing
<1>5. Pending(O, n, at)' /\ Held(O, n, at)'
  BY <1>1, <1>2, <1>3, <1>4, PendingKept, HeldKept
<1>6. RequestDrawn' /\ GraphStep
  BY <1>1, RequestSame DEF GraphInv
<1> QED
  BY <1>1, <1>3, <1>5, <1>6 DEF GraphInv, GraphStands

(* The new places of objects are in the order of the old ones.             *)
LEMMA PlacesRise ==
  ASSUME NEW m, NEW b \in Int, NEW D, NEW from, NEW next, Slides(m, b, D, from, next),
         \A h \in D : h \in Nat /\ ObjectAt(m, h), NEW n, NEW at, NEW to, Rising(at, n),
         \A k \in 1 .. n : at[k] \in D, Placing(m, b, at, to, n)
  PROVE  Rising(to, n)
<1>1. ASSUME NEW h \in D
      PROVE  Dest(m, b, h) \in Int /\ SizeAt(m, h) \in Nat /\ SizeAt(m, h) > 0
  <2>1. h \in Nat /\ ObjectAt(m, h) /\ m[h + 1].v \in Int
    BY DEF ObjectAt, ForwardWords
  <2>2. SizeAt(m, h) \in Nat /\ SizeAt(m, h) > 0
    BY <2>1, ObjectSize
  <2> QED
    BY <2>1, <2>2 DEF Dest
<1>2. \A g, h \in D : g < h => Dest(m, b, g) + SizeAt(m, g) <= Dest(m, b, h)
  BY DEF Slides
<1>3. \A k \in 1 .. n : at[k] \in D /\ to[k] = Dest(m, b, at[k])
  BY DEF Placing
<1>4. \A j, k \in 1 .. n : j < k => at[j] < at[k]
  BY DEF Rising
<1>5. ASSUME NEW j \in 1 .. n, NEW k \in 1 .. n, j < k
      PROVE  to[j] < to[k]
  <2>1. PICK g \in D, h \in D : g = at[j] /\ h = at[k]
    BY <1>3
  <2>2. g < h
    BY <1>4, <1>5, <2>1
  <2>3. PICK c, d, z : c = Dest(m, b, g) /\ d = Dest(m, b, h) /\ z = SizeAt(m, g)
    OBVIOUS
  <2>4. c \in Int /\ d \in Int /\ z \in Nat /\ z > 0 /\ c + z <= d
    BY <1>1, <1>2, <2>2, <2>3
  <2>5. to[j] = c /\ to[k] = d
    BY <1>3, <2>1, <2>3
  <2> QED
    BY <2>4, <2>5
<1> QED
  BY <1>1, <1>3, <1>5 DEF Rising

(* The heap has grown, and may have moved: nothing leads into it any more, *)
(* but what is drawn is still there.                                       *)
LEMMA GrowGraph ==
  ASSUME MCInv, GraphInv, Grow
  PROVE  GraphInv' /\ GraphStep
<1>1. /\ phase = "compute" /\ phase' = "update" /\ UNCHANGED mutatorVars /\ scan' = 0
      /\ old'.begin = heap.begin
  BY DEF Grow
<1>2. PICK O, n, at : Computing(O) /\ Pending(O, n, at) /\ Held(O, n, at)
  BY <1>1 DEF GraphInv, GraphStands
<1>3. Updating(O)' /\ Kept(mem, mem', O) /\ SameAt(mem, mem', O)
  BY <1>2, GrowStep
<1>4. PICK m, b, e, objects, values, words, M :
        /\ m = mem' /\ b = heap.begin /\ e = heap'.begin /\ objects = graph.objs /\ values = graph.operands
        /\ words = OperandWords /\ M = Marked(m, O)
  OBVIOUS
<1>5. \A h \in O : h \in Nat /\ ObjectAt(mem, h) /\ ObjectAt(m, h)
  <2>1. \A h \in O : h \in Nat /\ ObjectAt(mem, h)
    BY <1>2, WalkedObjects DEF Computing
  <2> QED
    BY <1>3, <1>4, <2>1, AlikeObject DEF Kept
<1>6. Depicts(objects, values, n, m, b, words, at, O)
  <2>1. Depicts(objects, values, n, mem, b, words, at, O)
    BY <1>2, <1>4 DEF Pending
  <2>2. \A h \in O : h \in Nat /\ ObjectAt(mem, h)
    BY <1>5
  <2>3. Kept(mem, m, O)
    BY <1>3, <1>4
  <2> QED
    BY ONLY <2>1, <2>2, <2>3, DepictsKept
<1>7. \A k \in 1 .. n : at[k] \in M
  <2>1. Marked(mem, O) = M /\ M \subseteq O
    BY <1>3, <1>4 DEF Marked, SameAt
  <2>2. Closed(mem, heap.begin, stack, cells, M)
    BY <1>2, <2>1 DEF Computing
  <2> QED
    BY <1>2, <2>1, <2>2 DEF Held, Least
<1>8. b \in Int
  BY <1>4, BoundNat DEF MCInv
<1>9. PICK to : to = [k \in 1 .. n |-> Dest(m, b, at[k])]
  OBVIOUS
<1>10. /\ n \in Nat /\ Len(objects) = n /\ Indexed(objects, n) /\ Rising(at, n)
       /\ \A k \in 1 .. n : at[k] \in O /\ DrawnObject(objects[k], m, at[k], b, at, n)
       /\ Drawn(values, words, Len(words), b, at, n)
  BY <1>6 DEF Depicts, Standing
<1>11. Placing(m, b, at, to, n)
  BY <1>9, <1>10 DEF Placing, Rising
<1>12. Rising(to, n)
  <2>1. PICK next : Slides(m, b, M, 0, next)
    BY <1>1, <1>3, <1>4 DEF Updating
  <2>2. \A h \in M : h \in Nat /\ ObjectAt(m, h)
    BY <1>4, <1>5 DEF Marked
  <2> QED
    BY ONLY <1>7, <1>8, <1>10, <1>11, <2>1, <2>2, PlacesRise
<1>13. \A k \in 1 .. n : at[k] >= 0 /\ ~(at[k] < 0)
  BY <1>5, <1>10
<1>14. Renewed(objects, values, n, m, b, e, words, 0, at, to, M)
  BY <1>7, <1>10, <1>11, <1>12, <1>13 DEF Renewed
<1>15. RequestDrawn' /\ OperandWords' = OperandWords /\ graph' = graph /\ GraphStep
  BY <1>1, RequestSame DEF GraphInv
<1>16. DuringUpdate(O, n, at, to)'
  BY <1>1, <1>4, <1>14, <1>15 DEF DuringUpdate
<1> QED
  BY <1>1, <1>3, <1>15, <1>16 DEF GraphInv, GraphStands

(* The references of one object more are rewritten.                        *)
LEMMA UpdateObjectGraph ==
  ASSUME MCInv, GraphInv, UpdateObject
  PROVE  GraphInv' /\ GraphStep
<1>1. /\ phase = "update" /\ phase' = "update" /\ UNCHANGED <<heap, old, mutatorVars>>
      /\ scan < heap.used /\ scan' = NextObject(mem, scan)
  BY DEF UpdateObject
<1>2. PICK O, n, at, to : Updating(O) /\ DuringUpdate(O, n, at, to)
  BY <1>1 DEF GraphInv, GraphStands
<1>3. Updating(O)' /\ IF scan \in Marked(mem, O) THEN FixedAt(mem, mem', O, scan) ELSE mem' = mem
  BY <1>2, UpdateObjectStep
<1>4. PICK m, b, e, objects, values, words, M, s, next :
        /\ m = mem' /\ b = old.begin /\ e = heap.begin /\ objects = graph.objs /\ values = graph.operands
        /\ words = OperandWords /\ M = Marked(mem, O) /\ s = scan /\ next = NextObject(mem, s)
  OBVIOUS
<1>5. /\ Tiles(mem, O, 0, heap.used) /\ M \subseteq O /\ b \in Nat /\ old.used = heap.used
      /\ FieldsIn(mem, {h \in M : h >= s}, Refs(b, M)) /\ s \in O
  <2>1. /\ Tiles(mem, O, 0, heap.used) /\ b \in Nat /\ old.used = heap.used
        /\ FieldsIn(mem, {h \in M : h >= s}, Refs(b, M)) /\ s \in O \cup {heap.used}
    BY <1>2, <1>4 DEF Updating, Walked
  <2>2. M \subseteq O
    BY <1>4 DEF Marked
  <2>3. s < heap.used /\ heap.used \in Nat
    BY <1>1, <1>4, BoundNat DEF MCInv
  <2>4. s # heap.used
    BY <2>3
  <2> QED
    BY <2>1, <2>2, <2>4
<1>6. Renewing(O, M, b)
  BY <1>4, <1>5 DEF Renewing, MCInv
<1>7. Renewed(objects, values, n, mem, b, e, words, s, at, to, M)
  BY <1>2, <1>4 DEF DuringUpdate
<1>8. /\ n \in Nat /\ Len(objects) = n /\ Indexed(objects, n)
      /\ Rising(at, n) /\ Rising(to, n) /\ Placing(mem, b, at, to, n)
      /\ \A k \in 1 .. n : at[k] < s => DrawnObject(objects[k], mem, at[k], e, to, n)
      /\ \A k \in 1 .. n : at[k] >= s => DrawnObject(objects[k], mem, at[k], b, at, n)
      /\ Drawn(values, words, Len(words), b, at, n)
  BY <1>7 DEF Renewed
<1>0. \A k \in 1 .. n : at[k] \in M /\ at[k] \in O
  BY <1>5, <1>7 DEF Renewed
<1>9. /\ \A h \in O : h \in Nat /\ ObjectAt(mem, h) /\ (s < h => next <= h)
      /\ next \in Nat /\ s \in Nat /\ s < next
  <2>1. \A h \in O : h \in Nat /\ ObjectAt(mem, h) /\ (s < h => next <= h)
    BY <1>4, <1>5 DEF Tiles
  <2>2. next \in Nat /\ s + 2 <= next /\ s \in Nat
    BY <1>4, <1>5, <2>1, ObjectSize
  <2> QED
    BY <2>1, <2>2
<1>10. /\ Marked(m, O) = M /\ Placing(m, b, at, to, n)
       /\ \A k \in 1 .. n : at[k] < next => DrawnObject(objects[k], m, at[k], e, to, n)
       /\ \A k \in 1 .. n : at[k] >= next => DrawnObject(objects[k], m, at[k], b, at, n)
  <2>1. CASE s \in M
    <3>1. FixedAt(mem, m, O, s)
      BY <1>3, <1>4, <2>1
    <3>2. /\ SameAt(mem, m, O) /\ Kept(mem, m, O \ {s}) /\ SameRaws(mem, m, s)
          /\ \A o \in FieldsAt(mem, s) : m[o] = Fixed(mem[o])
      BY <3>1 DEF FixedAt
    <3>3. Marked(m, O) = M /\ Placing(m, b, at, to, n)
      <4>1. \A h \in O : Dest(m, b, h) = Dest(mem, b, h)
        BY <3>2 DEF SameAt, Dest
      <4>2. \A k \in 1 .. n : at[k] \in O
        BY <1>0
      <4> QED
        BY <1>4, <1>8, <3>2, <4>1, <4>2 DEF Marked, SameAt, Placing
    <3>4. ASSUME NEW k \in 1 .. n
          PROVE  /\ at[k] < next => DrawnObject(objects[k], m, at[k], e, to, n)
                 /\ at[k] >= next => DrawnObject(objects[k], m, at[k], b, at, n)
      <4>1. PICK h, x : h = at[k] /\ x = objects[k]
        OBVIOUS
      <4>2. h \in M /\ h \in O /\ h \in Nat /\ ObjectAt(mem, h)
        BY <1>0, <1>9, <4>1
      <4>3. CASE h = s
        <5>1. DrawnObject(x, mem, s, b, at, n)
          <6>1. s >= s
            BY <1>9
          <6> QED
            BY <1>8, <4>1, <4>3, <6>1
        <5>2. \A o \in FieldsAt(mem, s) : mem[o] \in Refs(b, M)
          BY <1>5, <1>9, <2>1 DEF FieldsIn
        <5>3. m[s] = mem[s] /\ ObjectAt(m, s)
          <6>1. m[s] = mem[s] /\ m[s + 1] = mem[s + 1]
            BY <1>5, <3>2 DEF SameAt
          <6> QED
            BY <4>2, <4>3, <6>1 DEF ObjectAt
        <5>4. DrawnObject(x, m, s, heap.begin, to, n)
          BY ONLY <1>6, <1>8, <2>1, <3>2, <5>1, <5>2, <5>3, FixedObject
        <5> QED
          BY <1>4, <1>9, <4>1, <4>3, <5>4
      <4>4. CASE h # s
        <5>1. Alike(mem, m, h) /\ SameFields(mem, m, h) /\ SameRaws(mem, m, h)
          BY <3>2, <4>2, <4>4 DEF Kept
        <5>2. \A c, p : DrawnObject(x, mem, h, c, p, n) => DrawnObject(x, m, h, c, p, n)
          BY <4>2, <5>1, DrawnKept
        <5>3. (h < s => DrawnObject(x, mem, h, e, to, n)) /\ (h >= s => DrawnObject(x, mem, h, b, at, n))
          BY <1>8, <4>1
        <5>4. h < next => h < s
          BY <1>9, <4>2, <4>4
        <5>5. h >= next => h >= s
          BY <1>9, <4>2
        <5> QED
          BY <4>1, <5>2, <5>3, <5>4, <5>5
      <4> QED
        BY <4>3, <4>4
    <3> QED
      BY <3>3, <3>4
  <2>2. CASE s \notin M
    <3>1. m = mem
      BY <1>3, <1>4, <2>2
    <3>2. \A k \in 1 .. n : at[k] \in O /\ at[k] # s
      BY <1>0, <2>2
    <3>3. ASSUME NEW k \in 1 .. n
          PROVE  (at[k] < next => at[k] < s) /\ (at[k] >= next => at[k] >= s)
      <4>1. PICK h \in O : h = at[k] /\ h # s
        BY <3>2
      <4>2. (h < next => h < s) /\ (h >= next => h >= s)
        BY <1>9, <4>1
      <4> QED
        BY <4>1, <4>2
    <3>4. ASSUME NEW k \in 1 .. n
          PROVE  /\ at[k] < next => DrawnObject(objects[k], m, at[k], e, to, n)
                 /\ at[k] >= next => DrawnObject(objects[k], m, at[k], b, at, n)
      BY <1>8, <3>1, <3>3
    <3> QED
      BY <1>4, <1>8, <3>1, <3>4
  <2> QED
    BY <2>1, <2>2
<1>11. Renewed(objects, values, n, m, b, e, words, next, at, to, M)
  <2>1. \A k \in 1 .. n : at[k] \in M
    BY <1>0
  <2> QED
    BY <1>8, <1>10, <2>1 DEF Renewed
<1>12. RequestDrawn' /\ OperandWords' = OperandWords /\ graph' = graph /\ GraphStep
  BY <1>1, RequestSame DEF GraphInv
<1>13. DuringUpdate(O, n, at, to)'
  BY <1>1, <1>4, <1>10, <1>11, <1>12 DEF DuringUpdate
<1> QED
  BY <1>1, <1>3, <1>12, <1>13 DEF GraphInv, GraphStands

(* The last of several roots is fixed as all are.                          *)
LEMMA OperandsFixed ==
  ASSUME NEW S, stack \in Seq(S), cells \in Seq(S), FixedAll(stack, stack'), FixedAll(cells, cells')
  PROVE  /\ Len(OperandWords') = Len(OperandWords) /\ OperandWords \in Seq(S)
         /\ Renews(OperandWords, OperandWords', Len(OperandWords))
<1>1. PICK s, t, c, d : s = stack /\ t = stack' /\ c = cells /\ d = cells'
  OBVIOUS
<1>2. /\ s \in Seq(S) /\ c \in Seq(S)
      /\ t = [i \in DOMAIN s |-> Fixed(s[i])] /\ d = [i \in DOMAIN c |-> Fixed(c[i])]
  BY <1>1 DEF FixedAll
<1>3. PICK p, q : p = Len(s) /\ q = Len(c)
  OBVIOUS
<1>4. p \in Nat /\ q \in Nat /\ DOMAIN s = 1 .. p /\ DOMAIN c = 1 .. q
  BY <1>2, <1>3, LenProperties
<1>5. PICK T : T = {t[i] : i \in 1 .. p} \cup {d[i] : i \in 1 .. q}
  OBVIOUS
<1>6. t \in Seq(T) /\ Len(t) = p
  <2>1. t = [i \in 1 .. p |-> t[i]] /\ \A i \in 1 .. p : t[i] \in T
    BY <1>2, <1>4, <1>5
  <2> QED
    BY <1>4, <2>1, SeqByPositions
<1>7. d \in Seq(T) /\ Len(d) = q
  <2>1. d = [i \in 1 .. q |-> d[i]] /\ \A i \in 1 .. q : d[i] \in T
    BY <1>2, <1>4, <1>5
  <2> QED
    BY <1>4, <2>1, SeqByPositions
<1>8. CASE c = << >>
  <2>1. q = 0
    BY <1>3, <1>8, EmptySeq
  <2>2. d = << >>
    BY <1>7, <2>1, EmptySeq
  <2>3. OperandWords = s /\ OperandWords' = t
    BY <1>1, <1>8, <2>2 DEF OperandWords
  <2>4. \A i \in 1 .. p : t[i] = Fixed(s[i])
    BY <1>2, <1>4
  <2> QED
    BY <1>2, <1>3, <1>6, <2>3, <2>4 DEF Renews
<1>9. CASE c # << >>
  <2>1. q \in Nat \ {0} /\ Last(c) = c[q] /\ Last(c) \in S
    BY <1>2, <1>3, <1>9, LastSeq
  <2>2. d # << >>
    BY <1>7, <2>1, EmptySeq
  <2>3. Last(d) = d[q] /\ Last(d) \in T
    BY <1>7, <2>2, LastSeq
  <2>4. Last(d) = Fixed(Last(c))
    BY <1>2, <1>4, <2>1, <2>3
  <2>5. PICK x, y : x = Last(c) /\ y = Last(d)
    OBVIOUS
  <2>6. OperandWords = Append(s, x) /\ OperandWords' = Append(t, y)
    BY <1>1, <1>9, <2>2, <2>5 DEF OperandWords
  <2>7. /\ Append(s, x) \in Seq(S) /\ Len(Append(s, x)) = p + 1
        /\ \A i \in 1 .. p : Append(s, x)[i] = s[i]
        /\ Append(s, x)[p + 1] = x
    BY <1>2, <1>3, <2>1, <2>5, AppendAt
  <2>8. /\ Len(Append(t, y)) = p + 1
        /\ \A i \in 1 .. p : Append(t, y)[i] = t[i]
        /\ Append(t, y)[p + 1] = y
    BY <1>6, <2>3, <2>5, AppendAt
  <2>9. ASSUME NEW i \in 1 .. p + 1
        PROVE  Append(t, y)[i] = Fixed(Append(s, x)[i])
    <3>1. CASE i \in 1 .. p
      BY <1>2, <1>4, <2>7, <2>8, <3>1
    <3>2. CASE i = p + 1
      BY <2>4, <2>5, <2>7, <2>8, <3>2
    <3>3. i \in 1 .. p \/ i = p + 1
      BY <1>4
    <3> QED
      BY <3>1, <3>2, <3>3
  <2> QED
    BY <2>6, <2>7, <2>8, <2>9 DEF Renews
<1> QED
  BY <1>8, <1>9

(* The roots are rewritten, and with them the operands.                    *)
LEMMA UpdateRootsGraph ==
  ASSUME MCInv, GraphInv, UpdateRoots
  PROVE  GraphInv' /\ GraphStep
<1>1. /\ phase = "update" /\ phase' = "relocate"
      /\ UNCHANGED <<heap, mem, old, request, allocs, graph>>
      /\ scan = heap.used /\ FixedAll(stack, stack') /\ FixedAll(cells, cells')
  BY DEF UpdateRoots, FixedAll
<1>2. PICK O, n, at, to : Updating(O) /\ DuringUpdate(O, n, at, to)
  BY <1>1 DEF GraphInv, GraphStands
<1>3. Relocating({}, O, 0)'
  BY <1>2, UpdateRootsStep
<1>4. PICK b, e, objects, values, words, M, s :
        /\ b = old.begin /\ e = heap.begin /\ objects = graph.objs /\ values = graph.operands
        /\ words = OperandWords /\ M = Marked(mem, O) /\ s = scan
  OBVIOUS
<1>5. /\ Tiles(mem, O, 0, heap.used) /\ M \subseteq O /\ b \in Nat /\ old.used = heap.used
      /\ stack \in Seq(Refs(b, M)) /\ cells \in Seq(Refs(b, Shaped(mem, M, request)))
  BY <1>2, <1>4 DEF Updating, Walked, Marked
<1>6. Renewing(O, M, b)
  BY <1>4, <1>5 DEF Renewing, MCInv
<1>7. Renewed(objects, values, n, mem, b, e, words, s, at, to, M)
  BY <1>2, <1>4 DEF DuringUpdate
<1>8. /\ n \in Nat /\ Len(objects) = n /\ Indexed(objects, n)
      /\ Rising(to, n) /\ Placing(mem, b, at, to, n)
      /\ \A k \in 1 .. n : at[k] < s => DrawnObject(objects[k], mem, at[k], e, to, n)
      /\ Drawn(values, words, Len(words), b, at, n)
  BY <1>7 DEF Renewed
<1>0. \A k \in 1 .. n : at[k] \in M
  BY <1>7 DEF Renewed
<1>9. \A k \in 1 .. n : at[k] < s
  <2>1. \A h \in O : h < heap.used
    <3>1. O \subseteq 0 .. heap.used - 1 /\ heap.used \in Nat
      BY <1>5, TilesFinite
    <3> QED
      BY <3>1
  <2> QED
    BY <1>0, <1>1, <1>4, <1>5, <2>1
<1>10. PICK t : t = OperandWords'
  OBVIOUS
<1>11. Drawn(values, t, Len(t), e, to, n)
  <2>1. PICK R : R = Refs(b, M)
    OBVIOUS
  <2>2. stack \in Seq(R) /\ cells \in Seq(R)
    <3>1. Shaped(mem, M, request) \subseteq M
      BY DEF Shaped
    <3> QED
      BY <1>5, <2>1, <3>1, RefsGrow, SeqGrow
  <2>3. Len(t) = Len(words) /\ words \in Seq(R) /\ Renews(words, t, Len(words))
    BY <1>1, <1>4, <1>10, <2>2, OperandsFixed
  <2>4. PICK len : len = Len(words)
    OBVIOUS
  <2>5. \A i \in 1 .. len : words[i] \in Refs(b, M)
    BY <2>1, <2>3, <2>4, ElementOfSeq
  <2>6. Drawn(values, words, len, b, at, n) /\ Renews(words, t, len)
    BY <1>8, <2>3, <2>4
  <2>7. Drawn(values, t, len, heap.begin, to, n)
    BY ONLY <1>6, <1>8, <2>5, <2>6, FixedDrawn
  <2> QED
    BY <1>4, <2>3, <2>4, <2>7
<1>12. \A k \in 1 .. n : \E h \in M : to[k] = Dest(mem, b, h) /\ DrawnObject(objects[k], mem, h, e, to, n)
  BY <1>0, <1>8, <1>9 DEF Placing
<1>13. Sliding(objects, values, n, mem, b, e, t, to, {}, M)
  BY <1>8, <1>11, <1>12 DEF Sliding
<1>14. DuringRelocation({}, O, n, to)'
  BY <1>1, <1>4, <1>10, <1>13 DEF DuringRelocation
<1>15. RequestDrawn'
  <2>1. RequestDrawn
    BY <1>1 DEF GraphInv
  <2>2. cells' = << >> => cells = << >>
    <3>1. cells \in Seq(Refs(b, Shaped(mem, M, request))) /\ DOMAIN cells' = DOMAIN cells
      BY <1>1, <1>5 DEF FixedAll
    <3>2. DOMAIN cells = 1 .. Len(cells) /\ Len(cells) \in Nat
      BY <3>1, LenProperties
    <3>3. ASSUME cells' = << >>
          PROVE  Len(cells) = 0
      <4>1. DOMAIN cells = {}
        BY <3>1, <3>3, EmptySeq
      <4> QED
        BY <3>2, <4>1
    <3> QED
      BY <3>1, <3>3, EmptySeq
  <2> QED
    BY <1>1, <2>1, <2>2 DEF RequestDrawn
<1>16. GraphStep
  BY <1>1, NoGraphStep
<1> QED
  BY <1>1, <1>3, <1>14, <1>15, <1>16 DEF GraphInv, GraphStands

(* One object more has moved.                                              *)
LEMMA RelocateGraph ==
  ASSUME MCInv, GraphInv, Relocate
  PROVE  GraphInv' /\ GraphStep
<1>1. phase = "relocate" /\ phase' = "relocate" /\ UNCHANGED <<heap, old, mutatorVars>>
  BY DEF Relocate
<1>2. PICK P, O, t, n, to : Relocating(P, O, t) /\ DuringRelocation(P, O, n, to)
  BY <1>1 DEF GraphInv, GraphStands
<1>3. PICK m, b, e, objects, values, words, M, s, E :
        /\ m = mem' /\ b = old.begin /\ e = heap.begin /\ objects = graph.objs /\ values = graph.operands
        /\ words = OperandWords /\ M = Marked(mem, O) /\ s = scan /\ E = O \ {s}
  OBVIOUS
<1>4. Sliding(objects, values, n, mem, b, e, words, to, P, M)
  BY <1>2, <1>3 DEF DuringRelocation
<1>5. /\ n \in Nat /\ Len(objects) = n /\ Indexed(objects, n) /\ Rising(to, n)
      /\ \A k \in 1 .. n :
           \/ to[k] \in P /\ DrawnObject(objects[k], mem, to[k], e, to, n)
           \/ \E h \in M : to[k] = Dest(mem, b, h) /\ DrawnObject(objects[k], mem, h, e, to, n)
      /\ Drawn(values, words, Len(words), e, to, n)
  BY <1>4 DEF Sliding
<1>6. RequestDrawn' /\ OperandWords' = OperandWords /\ graph' = graph /\ GraphStep
  BY <1>1, RequestSame DEF GraphInv
<1>7. /\ \A h \in P \cup O : h \in Nat /\ ObjectAt(mem, h)
      /\ t \in Nat /\ M \subseteq O
  <2>1. Tiles(mem, P, 0, t) /\ \E u : Tiles(mem, O, scan, u)
    BY <1>2 DEF Relocating
  <2> QED
    BY <1>3, <2>1 DEF Tiles, Marked
<1>8. CASE s \in M
  <2>1. /\ \E r, next : r = scan /\ Relocating(P \cup {t}, O \ {r}, next)'
        /\ MovedTo(mem, mem', P, O, old.begin, scan, t)
    BY <1>2, <1>3, <1>8, RelocateStep
  <2>2. PICK next, Q : Q = P \cup {t} /\ Relocating(Q, E, next)'
    BY <1>3, <2>1
  <2>3. /\ Kept(mem, m, P) /\ Kept(mem, m, E) /\ SameAt(mem, m, E)
        /\ Dest(mem, b, s) = t /\ Moves(mem, m, t, s, SizeAt(mem, s))
    BY <1>3, <2>1 DEF MovedTo
  <2>4. PICK N : N = Marked(m, E)
    OBVIOUS
  <2>5. N = M \ {s} /\ \A h \in N : Dest(m, b, h) = Dest(mem, b, h)
    BY <1>3, <2>3, <2>4 DEF Marked, SameAt, Dest
  <2>6. SameContent(mem, s, m, t)
    <3>1. PICK z : z = SizeAt(mem, s)
      OBVIOUS
    <3>2. s \in Nat /\ t \in Nat /\ ObjectAt(mem, s) /\ Moves(mem, m, t, s, z)
      BY <1>7, <1>8, <2>3, <3>1
    <3> QED
      BY <3>1, <3>2, MovedContent
  <2>7. ASSUME NEW k \in 1 .. n
        PROVE  \/ to[k] \in Q /\ DrawnObject(objects[k], m, to[k], e, to, n)
               \/ \E h \in N : to[k] = Dest(m, b, h) /\ DrawnObject(objects[k], m, h, e, to, n)
    <3>1. PICK x : x = objects[k]
      OBVIOUS
    <3>2. ASSUME NEW h \in P \cup E, DrawnObject(x, mem, h, e, to, n)
          PROVE  DrawnObject(x, m, h, e, to, n)
      <4>1. Alike(mem, m, h) /\ SameFields(mem, m, h) /\ SameRaws(mem, m, h)
        BY <2>3 DEF Kept
      <4>2. h \in Nat /\ ObjectAt(mem, h)
        BY <1>3, <1>7
      <4> QED
        BY ONLY <3>2, <4>1, <4>2, DrawnKept
    <3>3. CASE to[k] \in P /\ DrawnObject(x, mem, to[k], e, to, n)
      BY <2>2, <3>1, <3>2, <3>3
    <3>4. ASSUME NEW h \in M, to[k] = Dest(mem, b, h), DrawnObject(x, mem, h, e, to, n)
          PROVE  \/ to[k] \in Q /\ DrawnObject(x, m, to[k], e, to, n)
                 \/ \E g \in N : to[k] = Dest(m, b, g) /\ DrawnObject(x, m, g, e, to, n)
      <4>1. CASE h = s
        <5>1. DrawnObject(x, m, t, e, to, n)
          BY <2>6, <3>4, <4>1, DrawnSame
        <5>2. to[k] = t /\ t \in Q
          BY <2>2, <2>3, <3>4, <4>1
        <5> QED
          BY <5>1, <5>2
      <4>2. CASE h # s
        <5>1. h \in N /\ h \in E /\ to[k] = Dest(m, b, h)
          BY <1>3, <1>7, <2>5, <3>4, <4>2
        <5> QED
          BY <3>2, <3>4, <5>1
      <4> QED
        BY <4>1, <4>2
    <3> QED
      BY <1>5, <3>1, <3>3, <3>4
  <2>8. Sliding(objects, values, n, m, b, e, words, to, Q, N)
    BY <1>5, <2>7 DEF Sliding
  <2>9. DuringRelocation(Q, E, n, to)'
    BY <1>1, <1>3, <1>6, <2>4, <2>8 DEF DuringRelocation
  <2> QED
    BY <1>1, <1>6, <2>2, <2>9 DEF GraphInv, GraphStands
<1>9. CASE s \notin M
  <2>1. m = mem /\ \E r : r = scan /\ Relocating(P, O \ {r}, t)'
    BY <1>2, <1>3, <1>9, RelocateStep
  <2>2. Relocating(P, E, t)'
    BY <1>3, <2>1
  <2>3. Marked(m, E) = M
    BY <1>3, <1>9, <2>1 DEF Marked
  <2>4. Sliding(objects, values, n, m, b, e, words, to, P, Marked(m, E))
    BY <1>4, <2>1, <2>3
  <2>5. DuringRelocation(P, E, n, to)'
    BY <1>1, <1>3, <1>6, <2>4 DEF DuringRelocation
  <2> QED
    BY <1>1, <1>6, <2>2, <2>5 DEF GraphInv, GraphStands
<1> QED
  BY <1>8, <1>9

(* All objects are where they lead to.                                     *)
LEMMA RelocateDoneGraph ==
  ASSUME MCInv, GraphInv, RelocateDone
  PROVE  GraphInv' /\ GraphStep
<1>1. /\ phase = "relocate" /\ phase' = "retry" /\ UNCHANGED <<mem, mutatorVars>>
      /\ heap'.begin = heap.begin
  <2>1. heap \in [begin : Bases, size : Nat, used : Nat]
    BY DEF MCInv, HeapOK
  <2> QED
    BY <2>1 DEF RelocateDone
<1>2. PICK P, O, t, n, to : Relocating(P, O, t) /\ DuringRelocation(P, O, n, to)
  BY <1>1 DEF GraphInv, GraphStands
<1>3. Quiet(P)' /\ O = {}
  BY <1>2, RelocateDoneStep
<1>4. RequestDrawn' /\ OperandWords' = OperandWords /\ graph' = graph /\ GraphStep
  BY <1>1, RequestSame DEF GraphInv
<1>5. PICK b, e, objects, values, words :
        /\ b = old.begin /\ e = heap.begin /\ objects = graph.objs /\ values = graph.operands
        /\ words = OperandWords
  OBVIOUS
<1>6. Sliding(objects, values, n, mem, b, e, words, to, P, {})
  <2>1. Marked(mem, O) = {}
    BY <1>3 DEF Marked
  <2> QED
    BY <1>2, <1>5, <2>1 DEF DuringRelocation
<1>7. Depicts(objects, values, n, mem, e, words, to, P)
  BY <1>6 DEF Sliding, Depicts, Standing
<1>8. Pending(P, n, to)'
  BY <1>1, <1>4, <1>5, <1>7 DEF Pending
<1> QED
  BY <1>1, <1>3, <1>4, <1>8 DEF GraphInv, GraphStands

-----------------------------------------------------------------------------
(***************************************************************************)
(* The graph and the interpreter's stack                                   *)
(***************************************************************************)

(* the p-th to the (p + q)-th of n things, one more than len *)
Within(p, q, n) == p + q <= n
After(next, len) == next = len + 1

(* the part of q elements of F that comes after p; F and one element more  *)
IsPart(G, F, p, q) == G = SubSeq(F, p + 1, p + q)
IsAdded(G, F, x) == G = Append(F, x)

(* G has the q elements of F that come after p; F and G have the same      *)
(* first n elements.                                                       *)
AgreesAfter(G, F, p, q) == \A i \in 1 .. q : G[i] = F[p + i]
AgreesTo(G, F, n) == \A i \in 1 .. n : G[i] = F[i]

(* A part of a sequence, and a sequence with one element more.             *)
LEMMA PartAt ==
  ASSUME NEW n \in Nat, NEW F, NEW p \in Nat, NEW q \in Nat, NEW G,
         Indexed(F, n), Within(p, q, n), IsPart(G, F, p, q)
  PROVE  Indexed(G, q) /\ Len(G) = q /\ AgreesAfter(G, F, p, q)
<1>1. PICK H : H = [i \in 1 .. q |-> F[p + i]]
  OBVIOUS
<1>2. Indexed(H, q) /\ Repeats(H, F, p, q)
  BY <1>1 DEF Indexed, Repeats
<1>3. G = H
  BY <1>2, PartOf DEF Within, IsPart
<1> QED
  BY <1>1, <1>2, <1>3, IndexedLen DEF AgreesAfter

(* With one element more a sequence keeps the others.                      *)
LEMMA AddedAt ==
  ASSUME NEW n \in Nat, NEW m \in Nat, NEW F, NEW x, NEW G,
         After(m, n), Indexed(F, n), IsAdded(G, F, x)
  PROVE  Indexed(G, m) /\ Len(G) = m /\ G[m] = x /\ AgreesTo(G, F, n)
<1>0. m = n + 1
  BY DEF After
<1>1. PICK H : H = [i \in 1 .. m |-> IF i <= n THEN F[i] ELSE x]
  OBVIOUS
<1>2. m \in 1 .. m /\ ~(m <= n) /\ \A i \in 1 .. n : i \in 1 .. m /\ i <= n /\ 0 + i = i
  BY <1>0
<1>3. H[m] = x /\ \A i \in 1 .. n : H[i] = F[i]
  BY <1>1, <1>2
<1>4. Indexed(H, m) /\ Repeats(H, F, 0, n)
  BY <1>1, <1>2, <1>3 DEF Indexed, Repeats
<1>5. H = Append(F, H[m])
  BY <1>0, <1>4, LastAdded
<1>6. G = H
  BY <1>3, <1>5 DEF IsAdded
<1> QED
  BY <1>3, <1>4, <1>6, IndexedLen DEF AgreesTo

(* The values of a part of the words are a part of the values,             *)
LEMMA DrawnPart ==
  ASSUME NEW len \in Nat, NEW values, NEW words, NEW b, NEW to, NEW n,
         NEW p \in Nat, NEW q \in Nat, NEW v, NEW w,
         Drawn(values, words, len, b, to, n), Indexed(words, len),
         Within(p, q, len), IsPart(v, values, p, q), IsPart(w, words, p, q)
  PROVE  Drawn(v, w, q, b, to, n) /\ Indexed(w, q) /\ Len(w) = q
<1>1. Indexed(values, len) /\ \A i \in 1 .. len : Shown(values[i], words[i], b, to, n)
  BY DEF Drawn
<1>2. Indexed(v, q) /\ AgreesAfter(v, values, p, q)
  BY <1>1, PartAt
<1>3. Indexed(w, q) /\ Len(w) = q /\ AgreesAfter(w, words, p, q)
  BY PartAt
<1>4. \A i \in 1 .. q : p + i \in 1 .. len
  BY DEF Within
<1> QED
  BY <1>1, <1>2, <1>3, <1>4 DEF Drawn, AgreesAfter

(* and a word more is a value more.                                        *)
LEMMA DrawnAdded ==
  ASSUME NEW len \in Nat, NEW next \in Nat, NEW values, NEW words, NEW b, NEW to, NEW n,
         NEW x, NEW y, NEW v, NEW w,
         Drawn(values, words, len, b, to, n), Indexed(words, len),
         After(next, len), Shown(x, y, b, to, n), IsAdded(v, values, x), IsAdded(w, words, y)
  PROVE  Drawn(v, w, next, b, to, n) /\ Indexed(w, next) /\ Len(w) = next
<1>1. Indexed(values, len) /\ \A i \in 1 .. len : Shown(values[i], words[i], b, to, n)
  BY DEF Drawn
<1>2. Indexed(v, next) /\ v[next] = x /\ AgreesTo(v, values, len)
  BY <1>1, AddedAt
<1>3. Indexed(w, next) /\ Len(w) = next /\ w[next] = y /\ AgreesTo(w, words, len)
  BY AddedAt
<1>4. \A i \in 1 .. next : i \in 1 .. len \/ i = next
  BY DEF After
<1> QED
  BY <1>1, <1>2, <1>3, <1>4 DEF Drawn, AgreesTo

(* A value pushed.                                                         *)
LEMMA DrawnPushed ==
  ASSUME NEW S, NEW s \in Seq(S), NEW values, NEW b, NEW to, NEW n, NEW x, NEW y, NEW v, NEW t,
         Drawn(values, s, Len(s), b, to, n), Shown(x, y, b, to, n),
         IsAdded(v, values, x), IsAdded(t, s, y)
  PROVE  Drawn(v, t, Len(t), b, to, n)
<1>1. PICK len, next : len = Len(s) /\ next = len + 1
  OBVIOUS
<1>2. len \in Nat /\ next \in Nat /\ Indexed(s, len) /\ After(next, len)
  BY <1>1, LenProperties, ElementOfSeq DEF Indexed, After
<1>3. Drawn(values, s, len, b, to, n)
  BY <1>1
<1>4. Drawn(v, t, next, b, to, n) /\ Len(t) = next
  BY <1>2, <1>3, DrawnAdded
<1> QED
  BY <1>4

(* A sequence is what is at its positions.                                 *)
LEMMA SeqIndexed ==
  ASSUME NEW S, NEW s \in Seq(S)
  PROVE  Len(s) \in Nat /\ Indexed(s, Len(s)) /\ DOMAIN s = 1 .. Len(s) /\ \A i \in 1 .. Len(s) : s[i] \in S
  BY LenProperties, ElementOfSeq DEF Indexed

(* The operands have the length of the stack.                              *)
LEMMA OperandsLen ==
  ASSUME NEW values, NEW words, NEW len \in Nat, NEW b, NEW to, NEW n, Drawn(values, words, len, b, to, n)
  PROVE  Len(values) = len /\ DOMAIN values = 1 .. len /\ (values # << >> <=> len > 0)
<1>1. Indexed(values, len)
  BY DEF Drawn
<1>2. DOMAIN values = 1 .. len
  BY <1>1 DEF Indexed
<1> QED
  BY <1>1, <1>2, IndexedLen

-----------------------------------------------------------------------------
(***************************************************************************)
(* Instructions                                                            *)
(***************************************************************************)

(* What the interpreter sees is sound.                                     *)
LEMMA QuietStocked ==
  ASSUME HeapOK, StacksOK, NEW O, Quiet(O)
  PROVE  /\ Stocked(heap, heap.begin, mem, O) /\ Sound(mem, heap.begin, stack, O)
         /\ allocs \in Nat /\ Cardinality(O) <= allocs
<1>1. /\ Tiles(mem, O, 0, heap.used) /\ Cardinality(O) <= allocs
      /\ FieldsIn(mem, O, Refs(heap.begin, O)) /\ stack \in Seq(Refs(heap.begin, O))
  BY DEF Quiet, Walked
<1>2. heap.begin \in Nat /\ heap.size \in Nat /\ heap.used \in Nat /\ heap.used <= heap.size
  BY BoundNat
<1>3. Memory(mem, heap.size) /\ allocs \in Nat
  BY DEF HeapOK, StacksOK
<1>4. Stocked(heap, heap.begin, mem, O)
  BY <1>1, <1>2, <1>3 DEF Stocked
<1>5. \A h \in O : h \in Nat /\ ObjectAt(mem, h)
  BY <1>1 DEF Tiles
<1>6. Sound(mem, heap.begin, stack, O)
  BY <1>1, <1>2, <1>5 DEF Sound
<1> QED
  BY <1>1, <1>3, <1>4, <1>6

(* Between instructions the graph is that of stack and heap, and has no    *)
(* garbage.                                                                *)
LEMMA RunDrawn ==
  ASSUME MCInv, GraphInv, phase = "run", NEW O, Quiet(O)
  PROVE  \E n, at :
           /\ Depicts(graph.objs, graph.operands, n, mem, heap.begin, stack, at, O)
           /\ \A C \in SUBSET O : Encloses(mem, heap.begin, ToSet(stack), C) => \A k \in 1 .. n : at[k] \in C
<1>1. /\ Stocked(heap, heap.begin, mem, O) /\ Sound(mem, heap.begin, stack, O)
      /\ allocs \in Nat /\ Cardinality(O) <= allocs
  BY QuietStocked DEF MCInv
<1>2. PICK g, b, s, N : g = graph /\ b = heap.begin /\ s = stack /\ N = allocs
  OBVIOUS
<1>3. /\ Stocked(heap, b, mem, O) /\ Sound(mem, b, s, O) /\ N \in Nat /\ Cardinality(O) <= N
      /\ g = GraphOf(heap, mem, s, N)
  BY <1>1, <1>2 DEF GraphInv, GraphStands
<1>4. \E n, at :
        /\ Depicts(g.objs, g.operands, n, mem, b, s, at, O)
        /\ \A C \in SUBSET O : Encloses(mem, b, ToSet(s), C) => \A k \in 1 .. n : at[k] \in C
  BY ONLY <1>3, GraphDrawn
<1> QED
  BY <1>2, <1>4

(* The graph that is drawn after an instruction, from what the graph's     *)
(* instruction has made of it: without garbage they are the same.          *)
LEMMA Becomes ==
  ASSUME MCInv', NEW O, Quiet(O)', phase' = "run", Observe,
         NEW objects, NEW values, NEW n, NEW at,
         Depicts(objects, values, n, mem', heap'.begin, stack', at, O)
  PROVE  GraphInv' /\ Abstract!Become(objects, values)
<1>1. PICK g, hp, b, m, s, N : /\ g = graph' /\ hp = heap' /\ b = heap'.begin /\ m = mem' /\ s = stack'
                               /\ N = allocs'
  OBVIOUS
<1>2. /\ Tiles(m, O, 0, hp.used) /\ Cardinality(O) <= N
      /\ FieldsIn(m, O, Refs(b, O)) /\ s \in Seq(Refs(b, O))
  BY <1>1 DEF Quiet, Walked
<1>3. /\ hp \in [begin : Bases, size : Nat, used : Nat] /\ hp.used <= hp.size
      /\ Memory(m, hp.size) /\ N \in Nat
  BY <1>1 DEF MCInv, HeapOK, StacksOK
<1>4. b \in Nat
  BY <1>1, <1>3, CollectorAssumption DEF CollectorAssumption
<1>5. Stocked(hp, b, m, O)
  BY <1>1, <1>2, <1>3, <1>4 DEF Stocked
<1>6. \A h \in O : h \in Nat /\ ObjectAt(m, h)
  BY <1>2 DEF Tiles
<1>7. Sound(m, b, s, O)
  BY <1>2, <1>4, <1>6 DEF Sound
<1>8. g = GraphOf(hp, m, s, N)
  BY <1>1 DEF Observe
<1>9. Depicts(objects, values, n, m, b, s, at, O)
  BY <1>1
<1>10. Abstract!Trim(objects, values) = g
  BY ONLY <1>2, <1>3, <1>5, <1>7, <1>8, <1>9, TrimDraws
<1>11. Abstract!Become(objects, values)
  BY <1>1, <1>10 DEF Abstract!Become
<1>12. GraphInv'
  BY <1>1, <1>8 DEF GraphInv, GraphStands
<1> QED
  BY <1>11, <1>12

(* The instructions of the graph.                                          *)
LEMMA GraphMoves ==
  ASSUME \/ Abstract!Push \/ Abstract!Copy \/ Abstract!Drop \/ Abstract!Elem \/ Abstract!Assign
         \/ Abstract!New \/ Abstract!Clone
  PROVE  GraphStep
  BY DEF GraphStep, Abstract!GraphNext

(* A number is pushed.                                                     *)
LEMMA ConstGraph ==
  ASSUME MCInv, GraphInv, Const
  PROVE  GraphInv' /\ GraphStep
<1>1. /\ phase = "run" /\ phase' = "run" /\ UNCHANGED <<heap, mem>>
      /\ stack' = Append(stack, Box(1)) /\ Observe
  BY DEF Const, PushWord
<1>2. PICK O : Quiet(O)
  BY <1>1, QuietNow
<1>3. MCInv' /\ Quiet(O)'
  BY <1>2, ConstStep
<1>4. PICK n, at : Depicts(graph.objs, graph.operands, n, mem, heap.begin, stack, at, O)
  BY <1>1, <1>2, RunDrawn
<1>5. PICK objects, values, b, s, t, v :
        /\ objects = graph.objs /\ values = graph.operands /\ b = heap.begin /\ s = stack /\ t = stack'
        /\ v = Append(values, Abstract!Number)
  OBVIOUS
<1>6. Standing(objects, n, mem, b, at, O) /\ Drawn(values, s, Len(s), b, at, n)
  BY <1>4, <1>5 DEF Depicts
<1>7. PICK S : s \in Seq(S)
  BY <1>2, <1>5 DEF Quiet
<1>8. Drawn(v, t, Len(t), b, at, n)
  <2>1. PICK x, y : x = Abstract!Number /\ y = Box(1)
    OBVIOUS
  <2>2. Shown(x, y, b, at, n)
    BY <2>1 DEF Shown, Abstract!Number, Box
  <2>3. IsAdded(v, values, x) /\ IsAdded(t, s, y)
    BY <1>1, <1>5, <2>1 DEF IsAdded
  <2> QED
    BY <1>6, <1>7, <2>2, <2>3, DrawnPushed
<1>9. Depicts(objects, v, n, mem', heap'.begin, stack', at, O)
  BY <1>1, <1>5, <1>6, <1>8 DEF Depicts
<1>10. GraphInv' /\ Abstract!Become(objects, v)
  BY <1>1, <1>3, <1>9, Becomes
<1>11. Abstract!Push
  BY <1>5, <1>10 DEF Abstract!Push
<1> QED
  BY <1>10, <1>11, GraphMoves

(* A value on the stack is pushed once more.                               *)
LEMMA LoadGraph ==
  ASSUME MCInv, GraphInv, Load
  PROVE  GraphInv' /\ GraphStep
<1>1. /\ phase = "run" /\ phase' = "run" /\ UNCHANGED <<heap, mem>> /\ Observe
      /\ \E i \in DOMAIN stack : stack' = Append(stack, stack[i])
  BY DEF Load, PushWord
<1>2. PICK O : Quiet(O)
  BY <1>1, QuietNow
<1>3. MCInv' /\ Quiet(O)'
  BY <1>2, LoadStep
<1>4. PICK n, at : Depicts(graph.objs, graph.operands, n, mem, heap.begin, stack, at, O)
  BY <1>1, <1>2, RunDrawn
<1>5. PICK objects, values, b, s, t, len :
        /\ objects = graph.objs /\ values = graph.operands /\ b = heap.begin /\ s = stack /\ t = stack'
        /\ len = Len(s)
  OBVIOUS
<1>6. Standing(objects, n, mem, b, at, O) /\ Drawn(values, s, len, b, at, n)
  BY <1>4, <1>5 DEF Depicts
<1>7. PICK S : s \in Seq(S)
  BY <1>2, <1>5 DEF Quiet
<1>8. len \in Nat /\ DOMAIN s = 1 .. len /\ DOMAIN values = 1 .. len
  BY <1>5, <1>6, <1>7, SeqIndexed, OperandsLen
<1>9. PICK i \in 1 .. len : t = Append(s, s[i])
  BY <1>1, <1>5, <1>8
<1>10. PICK v : v = Append(values, values[i])
  OBVIOUS
<1>11. Drawn(v, t, Len(t), b, at, n)
  <2>1. PICK x, y : x = values[i] /\ y = s[i]
    OBVIOUS
  <2>2. Shown(x, y, b, at, n) /\ Drawn(values, s, Len(s), b, at, n)
    BY <1>5, <1>6, <2>1 DEF Drawn
  <2>3. IsAdded(v, values, x) /\ IsAdded(t, s, y)
    BY <1>9, <1>10, <2>1 DEF IsAdded
  <2> QED
    BY <1>7, <2>2, <2>3, DrawnPushed
<1>12. Depicts(objects, v, n, mem', heap'.begin, stack', at, O)
  BY <1>1, <1>5, <1>6, <1>11 DEF Depicts
<1>13. GraphInv' /\ Abstract!Become(objects, v)
  BY <1>1, <1>3, <1>12, Becomes
<1>14. Abstract!Copy
  BY <1>5, <1>8, <1>10, <1>13 DEF Abstract!Copy
<1> QED
  BY <1>13, <1>14, GraphMoves

(* The stack without its top is drawn as the operands without theirs.      *)
LEMMA DrawnPopped ==
  ASSUME NEW S, NEW s \in Seq(S), NEW values, NEW b, NEW to, NEW n,
         Drawn(values, s, Len(s), b, to, n), s # << >>
  PROVE  /\ values # << >>
         /\ \E v, x, t, y : /\ v = Abstract!Front(values) /\ x = Abstract!Last(values)
                           /\ t = Front(s) /\ y = Last(s) /\ t \in Seq(S) /\ y \in S
                           /\ Drawn(v, t, Len(t), b, to, n) /\ Shown(x, y, b, to, n)
<1>1. PICK len, less : len = Len(s) /\ less = len - 1
  OBVIOUS
<1>2. /\ len \in Nat \ {0} /\ Indexed(s, len) /\ Drawn(values, s, len, b, to, n)
      /\ Last(s) = s[len] /\ Last(s) \in S /\ Front(s) \in Seq(S)
  BY <1>1, SeqIndexed, LastSeq
<1>3. Len(values) = len /\ values # << >>
  BY <1>2, OperandsLen
<1>4. less \in Nat /\ len \in Nat /\ 0 \in Nat /\ Within(0, less, len) /\ 0 + 1 = 1 /\ 0 + less = len - 1
  BY <1>1, <1>2 DEF Within
<1>5. PICK v, x, t, y : /\ v = SubSeq(values, 1, len - 1) /\ x = values[len]
                        /\ t = SubSeq(s, 1, len - 1) /\ y = s[len]
  OBVIOUS
<1>6. IsPart(v, values, 0, less) /\ IsPart(t, s, 0, less)
  BY <1>4, <1>5 DEF IsPart
<1>7. Drawn(v, t, less, b, to, n) /\ Len(t) = less
  BY <1>2, <1>4, <1>6, DrawnPart
<1>8. Shown(x, y, b, to, n)
  <2>1. len \in 1 .. len
    BY <1>2
  <2> QED
    BY <1>2, <1>5, <2>1 DEF Drawn
<1>9. v = Abstract!Front(values) /\ x = Abstract!Last(values) /\ t = Front(s) /\ y = Last(s)
  BY <1>1, <1>3, <1>5 DEF Front, Last, Abstract!Front, Abstract!Last
<1> QED
  BY <1>2, <1>3, <1>7, <1>8, <1>9

(* The top of the stack is dropped.                                        *)
LEMMA DropGraph ==
  ASSUME MCInv, GraphInv, Drop
  PROVE  GraphInv' /\ GraphStep
<1>1. /\ phase = "run" /\ phase' = "run" /\ UNCHANGED <<heap, mem>> /\ Observe
      /\ stack # << >> /\ stack' = Front(stack)
  BY DEF Drop
<1>2. PICK O : Quiet(O)
  BY <1>1, QuietNow
<1>3. MCInv' /\ Quiet(O)'
  BY <1>2, DropStep
<1>4. PICK n, at : Depicts(graph.objs, graph.operands, n, mem, heap.begin, stack, at, O)
  BY <1>1, <1>2, RunDrawn
<1>5. PICK objects, values, b, s :
        objects = graph.objs /\ values = graph.operands /\ b = heap.begin /\ s = stack
  OBVIOUS
<1>6. Standing(objects, n, mem, b, at, O) /\ Drawn(values, s, Len(s), b, at, n)
  BY <1>4, <1>5 DEF Depicts
<1>7. PICK S : s \in Seq(S)
  BY <1>2, <1>5 DEF Quiet
<1>8. PICK v, t : /\ values # << >> /\ v = Abstract!Front(values) /\ t = Front(s)
                  /\ Drawn(v, t, Len(t), b, at, n)
  BY <1>1, <1>5, <1>6, <1>7, DrawnPopped
<1>9. Depicts(objects, v, n, mem', heap'.begin, stack', at, O)
  BY <1>1, <1>5, <1>6, <1>8 DEF Depicts
<1>10. GraphInv' /\ Abstract!Become(objects, v)
  BY <1>1, <1>3, <1>9, Becomes
<1>11. Abstract!Drop
  BY <1>5, <1>8, <1>10 DEF Abstract!Drop
<1> QED
  BY <1>10, <1>11, GraphMoves

(* A value drawn of a reference leads to the object that is there,         *)
LEMMA ShownObject ==
  ASSUME NEW x, NEW w, NEW b \in Int, NEW at, NEW n, Shown(x, w, b, at, n), w.kind = "ptr",
         \A k \in 1 .. n : at[k] \in Int
  PROVE  x.kind = "ref" /\ x.v \in 1 .. n /\ w.v - b - 2 = at[x.v]
<1>1. x.kind = "ref" /\ x.v \in 1 .. n /\ w = Ptr(b + at[x.v] + 2)
  BY DEF Shown
<1>2. PICK a \in Int : a = at[x.v]
  BY <1>1
<1>3. w.v = b + a + 2
  BY <1>1, <1>2 DEF Ptr
<1> QED
  BY <1>1, <1>2, <1>3

(* word o of m is field i of the object at h *)
FieldIs(m, h, i, o) == i \in 1 .. Fields(m, h) /\ o = FirstField(m, h) + i - 1

(* and a field of that object is drawn of a word of its.                   *)
LEMMA DrawnField ==
  ASSUME NEW x, NEW m, NEW h \in Nat, ObjectAt(m, h), NEW b, NEW at, NEW n,
         DrawnObject(x, m, h, b, at, n), NEW o \in FieldsAt(m, h)
  PROVE  \E i \in DOMAIN x.fields : FieldIs(m, h, i, o) /\ Shown(x.fields[i], m[o], b, at, n)
<1>1. PICK i \in 1 .. Fields(m, h) : o = FirstField(m, h) + i - 1 /\ m[o] = FieldSeq(m, h)[i]
  BY FieldSeqWords
<1>2. Drawn(x.fields, FieldSeq(m, h), Fields(m, h), b, at, n)
  BY DEF DrawnObject
<1>3. DOMAIN x.fields = 1 .. Fields(m, h)
  BY <1>2 DEF Drawn, Indexed
<1>4. Shown(x.fields[i], m[o], b, at, n)
  BY <1>1, <1>2 DEF Drawn
<1> QED
  BY <1>1, <1>3, <1>4 DEF FieldIs

(* The object on top of the stack gives way to one of its fields.          *)
LEMMA ElemGraph ==
  ASSUME MCInv, GraphInv, Elem
  PROVE  GraphInv' /\ GraphStep
<1>1. /\ phase = "run" /\ phase' = "run" /\ UNCHANGED <<heap, mem>> /\ Observe /\ stack # << >>
      /\ \E o \in FieldAddresses(Last(stack)) : stack' = Append(Front(stack), mem[o])
  BY DEF Elem
<1>2. PICK O : Quiet(O)
  BY <1>1, QuietNow
<1>3. MCInv' /\ Quiet(O)'
  BY <1>2, ElemStep
<1>4. PICK n, at : Depicts(graph.objs, graph.operands, n, mem, heap.begin, stack, at, O)
  BY <1>1, <1>2, RunDrawn
<1>5. PICK objects, values, b, s :
        objects = graph.objs /\ values = graph.operands /\ b = heap.begin /\ s = stack
  OBVIOUS
<1>6. Standing(objects, n, mem, b, at, O) /\ Drawn(values, s, Len(s), b, at, n)
  BY <1>4, <1>5 DEF Depicts
<1>7. PICK S : s \in Seq(S)
  BY <1>2, <1>5 DEF Quiet
<1>8. PICK v, x, r, w :
        /\ values # << >> /\ v = Abstract!Front(values) /\ x = Abstract!Last(values)
        /\ r = Front(s) /\ w = Last(s) /\ r \in Seq(S)
        /\ Drawn(v, r, Len(r), b, at, n) /\ Shown(x, w, b, at, n)
  BY <1>1, <1>5, <1>6, <1>7, DrawnPopped
<1>9. b \in Int /\ (\A k \in 1 .. n : at[k] \in Int /\ at[k] \in O)
      /\ \A h \in O : h \in Nat /\ ObjectAt(mem, h)
  <2>1. b \in Int
    BY <1>5, BoundNat DEF MCInv
  <2>2. Walked(O)
    BY <1>2 DEF Quiet
  <2> QED
    BY <1>6, <2>1, <2>2, WalkedObjects DEF Standing, Rising
<1>10. PICK o : o \in FieldAddresses(w) /\ stack' = Append(r, mem[o])
  BY <1>1, <1>5, <1>8
<1>11. w.kind = "ptr" /\ o \in FieldsAt(mem, w.v - b - 2)
  BY <1>5, <1>10 DEF FieldAddresses, HeaderOf, HeaderWords
<1>12. PICK k \in 1 .. n : x.kind = "ref" /\ x.v = k /\ w.v - b - 2 = at[k]
  BY <1>8, <1>9, <1>11, ShownObject
<1>13. PICK object, h : object = objects[k] /\ h = at[k]
  OBVIOUS
<1>14. h \in Nat /\ ObjectAt(mem, h) /\ DrawnObject(object, mem, h, b, at, n) /\ o \in FieldsAt(mem, h)
  BY <1>6, <1>9, <1>11, <1>12, <1>13 DEF Standing
<1>15. PICK i \in DOMAIN object.fields : Shown(object.fields[i], mem[o], b, at, n)
  BY <1>14, DrawnField
<1>16. PICK f, y, u, t : f = object.fields[i] /\ y = mem[o] /\ u = Append(v, f) /\ t = Append(r, y)
  OBVIOUS
<1>17. Drawn(u, t, Len(t), b, at, n)
  <2>1. Shown(f, y, b, at, n) /\ IsAdded(u, v, f) /\ IsAdded(t, r, y)
    BY <1>15, <1>16 DEF IsAdded
  <2> QED
    BY <1>8, <2>1, DrawnPushed
<1>18. Depicts(objects, u, n, mem', heap'.begin, stack', at, O)
  BY <1>1, <1>5, <1>6, <1>10, <1>16, <1>17 DEF Depicts
<1>19. GraphInv' /\ Abstract!Become(objects, u)
  BY <1>1, <1>3, <1>18, Becomes
<1>20. f \in Abstract!ToSet(objects[x.v].fields)
  BY <1>12, <1>13, <1>15, <1>16 DEF Abstract!ToSet
<1>21. Abstract!Elem
  BY <1>5, <1>8, <1>12, <1>16, <1>19, <1>20 DEF Abstract!Elem
<1> QED
  BY <1>19, <1>21, GraphMoves

(* n is m but for the word y at o *)
Written(m, n, o, y) ==
  o \in DOMAIN m /\ DOMAIN n = DOMAIN m /\ \A p \in DOMAIN m : n[p] = IF p = o THEN y ELSE m[p]

(* Every word of the object at h is a word of the heap.                    *)
Inside(m, h) == \A p \in Int : h <= p /\ p < NextObject(m, h) => p \in DOMAIN m

(* v is the object x but for the value z of field i *)
Assigned(v, x, i, z) == v = [type |-> x.type, raw |-> x.raw, fields |-> [x.fields EXCEPT ![i] = z]]

(* A field is assigned in memory and in the graph.                         *)
LEMMA DrawnAssigned ==
  ASSUME NEW m, NEW n, NEW h \in Nat, NEW i, NEW o, NEW y, NEW z, NEW x, NEW v,
         NEW b, NEW at, NEW k, ObjectAt(m, h), Inside(m, h), FieldIs(m, h, i, o),
         Written(m, n, o, y), Assigned(v, x, i, z),
         DrawnObject(x, m, h, b, at, k), Shown(z, y, b, at, k)
  PROVE  DrawnObject(v, n, h, b, at, k)
<1>1. PICK f, r, c, next : /\ f = FirstField(m, h) /\ r = Raws(m, h) /\ c = Fields(m, h)
                           /\ next = NextObject(m, h)
  OBVIOUS
<1>2. /\ f \in Nat /\ r \in Nat /\ c \in Nat /\ next \in Nat /\ f = h + 2 + r /\ next = f + c
      /\ i \in 1 .. c /\ o = f + i - 1
  <2>1. c \in Nat
    BY <1>1, FieldSeqWords
  <2>2. /\ r \in Nat /\ f \in Nat /\ next \in Nat /\ f = h + 2 + r /\ next = h + SizeAt(m, h)
        /\ SizeAt(m, h) = 2 + r + c
    BY <1>1, ObjectSize DEF Raws, Fields
  <2>3. i \in 1 .. c /\ o = f + i - 1
    BY <1>1 DEF FieldIs
  <2> QED
    BY <2>1, <2>2, <2>3
<1>3. \A p \in Int : h <= p /\ p < next => n[p] = IF p = o THEN y ELSE m[p]
  BY <1>1 DEF Inside, Written
<1>4. n[h] = m[h]
  <2>1. h \in Int /\ h <= h /\ h < next /\ h # o
    BY <1>2
  <2> QED
    BY <1>3, <2>1
<1>5. FirstField(n, h) = f /\ Raws(n, h) = r /\ Fields(n, h) = c
  BY <1>1, <1>4 DEF FirstField, Raws, Fields
<1>6. RawSeq(n, h) = RawSeq(m, h)
  <2>1. \A j \in 1 .. r : n[h + HeaderWords + j - 1] = m[h + HeaderWords + j - 1]
    <3>1. ASSUME NEW j \in 1 .. r
          PROVE  n[h + 2 + j - 1] = m[h + 2 + j - 1]
      <4>1. PICK p \in Int : p = h + 2 + j - 1
        BY <1>2
      <4>2. h <= p /\ p < next /\ p # o
        BY <1>2, <4>1
      <4> QED
        BY <1>3, <4>1, <4>2
    <3> QED
      BY <3>1 DEF HeaderWords
  <2>2. /\ RawSeq(n, h) = [j \in 1 .. r |-> n[h + HeaderWords + j - 1]]
        /\ RawSeq(m, h) = [j \in 1 .. r |-> m[h + HeaderWords + j - 1]]
    BY <1>1, <1>5 DEF RawSeq
  <2> QED
    BY <2>1, <2>2
<1>7. /\ Indexed(x.fields, c) /\ \A j \in 1 .. c : Shown(x.fields[j], m[f + j - 1], b, at, k)
      /\ x = [type |-> m[h].kind, raw |-> RawSeq(m, h), fields |-> x.fields]
  <2>1. FieldSeq(m, h) = [j \in 1 .. c |-> m[f + j - 1]]
    BY <1>1 DEF FieldSeq
  <2>2. Drawn(x.fields, FieldSeq(m, h), c, b, at, k)
    BY <1>1 DEF DrawnObject
  <2> QED
    BY <2>1, <2>2 DEF Drawn, DrawnObject
<1>8. PICK F, G : F = x.fields /\ G = v.fields
  OBVIOUS
<1>9. /\ v = [type |-> m[h].kind, raw |-> RawSeq(m, h), fields |-> v.fields]
      /\ G = [F EXCEPT ![i] = z]
  <2>1. x.type = m[h].kind /\ x.raw = RawSeq(m, h)
    BY <1>7
  <2> QED
    BY <1>8, <2>1 DEF Assigned
<1>10. Indexed(G, c) /\ G[i] = z /\ \A j \in 1 .. c : j # i => G[j] = F[j]
  <2>1. F = [j \in 1 .. c |-> F[j]]
    BY <1>7, <1>8 DEF Indexed
  <2>2. DOMAIN F = 1 .. c
    BY <2>1
  <2>3. G = [j \in 1 .. c |-> IF j = i THEN z ELSE F[j]]
    BY <1>9, <2>2
  <2> QED
    BY <1>2, <2>3 DEF Indexed
<1>11. ASSUME NEW j \in 1 .. c
       PROVE  Shown(G[j], n[f + j - 1], b, at, k)
  <2>1. PICK p \in Int : p = f + j - 1
    BY <1>2
  <2>2. h <= p /\ p < next /\ (p = o <=> j = i)
    BY <1>2, <2>1
  <2>3. CASE j = i
    <3>1. n[p] = y
      BY <1>3, <2>2, <2>3
    <3> QED
      BY <1>10, <2>1, <2>3, <3>1
  <2>4. CASE j # i
    <3>1. n[p] = m[p]
      BY <1>3, <2>2, <2>4
    <3> QED
      BY <1>7, <1>8, <1>10, <2>1, <2>4, <3>1
  <2> QED
    BY <2>3, <2>4
<1>12. Drawn(G, FieldSeq(n, h), c, b, at, k)
  <2>1. FieldSeq(n, h) = [j \in 1 .. c |-> n[f + j - 1]]
    BY <1>5 DEF FieldSeq
  <2> QED
    BY <1>10, <1>11, <2>1 DEF Drawn
<1> QED
  BY <1>4, <1>5, <1>6, <1>8, <1>9, <1>12 DEF DrawnObject

(* All other objects are kept.                                             *)
LEMMA OthersKept ==
  ASSUME NEW m, NEW n, NEW O, NEW from, NEW to, NEW size \in Nat, NEW h \in O, NEW o, NEW y,
         Tiles(m, O, from, to), to <= size, Memory(m, size), o \in FieldsAt(m, h),
         Written(m, n, o, y), NEW g \in O, g # h
  PROVE  Alike(m, n, g) /\ SameFields(m, n, g) /\ SameRaws(m, n, g)
<1>1. DOMAIN n = DOMAIN m /\ \A p \in DOMAIN m : n[p] = IF p = o THEN y ELSE m[p]
  BY DEF Written
<1>2. Alike(m, n, g)
  <2>1. \A p \in DOMAIN m : n[p] = m[p] \/ \E d \in O : p \in FieldsAt(m, d)
    BY <1>1
  <2> QED
    BY <1>1, <2>1, FieldWrites
<1>3. /\ g \in Nat /\ FirstField(m, g) \in Nat /\ NextObject(m, g) \in Nat
      /\ g + 2 <= FirstField(m, g) /\ FirstField(m, g) <= NextObject(m, g)
  <2>1. g \in Nat /\ ObjectAt(m, g)
    BY DEF Tiles
  <2> QED
    BY <2>1, ObjectSize
<1>4. ASSUME NEW p \in g + 2 .. NextObject(m, g) - 1
      PROVE  n[p] = m[p]
  <2>1. p \in DOMAIN m /\ p \notin FieldsAt(m, h)
    BY ContentApart
  <2> QED
    BY <1>1, <2>1
<1>5. SameFields(m, n, g)
  <2>1. \A p \in FieldsAt(m, g) : p \in g + 2 .. NextObject(m, g) - 1
    BY <1>3 DEF FieldsAt
  <2> QED
    BY <1>4, <2>1 DEF SameFields
<1>6. SameRaws(m, n, g)
  <2>1. \A p \in g + 2 .. FirstField(m, g) - 1 : p \in g + 2 .. NextObject(m, g) - 1
    BY <1>3
  <2> QED
    BY <1>4, <2>1 DEF SameRaws
<1> QED
  BY <1>2, <1>5, <1>6

(* s has the length len, and more than one element *)
Lengthy(s, len) == len = Len(s) /\ len > 1

(* The values that an assignment leaves on the stack.                      *)
LEMMA DrawnUnder ==
  ASSUME NEW S, NEW s \in Seq(S), NEW len, NEW values, NEW b, NEW to, NEW n,
         Lengthy(s, len), Drawn(values, s, len, b, to, n)
  PROVE  /\ Len(values) = len /\ Shown(values[len - 1], s[len - 1], b, to, n)
         /\ Shown(values[len], s[len], b, to, n)
         /\ \E v, t : /\ v = Append(SubSeq(values, 1, len - 2), values[len])
                     /\ t = Append(SubSeq(s, 1, len - 2), s[len])
                     /\ Drawn(v, t, Len(t), b, to, n)
<1>1. len \in Nat /\ Indexed(s, len) /\ len > 1
  BY SeqIndexed DEF Lengthy
<1>2. len - 1 \in 1 .. len /\ len \in 1 .. len
  BY <1>1
<1>3. Len(values) = len /\ Shown(values[len - 1], s[len - 1], b, to, n) /\ Shown(values[len], s[len], b, to, n)
  BY <1>1, <1>2, OperandsLen DEF Drawn
<1>4. PICK q, next : q = len - 2 /\ next = len - 1
  OBVIOUS
<1>5. q \in Nat /\ next \in Nat /\ 0 \in Nat /\ Within(0, q, len) /\ After(next, q) /\ 0 + 1 = 1 /\ 0 + q = len - 2
  BY <1>1, <1>4 DEF Within, After
<1>6. PICK u, r, x, y, v, t :
        /\ u = SubSeq(values, 1, len - 2) /\ r = SubSeq(s, 1, len - 2)
        /\ x = values[len] /\ y = s[len] /\ v = Append(u, x) /\ t = Append(r, y)
  OBVIOUS
<1>7. IsPart(u, values, 0, q) /\ IsPart(r, s, 0, q)
  BY <1>5, <1>6 DEF IsPart
<1>8. IsAdded(v, u, x) /\ IsAdded(t, r, y)
  BY <1>6 DEF IsAdded
<1>9. Drawn(u, r, q, b, to, n) /\ Indexed(r, q)
  BY <1>1, <1>5, <1>7, DrawnPart
<1>10. Shown(x, y, b, to, n)
  BY <1>3, <1>6
<1>11. Drawn(v, t, next, b, to, n) /\ Len(t) = next
  BY <1>5, <1>8, <1>9, <1>10, DrawnAdded
<1> QED
  BY <1>3, <1>6, <1>11

(* One object of several is assigned to, the graph's and the heap's.       *)
LEMMA StandingAssigned ==
  ASSUME NEW m, NEW n, NEW O, NEW from, NEW to, NEW size \in Nat, Tiles(m, O, from, to), to <= size,
         Memory(m, size), NEW objects, NEW l, NEW b, NEW at, Standing(objects, l, m, b, at, O),
         NEW k \in 1 .. l, NEW i, NEW o, NEW y, NEW z, FieldIs(m, at[k], i, o),
         Written(m, n, o, y), Shown(z, y, b, at, l),
         NEW made, made = [objects EXCEPT ![k].fields[i] = z]
  PROVE  Standing(made, l, n, b, at, O)
<1>1. /\ l \in Nat /\ Len(objects) = l /\ Indexed(objects, l)
      /\ Rising(at, l) /\ \A j \in 1 .. l : at[j] \in O
      /\ \A j \in 1 .. l : DrawnObject(objects[j], m, at[j], b, at, l)
  BY DEF Standing
<1>2. PICK h \in O, x \in {objects[k]}, v \in {made[k]} : h = at[k] /\ x = objects[k] /\ v = made[k]
  BY <1>1
<1>3. h \in Nat /\ ObjectAt(m, h) /\ DrawnObject(x, m, h, b, at, l) /\ FieldIs(m, h, i, o)
  BY <1>1, <1>2 DEF Tiles
<1>4. o \in FieldsAt(m, h)
  BY <1>3, FieldSeqWords DEF FieldIs
<1>5. Inside(m, h)
  BY InHeap DEF Inside
<1>6. DOMAIN objects = 1 .. l
  BY <1>1 DEF Indexed
<1>7. Indexed(made, l) /\ \A j \in 1 .. l : j # k => made[j] = objects[j]
  <2>1. DOMAIN made = 1 .. l /\ made = [j \in DOMAIN made |-> made[j]]
    BY <1>6
  <2> QED
    BY <1>6, <2>1 DEF Indexed
<1>8. Assigned(v, x, i, z)
  <2>1. v = [x EXCEPT !.fields = [x.fields EXCEPT ![i] = z]]
    BY <1>2, <1>6
  <2>2. x = [type |-> m[h].kind, raw |-> RawSeq(m, h), fields |-> x.fields]
    BY <1>3 DEF DrawnObject
  <2> QED
    BY <2>1, <2>2 DEF Assigned
<1>9. DrawnObject(v, n, h, b, at, l)
  BY ONLY <1>3, <1>5, <1>8, Written(m, n, o, y), Shown(z, y, b, at, l), DrawnAssigned
<1>10. ASSUME NEW j \in 1 .. l
       PROVE  DrawnObject(made[j], n, at[j], b, at, l)
  <2>1. CASE j = k
    BY <1>2, <1>9, <2>1
  <2>2. CASE j # k
    <3>1. PICK g \in O, d \in {objects[j]} : g = at[j] /\ d = objects[j]
      BY <1>1
    <3>2. g # h
      <4>1. j < k \/ k < j
        BY <1>1, <2>2
      <4>2. (j < k => at[j] < at[k]) /\ (k < j => at[k] < at[j]) /\ at[j] \in Int /\ at[k] \in Int
        BY <1>1 DEF Rising
      <4> QED
        BY <1>2, <3>1, <4>1, <4>2
    <3>3. Alike(m, n, g) /\ SameFields(m, n, g) /\ SameRaws(m, n, g)
      BY <1>4, <3>2, OthersKept
    <3>4. g \in Nat /\ ObjectAt(m, g) /\ DrawnObject(d, m, g, b, at, l)
      BY <1>1, <3>1 DEF Tiles
    <3>5. DrawnObject(d, n, g, b, at, l)
      BY ONLY <3>3, <3>4, DrawnKept
    <3> QED
      BY <1>7, <2>2, <3>1, <3>5
  <2> QED
    BY <2>1, <2>2
<1>11. Len(made) = l
  BY <1>1, <1>7, IndexedLen
<1> QED
  BY <1>1, <1>7, <1>10, <1>11 DEF Standing

(* The value on top is assigned to a field of the object under it.         *)
LEMMA AssignGraph ==
  ASSUME MCInv, GraphInv, Assign
  PROVE  GraphInv' /\ GraphStep
<1>1. /\ phase = "run" /\ phase' = "run" /\ UNCHANGED heap /\ Observe /\ Len(stack) > 1
      /\ \E o \in FieldAddresses(stack[Len(stack) - 1]) : mem' = [mem EXCEPT ![o] = Last(stack)]
      /\ stack' = Append(SubSeq(stack, 1, Len(stack) - 2), Last(stack))
  BY DEF Assign
<1>2. PICK O : Quiet(O)
  BY <1>1, QuietNow
<1>3. MCInv' /\ Quiet(O)'
  BY <1>2, AssignStep
<1>4. PICK n, at : Depicts(graph.objs, graph.operands, n, mem, heap.begin, stack, at, O)
  BY <1>1, <1>2, RunDrawn
<1>5. PICK objects, values, b, s, m, len :
        /\ objects = graph.objs /\ values = graph.operands /\ b = heap.begin /\ s = stack
        /\ m = mem' /\ len = Len(s)
  OBVIOUS
<1>6. Standing(objects, n, mem, b, at, O) /\ Drawn(values, s, Len(s), b, at, n)
  BY <1>4, <1>5 DEF Depicts
<1>7. PICK S : s \in Seq(S)
  BY <1>2, <1>5 DEF Quiet
<1>0. Lengthy(s, len) /\ Drawn(values, s, len, b, at, n)
  BY <1>1, <1>5, <1>6 DEF Lengthy
<1>8. PICK v, t :
        /\ Len(values) = len /\ Shown(values[len - 1], s[len - 1], b, at, n)
        /\ Shown(values[len], s[len], b, at, n)
        /\ v = Append(SubSeq(values, 1, len - 2), values[len])
        /\ t = Append(SubSeq(s, 1, len - 2), s[len])
        /\ Drawn(v, t, Len(t), b, at, n)
  BY ONLY <1>0, <1>7, DrawnUnder
<1>9. PICK x, w, z, y : x = values[len - 1] /\ w = s[len - 1] /\ z = values[len] /\ y = s[len]
  OBVIOUS
<1>10. PICK o : o \in FieldAddresses(w) /\ m = [mem EXCEPT ![o] = y]
  BY <1>1, <1>5, <1>9 DEF Last
<1>11. /\ b \in Int /\ heap.size \in Nat /\ Tiles(mem, O, 0, heap.used) /\ heap.used <= heap.size
       /\ Memory(mem, heap.size) /\ (\A k \in 1 .. n : at[k] \in Int /\ at[k] \in O)
       /\ \A h \in O : h \in Nat /\ ObjectAt(mem, h)
  <2>1. b \in Int /\ heap.size \in Nat /\ heap.used <= heap.size
    BY <1>5, BoundNat DEF MCInv
  <2>2. Tiles(mem, O, 0, heap.used) /\ Memory(mem, heap.size)
    BY <1>2 DEF Quiet, Walked, MCInv, HeapOK
  <2> QED
    BY <1>6, <2>1, <2>2 DEF Standing, Rising, Tiles
<1>12. w.kind = "ptr" /\ o \in FieldsAt(mem, w.v - b - 2)
  BY <1>5, <1>10 DEF FieldAddresses, HeaderOf, HeaderWords
<1>13. Shown(x, w, b, at, n) /\ Shown(z, y, b, at, n)
  BY <1>8, <1>9
<1>14. PICK k \in 1 .. n : x.kind = "ref" /\ x.v = k /\ w.v - b - 2 = at[k]
  BY <1>11, <1>12, <1>13, ShownObject
<1>15. PICK h \in O, object \in {objects[k]} : h = at[k] /\ object = objects[k]
  BY <1>11
<1>16. h \in Nat /\ ObjectAt(mem, h) /\ DrawnObject(object, mem, h, b, at, n) /\ o \in FieldsAt(mem, h)
  BY <1>6, <1>11, <1>12, <1>14, <1>15 DEF Standing
<1>17. PICK i \in DOMAIN object.fields : FieldIs(mem, h, i, o)
  BY <1>16, DrawnField
<1>18. FieldIs(mem, at[k], i, o)
  BY <1>15, <1>17
<1>19. Written(mem, m, o, y)
  <2>1. o \in DOMAIN mem
    BY <1>11, <1>16, FieldsApart
  <2> QED
    BY <1>10, <2>1 DEF Written
<1>20. PICK made : made = [objects EXCEPT ![k].fields[i] = z]
  OBVIOUS
<1>21. Standing(made, n, m, b, at, O)
  <2>1. PICK used, size : used = heap.used /\ size = heap.size
    OBVIOUS
  <2>2. size \in Nat /\ Tiles(mem, O, 0, used) /\ used <= size /\ Memory(mem, size)
    BY <1>11, <2>1
  <2> QED
    BY ONLY <2>2, <1>6, k \in 1 .. n, <1>13, <1>18, <1>19, <1>20, StandingAssigned
<1>22. t = stack'
  BY <1>1, <1>5, <1>8 DEF Last
<1>23. Depicts(made, v, n, mem', heap'.begin, stack', at, O)
  BY <1>1, <1>5, <1>8, <1>21, <1>22 DEF Depicts
<1>24. GraphInv' /\ Abstract!Become(made, v)
  BY <1>1, <1>3, <1>23, Becomes
<1>25. Abstract!Assign
  <2>1. Abstract!Last(graph.operands) = z /\ Len(graph.operands) = len /\ graph.operands[len - 1] = x
    BY <1>5, <1>8, <1>9 DEF Abstract!Last
  <2>2. i \in DOMAIN graph.objs[x.v].fields
    BY <1>5, <1>14, <1>15, <1>17
  <2>3. made = [graph.objs EXCEPT ![x.v].fields[i] = z]
    BY <1>5, <1>14, <1>20
  <2>4. v = Append(SubSeq(graph.operands, 1, len - 2), z)
    BY <1>5, <1>8, <1>9
  <2> QED
    BY <1>1, <1>5, <1>14, <1>24, <2>1, <2>2, <2>3, <2>4 DEF Abstract!Assign
<1> QED
  BY <1>24, <1>25, GraphMoves

(* Every set of objects that the words lead to, with all they lead to in   *)
(* turn, has those of D.                                                   *)
Covers(O, m, b, words, D) == \A C \in SUBSET O : Encloses(m, b, words, C) => D \subseteq C

(* What holds for the words of the stack holds for the roots that have     *)
(* them all.                                                               *)
LEMMA LeastFrom ==
  ASSUME NEW m, NEW b, NEW O, NEW D, NEW words, NEW S, NEW s \in Seq(S), NEW c \in Seq(S),
         Covers(O, m, b, words, D), words \subseteq ToSet(s) \cup ToSet(c)
  PROVE  Least(m, b, s, c, O, D)
<1>1. ASSUME NEW C \in SUBSET O, Closed(m, b, s, c, C)
      PROVE  D \subseteq C
  <2>1. Encloses(m, b, ToSet(s) \cup ToSet(c), C)
    BY <1>1, ClosedEncloses
  <2>2. Encloses(m, b, words, C)
    BY <2>1 DEF Encloses
  <2> QED
    BY <2>2 DEF Covers
<1> QED
  BY <1>1 DEF Least

(* The interpreter asks for an object: its operands are those it had.      *)
LEMMA AskGraph ==
  ASSUME MCInv, GraphInv, phase = "run", NEW O, Quiet(O), Quiet(O)', phase' = "alloc",
         UNCHANGED <<heap, mem, graph>>, OperandWords' = stack,
         ToSet(stack) \subseteq ToSet(stack') \cup ToSet(cells'), RequestDrawn'
  PROVE  GraphInv' /\ GraphStep
<1>1. PICK n, at :
        /\ Depicts(graph.objs, graph.operands, n, mem, heap.begin, stack, at, O)
        /\ \A C \in SUBSET O : Encloses(mem, heap.begin, ToSet(stack), C) => \A k \in 1 .. n : at[k] \in C
  BY RunDrawn
<1>2. Pending(O, n, at)'
  BY <1>1 DEF Pending
<1>3. Held(O, n, at)'
  <2>1. PICK m, b, words, D, s, c :
          /\ m = mem /\ b = heap.begin /\ words = ToSet(stack) /\ D = {at[k] : k \in 1 .. n}
          /\ s = stack' /\ c = cells'
    OBVIOUS
  <2>2. Covers(O, m, b, words, D)
    BY <1>1, <2>1 DEF Covers
  <2>3. PICK S : s \in Seq(S) /\ c \in Seq(S)
    <3>1. /\ s \in Seq(Refs(heap'.begin, O)) /\ c \in Seq(Refs(heap'.begin, Shaped(mem', O, request')))
      BY <2>1 DEF Quiet
    <3>2. Shaped(mem', O, request') \subseteq O
      BY DEF Shaped
    <3> QED
      BY <3>1, <3>2, RefsGrow, SeqGrow
  <2>4. words \subseteq ToSet(s) \cup ToSet(c)
    BY <2>1
  <2>5. Least(m, b, s, c, O, D)
    BY ONLY <2>2, <2>3, <2>4, LeastFrom
  <2> QED
    BY <2>1, <2>5 DEF Held
<1>4. GraphStep
  BY NoGraphStep
<1> QED
  BY <1>2, <1>3, <1>4 DEF GraphInv, GraphStands

(* An allocation is asked for: the graph is of the same words as before.   *)
LEMMA NewGraph ==
  ASSUME MCInv, GraphInv, New
  PROVE  GraphInv' /\ GraphStep
<1>1. /\ phase = "run" /\ phase' = "alloc" /\ UNCHANGED <<heap, mem, graph, stack, cells>>
      /\ \E s \in bound.shapes, r \in RawWords : request' = [type |-> s.type, len |-> s.len, raw |-> r]
  BY DEF New, Ask
<1>2. PICK O : Quiet(O)
  BY <1>1, QuietNow
<1>3. Quiet(O)'
  BY <1>2, NewStep
<1>4. bound \in Bounds /\ cells = << >>
  BY <1>1 DEF MCInv, HeapOK, StacksOK
<1>5. OperandWords' = stack
  BY <1>1, <1>4 DEF OperandWords
<1>6. RequestDrawn'
  BY <1>1, <1>4 DEF RequestDrawn
<1> QED
  BY <1>1, <1>2, <1>3, <1>5, <1>6, AskGraph

(* So it is when the object on top of the stack is to be copied, although  *)
(* a C variable is what holds it now.                                      *)
LEMMA CloneGraph ==
  ASSUME MCInv, GraphInv, Clone
  PROVE  GraphInv' /\ GraphStep
<1>1. /\ phase = "run" /\ phase' = "alloc" /\ UNCHANGED <<heap, mem, graph>>
      /\ stack # << >> /\ stack' = Front(stack)
      /\ cells' = <<Last(stack), Last(stack)>> \/ cells' = <<Last(stack)>>
  BY DEF Clone, Ask
<1>2. PICK O : Quiet(O)
  BY <1>1, QuietNow
<1>3. Quiet(O)'
  BY <1>2, CloneStep
<1>4. PICK w, s, S : w = Last(stack) /\ s = stack /\ s \in Seq(S)
  BY <1>2 DEF Quiet
<1>5. cells' # << >> /\ Last(cells') = w /\ w \in ToSet(cells')
  <2>1. <<w>> # << >> /\ Last(<<w>>) = w /\ w \in ToSet(<<w>>)
    BY DEF Last, ToSet
  <2>2. <<w, w>> # << >> /\ Last(<<w, w>>) = w /\ w \in ToSet(<<w, w>>)
    BY DEF Last, ToSet
  <2> QED
    BY <1>1, <1>4, <2>1, <2>2
<1>6. Append(Front(s), w) = s /\ ToSet(s) = ToSet(Front(s)) \cup {w}
  BY <1>1, <1>4, FrontLast, PopSeq
<1>7. OperandWords' = stack
  BY <1>1, <1>4, <1>5, <1>6 DEF OperandWords
<1>8. ToSet(stack) \subseteq ToSet(stack') \cup ToSet(cells')
  BY <1>1, <1>4, <1>5, <1>6
<1>9. RequestDrawn'
  BY <1>5 DEF RequestDrawn
<1> QED
  BY <1>1, <1>2, <1>3, <1>7, <1>8, <1>9, AskGraph

(* one object more, the last, at offset u *)
More(at, n, u, to, next) ==
  After(next, n) /\ to = [j \in 1 .. next |-> IF j <= n THEN at[j] ELSE u]

(* All objects of O begin before u.                                        *)
Below(O, u) == u \in Nat /\ \A h \in O : h \in Nat /\ h < u

(* The objects that were there keep their offsets, and the new one has u.  *)
LEMMA MoreFacts ==
  ASSUME NEW at, NEW n \in Nat, NEW u, NEW to, NEW next, More(at, n, u, to, next)
  PROVE  /\ next \in Nat /\ next \in 1 .. next /\ to[next] = u
         /\ \A j \in 1 .. n : j \in 1 .. next /\ to[j] = at[j] /\ j < next
         /\ \A j \in 1 .. next : j \in 1 .. n \/ j = next
<1>1. next = n + 1 /\ to = [j \in 1 .. next |-> IF j <= n THEN at[j] ELSE u]
  BY DEF More, After
<1>2. /\ next \in 1 .. next /\ ~(next <= n) /\ \A j \in 1 .. n : j \in 1 .. next /\ j <= n /\ j < next
      /\ \A j \in 1 .. next : j \in 1 .. n \/ j = next
  BY <1>1
<1> QED
  BY <1>1, <1>2

(* What is drawn stays so when an object is added.                         *)
LEMMA DrawnMore ==
  ASSUME NEW at, NEW n \in Nat, NEW u, NEW to, NEW next, More(at, n, u, to, next),
         NEW values, NEW words, NEW len, NEW b, Drawn(values, words, len, b, at, n)
  PROVE  Drawn(values, words, len, b, to, next)
<1>1. \A j \in 1 .. n : j \in 1 .. next /\ to[j] = at[j]
  BY MoreFacts
<1>2. ASSUME NEW v, NEW w, Shown(v, w, b, at, n)
      PROVE  Shown(v, w, b, to, next)
  BY <1>1, <1>2 DEF Shown
<1> QED
  BY <1>2 DEF Drawn

(* An object is added.                                                     *)
LEMMA DepictsMore ==
  ASSUME NEW objects, NEW n, NEW m, NEW b, NEW at, NEW O, Standing(objects, n, m, b, at, O),
         NEW u, Below(O, u), NEW to, NEW next, More(at, n, u, to, next),
         NEW x, DrawnObject(x, m, u, b, at, n), NEW made, IsAdded(made, objects, x),
         NEW S, NEW r \in Seq(S), NEW rest, Drawn(rest, r, Len(r), b, at, n),
         NEW values, IsAdded(values, rest, Abstract!Ref(next)),
         NEW t, IsAdded(t, r, Ptr(b + u + 2))
  PROVE  Depicts(made, values, next, m, b, t, to, O \cup {u})
<1>1. /\ n \in Nat /\ Len(objects) = n /\ Indexed(objects, n)
      /\ Rising(at, n) /\ \A j \in 1 .. n : at[j] \in O
      /\ \A j \in 1 .. n : DrawnObject(objects[j], m, at[j], b, at, n)
  BY DEF Standing
<1>2. /\ next \in Nat /\ next \in 1 .. next /\ to[next] = u
      /\ \A j \in 1 .. n : j \in 1 .. next /\ to[j] = at[j] /\ j < next
      /\ \A j \in 1 .. next : j \in 1 .. n \/ j = next
  BY <1>1, MoreFacts
<1>3. Indexed(made, next) /\ Len(made) = next /\ made[next] = x /\ \A j \in 1 .. n : made[j] = objects[j]
  <2>1. After(next, n)
    BY DEF More
  <2>2. Indexed(made, next) /\ Len(made) = next /\ made[next] = x /\ AgreesTo(made, objects, n)
    BY <1>1, <1>2, <2>1, AddedAt
  <2> QED
    BY <2>2 DEF AgreesTo
<1>4. ASSUME NEW y, NEW h, DrawnObject(y, m, h, b, at, n)
      PROVE  DrawnObject(y, m, h, b, to, next)
  <2>1. PICK F, G, c : F = y.fields /\ G = FieldSeq(m, h) /\ c = Fields(m, h)
    OBVIOUS
  <2>2. Drawn(F, G, c, b, at, n)
    BY <1>4, <2>1 DEF DrawnObject
  <2>3. Drawn(F, G, c, b, to, next)
    BY <1>1, <2>2, DrawnMore
  <2> QED
    BY <1>4, <2>1, <2>3 DEF DrawnObject
<1>5. \A j \in 1 .. next : DrawnObject(made[j], m, to[j], b, to, next)
  <2>1. ASSUME NEW j \in 1 .. n
        PROVE  DrawnObject(made[j], m, to[j], b, to, next)
    <3>1. PICK y, h : y = objects[j] /\ h = at[j]
      OBVIOUS
    <3>2. DrawnObject(y, m, h, b, to, next)
      BY <1>1, <1>4, <3>1
    <3> QED
      BY <1>2, <1>3, <3>1, <3>2
  <2>2. DrawnObject(made[next], m, to[next], b, to, next)
    BY <1>2, <1>3, <1>4
  <2> QED
    BY <1>2, <2>1, <2>2
<1>6. /\ \A j \in 1 .. next : to[j] \in Int /\ to[j] \in O \cup {u}
      /\ \A j, k \in 1 .. next : j < k => to[j] < to[k]
  <2>1. \A j \in 1 .. n : to[j] \in O /\ to[j] \in Int /\ to[j] < to[next]
    BY <1>1, <1>2 DEF Below
  <2>2. to[next] = u /\ u \in Int
    BY <1>2 DEF Below
  <2>3. \A j, k \in 1 .. n : j < k => to[j] < to[k]
    BY <1>1, <1>2 DEF Rising
  <2>4. ASSUME NEW j \in 1 .. next, NEW k \in 1 .. next, j < k
        PROVE  to[j] < to[k]
    <3>1. j \in 1 .. n
      <4>1. j # next
        BY <1>2, <2>4
      <4> QED
        BY <1>2, <4>1
    <3>2. CASE k = next
      BY <2>1, <3>1, <3>2
    <3>3. CASE k # next
      BY <1>2, <2>3, <2>4, <3>1, <3>3
    <3> QED
      BY <3>2, <3>3
  <2> QED
    BY <1>2, <2>1, <2>2, <2>4
<1>7. Standing(made, next, m, b, to, O \cup {u})
  BY <1>2, <1>3, <1>5, <1>6 DEF Standing, Rising
<1>8. Drawn(values, t, Len(t), b, to, next)
  <2>1. PICK y, w, len : y = Abstract!Ref(next) /\ w = Ptr(b + u + 2) /\ len = Len(r)
    OBVIOUS
  <2>2. Shown(y, w, b, to, next)
    BY <1>2, <2>1 DEF Shown, Abstract!Ref, Ptr
  <2>3. Drawn(rest, r, len, b, at, n)
    BY <2>1
  <2>4. Drawn(rest, r, len, b, to, next)
    BY ONLY <1>1, <2>3, More(at, n, u, to, next), DrawnMore
  <2>5. Drawn(rest, r, Len(r), b, to, next) /\ IsAdded(values, rest, y) /\ IsAdded(t, r, w)
    BY <2>1, <2>4
  <2> QED
    BY ONLY <2>2, <2>5, r \in Seq(S), DrawnPushed
<1> QED
  BY <1>7, <1>8 DEF Depicts

(* an object of type t and length l at u, with the content C *)
MadeAt(m, u, t, l, k, f, C) ==
  Parts(t, l, k, f) /\ m[u] = Header(t, l) /\ NewWords(m, u, k, f, C)

(* A new object has the raw words and the fields it is made of.            *)
LEMMA MadeWords ==
  ASSUME NEW m, NEW u \in Nat, NEW t, NEW l, NEW k, NEW f, NEW C, MadeAt(m, u, t, l, k, f, C)
  PROVE  /\ k \in Nat /\ f \in Nat /\ m[u].kind = t /\ Fields(m, u) = f
         /\ RawSeq(m, u) = [i \in 1 .. k |-> C[i]]
         /\ FieldSeq(m, u) = [i \in 1 .. f |-> C[k + i]]
<1>1. /\ t \in Types /\ l \in Nat /\ (t = "closure" => l > 0) /\ m[u].kind = t /\ m[u].v = l
      /\ k = RawSize(t, l) /\ f = FieldCount(t, l)
      /\ \A i \in 1 .. k + f : m[u + 1 + i] = C[i]
  BY DEF MadeAt, Parts, Header, NewWords
<1>2. k \in Nat /\ f \in Nat
  BY <1>1, SizeFacts
<1>3. Raws(m, u) = k /\ Fields(m, u) = f /\ FirstField(m, u) = u + 2 + k
  BY <1>1 DEF Raws, Fields, FirstField, HeaderWords
<1>4. \A i \in 1 .. k : m[u + 2 + i - 1] = C[i]
  <2>1. \A i \in 1 .. k : i \in 1 .. k + f /\ u + 2 + i - 1 = u + 1 + i
    BY <1>2
  <2> QED
    BY <1>1, <2>1
<1>5. \A i \in 1 .. f : m[u + 2 + k + i - 1] = C[k + i]
  <2>1. \A i \in 1 .. f : k + i \in 1 .. k + f /\ u + 2 + k + i - 1 = u + 1 + (k + i)
    BY <1>2
  <2> QED
    BY <1>1, <2>1
<1>6. RawSeq(m, u) = [i \in 1 .. k |-> m[u + 2 + i - 1]]
  BY <1>3 DEF RawSeq, HeaderWords
<1>7. FieldSeq(m, u) = [i \in 1 .. f |-> m[u + 2 + k + i - 1]]
  BY <1>3 DEF FieldSeq
<1>8. RawSeq(m, u) = [i \in 1 .. k |-> C[i]]
  BY <1>4, <1>6
<1>9. FieldSeq(m, u) = [i \in 1 .. f |-> C[k + i]]
  BY <1>5, <1>7
<1> QED
  BY <1>1, <1>2, <1>3, <1>8, <1>9

(* the top f elements of s after k raw words *)
Fresh(C, raw, s, k, f) ==
  f <= Len(s) /\ C = [i \in 1 .. k |-> raw] \o SubSeq(s, Len(s) - f + 1, Len(s))

(* s has p elements and f more.                                            *)
Measures(s, p, f) == Len(s) = p + f

(* C is k raw words, then the f elements of s after the first p.           *)
FreshWords(C, raw, s, k, f, p) ==
  (\A i \in 1 .. k : C[i] = raw) /\ (\A i \in 1 .. f : C[k + i] = s[p + i])

(* A new object has the topmost operands for its fields, in their order.   *)
LEMMA FreshIs ==
  ASSUME NEW S, NEW s \in Seq(S), NEW k \in Nat, NEW f \in Nat, NEW p \in Nat, NEW C, NEW raw,
         Fresh(C, raw, s, k, f), Measures(s, p, f)
  PROVE  FreshWords(C, raw, s, k, f, p)
<1>0. Len(s) = p + f
  BY DEF Measures
<1>1. Indexed(s, p + f) /\ Within(p, f, p + f)
  BY <1>0, SeqIndexed DEF Within
<1>2. PICK A, B, n : A = [i \in 1 .. k |-> raw] /\ B = SubSeq(s, p + 1, p + f) /\ n = p + f
  OBVIOUS
<1>3. Indexed(B, f) /\ Len(B) = f /\ AgreesAfter(B, s, p, f)
  <2>1. n \in Nat /\ Indexed(s, n) /\ Within(p, f, n) /\ IsPart(B, s, p, f)
    BY <1>1, <1>2 DEF IsPart
  <2> QED
    BY <2>1, PartAt
<1>4. PICK T : T = {raw} \cup {B[i] : i \in 1 .. f}
  OBVIOUS
<1>5. A \in Seq(T) /\ Len(A) = k /\ \A i \in 1 .. k : A[i] = raw
  <2>1. A = [i \in 1 .. k |-> A[i]] /\ \A i \in 1 .. k : A[i] \in T
    BY <1>2, <1>4
  <2> QED
    BY <1>2, <2>1, SeqByPositions
<1>6. B \in Seq(T)
  <2>1. B = [i \in 1 .. f |-> B[i]] /\ \A i \in 1 .. f : B[i] \in T
    BY <1>3, <1>4 DEF Indexed
  <2> QED
    BY <2>1, SeqByPositions
<1>7. C = A \o B
  <2>1. Len(s) - f + 1 = p + 1
    BY <1>0
  <2> QED
    BY <1>0, <1>2, <2>1 DEF Fresh
<1>8. \A i \in 1 .. k + f : C[i] = IF i <= k THEN A[i] ELSE B[i - k]
  <2>1. \A i \in 1 .. Len(A) + Len(B) : C[i] = IF i <= Len(A) THEN A[i] ELSE B[i - Len(A)]
    BY ONLY <1>5, <1>6, <1>7, ConcatProperties
  <2> QED
    BY <1>3, <1>5, <2>1
<1>9. ASSUME NEW i \in 1 .. k
      PROVE  C[i] = raw
  <2>1. i \in 1 .. k + f /\ i <= k
    OBVIOUS
  <2> QED
    BY <1>5, <1>8, <2>1
<1>10. ASSUME NEW i \in 1 .. f
       PROVE  C[k + i] = s[p + i]
  <2>1. k + i \in 1 .. k + f /\ ~(k + i <= k) /\ k + i - k = i
    OBVIOUS
  <2>2. C[k + i] = B[i]
    BY <1>8, <2>1
  <2> QED
    BY <1>3, <2>2 DEF AgreesAfter
<1> QED
  BY <1>9, <1>10 DEF FreshWords

(* the object that is made of the topmost f operands *)
FreshObject(x, t, k, raw, values, p, f) ==
  x = [type |-> t, raw |-> [i \in 1 .. k |-> raw], fields |-> SubSeq(values, p + 1, p + f)]

(* the first p elements of s *)
Begins(r, s, p) == r = SubSeq(s, 1, p)

(* A new object is drawn of operands.                                      *)
LEMMA FreshDrawn ==
  ASSUME NEW S, NEW s \in Seq(S), NEW p \in Nat, NEW f, NEW k, NEW C, NEW raw, NEW m, NEW u \in Nat,
         NEW t, NEW l, NEW values, NEW b, NEW at, NEW n, MadeAt(m, u, t, l, k, f, C),
         Fresh(C, raw, s, k, f), Measures(s, p, f), Drawn(values, s, Len(s), b, at, n),
         NEW x, FreshObject(x, t, k, raw, values, p, f)
  PROVE  /\ DrawnObject(x, m, u, b, at, n)
         /\ \E rest, r, T : /\ Begins(rest, values, p) /\ Begins(r, s, p) /\ r \in Seq(T)
                            /\ Drawn(rest, r, Len(r), b, at, n)
<1>1. /\ k \in Nat /\ f \in Nat /\ m[u].kind = t /\ Fields(m, u) = f
      /\ RawSeq(m, u) = [i \in 1 .. k |-> C[i]]
      /\ FieldSeq(m, u) = [i \in 1 .. f |-> C[k + i]]
  BY MadeWords
<1>2. /\ \A i \in 1 .. k : C[i] = raw
      /\ \A i \in 1 .. f : C[k + i] = s[p + i]
  <2>1. k \in Nat /\ f \in Nat
    BY <1>1
  <2>2. FreshWords(C, raw, s, k, f, p)
    BY <2>1, FreshIs
  <2> QED
    BY <2>2 DEF FreshWords
<1>3. PICK len : len = Len(s)
  OBVIOUS
<1>4. len \in Nat /\ len = p + f /\ Indexed(s, len) /\ Drawn(values, s, len, b, at, n)
  BY <1>3, SeqIndexed DEF Measures
<1>5. PICK F, G, rest, r : /\ F = SubSeq(values, p + 1, p + f) /\ G = SubSeq(s, p + 1, p + f)
                           /\ rest = SubSeq(values, 1, p) /\ r = SubSeq(s, 1, p)
  OBVIOUS
<1>6. IsPart(F, values, p, f) /\ IsPart(G, s, p, f) /\ Within(p, f, len)
  BY <1>1, <1>4, <1>5 DEF IsPart, Within
<1>7. IsPart(rest, values, 0, p) /\ IsPart(r, s, 0, p) /\ Within(0, p, len) /\ 0 \in Nat
  <2>1. 0 + 1 = 1 /\ 0 + p = p /\ p <= len
    BY <1>1, <1>4
  <2> QED
    BY <1>5, <2>1 DEF IsPart, Within
<1>8. Drawn(F, G, f, b, at, n)
  BY <1>1, <1>4, <1>6, DrawnPart
<1>9. Drawn(rest, r, p, b, at, n) /\ Len(r) = p /\ Indexed(r, p)
  BY <1>4, <1>7, DrawnPart
<1>10. FieldSeq(m, u) = G
  <2>1. Indexed(G, f) /\ AgreesAfter(G, s, p, f)
    BY <1>1, <1>4, <1>6, PartAt
  <2>2. G = [i \in 1 .. f |-> G[i]] /\ \A i \in 1 .. f : G[i] = s[p + i]
    BY <2>1 DEF Indexed, AgreesAfter
  <2>3. \A i \in 1 .. f : C[k + i] = G[i]
    BY <1>2, <2>2
  <2> QED
    BY <1>1, <2>2, <2>3
<1>11. RawSeq(m, u) = [i \in 1 .. k |-> raw]
  BY <1>1, <1>2
<1>12. DrawnObject(x, m, u, b, at, n)
  <2>1. x.fields = F /\ x = [type |-> m[u].kind, raw |-> RawSeq(m, u), fields |-> x.fields]
    BY <1>1, <1>5, <1>11 DEF FreshObject
  <2> QED
    BY <1>1, <1>8, <1>10, <2>1 DEF DrawnObject
<1>13. \E T : r \in Seq(T)
  <2>1. PICK T : T = {r[i] : i \in 1 .. p}
    OBVIOUS
  <2>2. r = [i \in 1 .. p |-> r[i]] /\ \A i \in 1 .. p : r[i] \in T
    BY <1>9, <2>1 DEF Indexed
  <2>3. r \in Seq(T)
    BY <2>2, SeqByPositions
  <2> QED
    BY <2>3
<1> QED
  BY <1>5, <1>9, <1>12, <1>13 DEF Begins

(* the content of the object at h *)
Copied(C, m, h, k, f) == C = [i \in 1 .. k + f |-> m[h + HeaderWords + i - 1]]

(* the header of the object at h                                           *)
Headed(m, h, t, l) == m[h].kind = t /\ m[h].v = l

(* A copy is drawn like what it is a copy of.                              *)
LEMMA CopyDrawn ==
  ASSUME NEW m, NEW n, NEW h \in Nat, NEW u \in Nat, NEW t, NEW l, NEW k, NEW f, NEW C,
         MadeAt(n, u, t, l, k, f, C), Copied(C, m, h, k, f), Headed(m, h, t, l),
         NEW x, NEW b, NEW at, NEW z, DrawnObject(x, m, h, b, at, z)
  PROVE  DrawnObject(x, n, u, b, at, z)
<1>1. /\ k \in Nat /\ f \in Nat /\ n[u].kind = t /\ Fields(n, u) = f
      /\ RawSeq(n, u) = [i \in 1 .. k |-> C[i]]
      /\ FieldSeq(n, u) = [i \in 1 .. f |-> C[k + i]]
  BY MadeWords
<1>2. Raws(m, h) = k /\ Fields(m, h) = f /\ FirstField(m, h) = h + 2 + k
  BY DEF Headed, MadeAt, Parts, Raws, Fields, FirstField, HeaderWords
<1>3. \A i \in 1 .. k + f : C[i] = m[h + 2 + i - 1]
  BY DEF Copied, HeaderWords
<1>4. \A i \in 1 .. k : C[i] = m[h + 2 + i - 1]
  BY <1>1, <1>3
<1>5. \A i \in 1 .. f : C[k + i] = m[h + 2 + k + i - 1]
  <2>1. \A i \in 1 .. f : k + i \in 1 .. k + f /\ h + 2 + (k + i) - 1 = h + 2 + k + i - 1
    BY <1>1
  <2> QED
    BY <1>3, <2>1
<1>6. RawSeq(n, u) = RawSeq(m, h)
  <2>1. RawSeq(m, h) = [i \in 1 .. k |-> m[h + 2 + i - 1]]
    BY <1>2 DEF RawSeq, HeaderWords
  <2> QED
    BY <1>1, <1>4, <2>1
<1>7. FieldSeq(n, u) = FieldSeq(m, h)
  <2>1. FieldSeq(m, h) = [i \in 1 .. f |-> m[h + 2 + k + i - 1]]
    BY <1>2 DEF FieldSeq
  <2> QED
    BY <1>1, <1>5, <2>1
<1> QED
  BY <1>1, <1>2, <1>6, <1>7 DEF DrawnObject, Headed

(* The whole of a stack is a part of it.                                   *)
LEMMA WholeSeq ==
  ASSUME NEW S, NEW s \in Seq(S)
  PROVE  SubSeq(s, 1, Len(s)) = s
<1>1. PICK n : n = Len(s)
  OBVIOUS
<1>2. n \in Nat /\ Indexed(s, n) /\ 0 \in Nat /\ 0 + n <= n /\ 0 + 1 = 1 /\ 0 + n = n
  BY <1>1, SeqIndexed
<1>3. Repeats(s, s, 0, n)
  BY DEF Repeats
<1>4. s = SubSeq(s, 0 + 1, 0 + n)
  BY <1>2, <1>3, PartOf
<1> QED
  BY <1>1, <1>2, <1>4

(* What an allocation is: to the stack, to memory, and to what was there.  *)
LEMMA AllocateFacts ==
  ASSUME MCInv, Allocate, NEW O, Quiet(O)
  PROVE  /\ phase \in {"alloc", "retry"} /\ phase' = "run" /\ Observe /\ heap'.begin = heap.begin
         /\ MCInv' /\ Kept(mem, mem', O) /\ Below(O, heap.used) /\ heap.begin \in Nat
         /\ \E u, t, l, k, f, C :
              /\ u = heap.used /\ Quiet(O \cup {u})' /\ MadeAt(mem', u, t, l, k, f, C)
              /\ t = request.type /\ l = request.len /\ k = RawSize(t, l) /\ f = FieldCount(t, l)
              /\ C = NewContent
              /\ stack' = Append(SubSeq(stack, 1, Len(stack) - Popped), Ptr(heap.begin + u + 2))
<1>1. /\ phase \in {"alloc", "retry"} /\ phase' = "run" /\ Observe /\ AllocateObject
      /\ stack' = Append(SubSeq(stack, 1, Len(stack) - Popped), Ptr(heap.begin + heap.used + 2))
  BY DEF Allocate, AllocateObject, Content, HeaderWords
<1>2. heap'.begin = heap.begin
  <2>1. heap \in [begin : Bases, size : Nat, used : Nat]
    BY DEF MCInv, HeapOK
  <2> QED
    BY <1>1, <2>1 DEF AllocateObject
<1>3. /\ MCInv' /\ \E u : u = heap.used /\ Quiet(O \cup {u})'
      /\ Kept(mem, mem', O) /\ mem'[heap.used] = Header(request.type, request.len)
      /\ NewWords(mem', heap.used, RawSize(request.type, request.len),
                  FieldCount(request.type, request.len), NewContent)
  BY <1>1, AllocateStep
<1>4. PICK u, t, l, k, f, C :
        /\ u = heap.used /\ Quiet(O \cup {u})' /\ t = request.type /\ l = request.len
        /\ k = RawSize(t, l) /\ f = FieldCount(t, l) /\ C = NewContent
  BY <1>3
<1>5. MadeAt(mem', u, t, l, k, f, C)
  <2>1. RequestOK
    BY <1>1 DEF MCInv, StacksOK
  <2>2. Parts(t, l, k, f)
    BY <1>4, <2>1 DEF RequestOK, Parts
  <2> QED
    BY <1>3, <1>4, <2>2 DEF MadeAt
<1>6. heap.begin \in Nat /\ heap.used \in Nat
  BY BoundNat DEF MCInv
<1>7. Below(O, heap.used)
  <2>1. Tiles(mem, O, 0, heap.used)
    BY DEF Quiet, Walked
  <2>2. O \subseteq 0 .. heap.used - 1
    BY <2>1, TilesFinite
  <2> QED
    BY <1>6, <2>2 DEF Below
<1> QED
  BY <1>1, <1>2, <1>3, <1>4, <1>5, <1>6, <1>7

(* An object is allocated: a new one, or a copy.                           *)
LEMMA AllocateGraph ==
  ASSUME MCInv, GraphInv, Allocate
  PROVE  GraphInv' /\ GraphStep
<1>1. phase \in {"alloc", "retry"}
  BY DEF Allocate, AllocateObject
<1>2. PICK O, n, at : Quiet(O) /\ Pending(O, n, at)
  BY <1>1 DEF GraphInv, GraphStands
<1>3. /\ phase' = "run" /\ Observe /\ heap'.begin = heap.begin
      /\ MCInv' /\ Kept(mem, mem', O) /\ Below(O, heap.used) /\ heap.begin \in Nat
  BY <1>2, AllocateFacts
<1>4. PICK u, t, l, k, f, C :
        /\ u = heap.used /\ Quiet(O \cup {u})' /\ MadeAt(mem', u, t, l, k, f, C)
        /\ t = request.type /\ l = request.len /\ k = RawSize(t, l) /\ f = FieldCount(t, l)
        /\ C = NewContent
        /\ stack' = Append(SubSeq(stack, 1, Len(stack) - Popped), Ptr(heap.begin + u + 2))
  BY <1>2, AllocateFacts
<1>5. PICK objects, values, b, s, c, m, words, R :
        /\ objects = graph.objs /\ values = graph.operands /\ b = heap.begin /\ s = stack /\ c = cells
        /\ m = mem' /\ words = OperandWords /\ R = Refs(b, O)
  OBVIOUS
<1>6. Standing(objects, n, mem, b, at, O) /\ Drawn(values, words, Len(words), b, at, n)
  BY <1>2, <1>5 DEF Pending, Depicts
<1>7. \A h \in O : h \in Nat /\ ObjectAt(mem, h)
  <2>1. Walked(O)
    BY <1>2 DEF Quiet
  <2> QED
    BY <2>1, WalkedObjects
<1>8. Standing(objects, n, m, b, at, O)
  <2>1. Depicts(objects, values, n, mem, b, words, at, O) /\ Kept(mem, m, O)
    BY <1>3, <1>5, <1>6 DEF Depicts
  <2>2. Depicts(objects, values, n, m, b, words, at, O)
    BY ONLY <1>7, <2>1, DepictsKept
  <2> QED
    BY <2>2 DEF Depicts
<1>9. s \in Seq(R) /\ u \in Nat /\ b \in Int /\ n \in Nat /\ Len(objects) = n /\ MadeAt(m, u, t, l, k, f, C)
  BY <1>2, <1>3, <1>4, <1>5, <1>8 DEF Quiet, Below, Standing
<1>10. RequestOK /\ RequestDrawn
  BY <1>1 DEF MCInv, StacksOK, GraphInv
<1>11. PICK x, rest, r, T :
         /\ DrawnObject(x, m, u, b, at, n) /\ r \in Seq(T) /\ Drawn(rest, r, Len(r), b, at, n)
         /\ stack' = Append(r, Ptr(b + u + 2))
         /\ Abstract!Made(x, rest) => Abstract!New \/ Abstract!Clone
  <2>1. CASE cells = << >>
    <3>1. PICK raw, p, len : raw = request.raw /\ len = Len(s) /\ p = len - f
      OBVIOUS
    <3>2. Popped = f /\ words = s /\ f <= len
      BY <1>4, <1>5, <1>10, <2>1, <3>1 DEF Popped, OperandWords, RequestOK
    <3>3. k \in Nat /\ f \in Nat
      BY <1>9, MadeWords
    <3>4. p \in Nat /\ len \in Nat /\ p + f = len /\ len - f = p
      BY <1>9, <3>1, <3>2, <3>3, LenProperties
    <3>5. Measures(s, p, f)
      BY <3>1, <3>4 DEF Measures
    <3>6. Fresh(C, raw, s, k, f)
      BY <1>4, <1>5, <2>1, <3>1, <3>2 DEF Fresh, NewContent
    <3>7. PICK x : FreshObject(x, t, k, raw, values, p, f)
      BY DEF FreshObject
    <3>8. Drawn(values, s, Len(s), b, at, n)
      BY <1>6, <3>2
    <3>9. s \in Seq(R) /\ p \in Nat /\ u \in Nat /\ MadeAt(m, u, t, l, k, f, C)
      BY <1>9, <3>4
    <3>10. DrawnObject(x, m, u, b, at, n) /\ \E rest, r, T :
             /\ Begins(rest, values, p) /\ Begins(r, s, p) /\ r \in Seq(T)
             /\ Drawn(rest, r, Len(r), b, at, n)
      BY ONLY <3>5, <3>6, <3>7, <3>8, <3>9, FreshDrawn
    <3>0. PICK rest, r, T :
             /\ rest = SubSeq(values, 1, p) /\ r = SubSeq(s, 1, p) /\ r \in Seq(T)
             /\ Drawn(rest, r, Len(r), b, at, n)
      BY <3>10 DEF Begins
    <3>11. stack' = Append(r, Ptr(b + u + 2))
      BY <1>4, <1>5, <3>0, <3>1, <3>2, <3>4
    <3>12. ASSUME Abstract!Made(x, rest)
           PROVE  Abstract!New
      <4>1. PICK K : K = [type |-> t, raw |-> k, fields |-> f]
        OBVIOUS
      <4>2. K \in GraphKinds
        <5>1. PICK z \in UNION {a.shapes : a \in Bounds} : request.type = z.type /\ request.len = z.len
          BY <1>10, <2>1 DEF RequestDrawn
        <5>2. K = [type |-> z.type, raw |-> RawSize(z.type, z.len), fields |-> FieldCount(z.type, z.len)]
          BY <1>4, <4>1, <5>1
        <5> QED
          BY <5>2 DEF GraphKinds
      <4>3. raw \in RawWords
        BY <1>10, <2>1, <3>1 DEF RequestDrawn
      <4>4. Len(values) = len
        BY <3>1, <3>4, <3>8, OperandsLen
      <4>5. x = [type |-> K.type, raw |-> [i \in 1 .. K.raw |-> raw], fields |-> SubSeq(values, p + 1, len)]
        BY <3>4, <3>7, <4>1 DEF FreshObject
      <4>6. K.fields = f /\ Len(values) - K.fields = p /\ p >= 0
        BY <3>4, <4>1, <4>4
      <4> QED
        BY <1>5, <3>0, <3>12, <4>2, <4>3, <4>4, <4>5, <4>6 DEF Abstract!New
    <3> QED
      BY <3>0, <3>10, <3>11, <3>12
  <2>2. CASE cells # << >>
    <3>1. PICK w, S : w = Last(c) /\ S = Refs(b, Shaped(mem, O, request))
      OBVIOUS
    <3>2. /\ Popped = 0 /\ words = Append(s, w) /\ w \in S /\ w.kind = "ptr"
      <4>1. c \in Seq(S)
        BY <1>2, <1>5, <3>1 DEF Quiet
      <4>2. w = c[Len(c)] /\ w \in S /\ Len(c) \in Nat \ {0}
        BY <1>5, <2>2, <3>1, <4>1, LastSeq
      <4>3. w.kind = "ptr"
        BY <1>5, <4>2 DEF MCInv, StacksOK
      <4> QED
        BY <1>5, <2>2, <3>1, <4>2, <4>3 DEF Popped, OperandWords
    <3>3. PICK h : h = w.v - b - 2
      OBVIOUS
    <3>4. h \in O /\ Headed(mem, h, t, l)
      <4>1. h \in Shaped(mem, O, request)
        BY <3>1, <3>2, <3>3, RefFacts
      <4> QED
        BY <1>4, <4>1 DEF Shaped, Headed
    <3>5. words \in Seq(R) /\ words # << >> /\ Front(words) = s /\ Last(words) = w
      <4>1. w \in R
        <5>1. Shaped(mem, O, request) \subseteq O
          BY DEF Shaped
        <5> QED
          BY <1>5, <3>1, <3>2, <5>1, RefsGrow
      <4> QED
        BY <1>9, <3>2, <4>1, AppendAt
    <3>6. PICK rest, y :
            /\ values # << >> /\ rest = Abstract!Front(values) /\ y = Abstract!Last(values)
            /\ Drawn(rest, s, Len(s), b, at, n) /\ Shown(y, w, b, at, n)
      BY <1>6, <3>5, DrawnPopped
    <3>7. PICK j \in 1 .. n : y.kind = "ref" /\ y.v = j /\ w.v - b - 2 = at[j]
      <4>1. \A i \in 1 .. n : at[i] \in Int
        BY <1>8 DEF Standing, Rising
      <4> QED
        BY <1>9, <3>2, <3>6, <4>1, ShownObject
    <3>8. PICK x : x = objects[j]
      OBVIOUS
    <3>9. DrawnObject(x, mem, h, b, at, n)
      BY <1>6, <3>3, <3>7, <3>8 DEF Standing
    <3>10. Copied(C, mem, h, k, f)
      <4>1. HeaderOf(w.v) = h
        BY <1>5, <3>3 DEF HeaderOf, HeaderWords
      <4> QED
        BY <1>4, <1>5, <2>2, <3>1, <4>1 DEF Copied, NewContent
    <3>11. DrawnObject(x, m, u, b, at, n)
      <4>1. h \in Nat
        BY <1>7, <3>4
      <4> QED
        BY ONLY <1>9, <3>4, <3>9, <3>10, <4>1, CopyDrawn
    <3>12. stack' = Append(s, Ptr(b + u + 2))
      <4>1. Len(s) \in Nat /\ SubSeq(s, 1, Len(s)) = s
        BY <1>9, WholeSeq, LenProperties
      <4>2. Len(s) - Popped = Len(s)
        BY <3>2, <4>1
      <4> QED
        BY <1>4, <1>5, <4>1, <4>2
    <3>13. Abstract!Made(x, rest) => Abstract!Clone
      BY <1>5, <3>6, <3>7, <3>8 DEF Abstract!Clone
    <3> QED
      BY <1>9, <3>6, <3>11, <3>12, <3>13
  <2> QED
    BY <2>1, <2>2
<1>12. PICK next, to : More(at, n, u, to, next)
  <2>1. PICK next : next = n + 1
    OBVIOUS
  <2> QED
    BY <2>1 DEF More, After
<1>13. PICK made, v, a : /\ made = Append(objects, x) /\ v = Append(rest, Abstract!Ref(next))
                         /\ a = Append(r, Ptr(b + u + 2))
  OBVIOUS
<1>14. Depicts(made, v, next, m, b, a, to, O \cup {u})
  <2>1. IsAdded(made, objects, x) /\ IsAdded(v, rest, Abstract!Ref(next)) /\ IsAdded(a, r, Ptr(b + u + 2))
    BY <1>13 DEF IsAdded
  <2>2. Below(O, u)
    BY <1>3, <1>4
  <2> QED
    BY ONLY <1>8, <1>11, <1>12, <2>1, <2>2, DepictsMore
<1>15. PICK D : D = O \cup {u}
  OBVIOUS
<1>16. Quiet(D)' /\ Depicts(made, v, next, mem', heap'.begin, stack', to, D)
  BY <1>3, <1>4, <1>5, <1>11, <1>13, <1>14, <1>15
<1>17. GraphInv' /\ Abstract!Become(made, v)
  BY <1>3, <1>16, Becomes
<1>18. Abstract!Made(x, rest)
  <2>1. next = Len(graph.objs) + 1
    BY <1>5, <1>9, <1>12 DEF More, After
  <2> QED
    BY <1>5, <1>13, <1>17, <2>1 DEF Abstract!Made
<1> QED
  BY <1>11, <1>17, <1>18, GraphMoves

-----------------------------------------------------------------------------
(***************************************************************************)
(* The heap implements the graph                                           *)
(***************************************************************************)

(* The process exits: what is drawn is still there.                        *)
LEMMA GrowFailsGraph ==
  ASSUME MCInv, GraphInv, GrowFails
  PROVE  GraphInv' /\ GraphStep
<1>1. /\ phase = "compute" /\ phase' = "exited"
      /\ UNCHANGED <<heap, mem, stack, cells, request, allocs, graph, scan, live>>
  BY DEF GrowFails, mutatorVars, collectorVars
<1>2. PICK O, n, at : Computing(O) /\ Pending(O, n, at) /\ Held(O, n, at)
  BY <1>1 DEF GraphInv, GraphStands
<1>3. Computing(O)' /\ Pending(O, n, at)' /\ Held(O, n, at)'
  BY <1>1, <1>2 DEF Computing, Walked, Pending, OperandWords, Held
<1>4. RequestDrawn' <=> RequestDrawn
  BY <1>1 DEF RequestDrawn
<1>5. GraphInv'
  BY <1>1, <1>3, <1>4 DEF GraphInv, GraphStands
<1> QED
  BY <1>1, <1>5, NoGraphStep

(* At first the heap is empty, and so is the graph.                        *)
LEMMA GraphInitial ==
  ASSUME Init
  PROVE  MCInv /\ GraphInv /\ Abstract!GraphInit
<1>1. MCInv /\ phase = "run" /\ heap.used = 0 /\ stack = << >>
  BY MCInit DEF Init
<1>2. GraphInv
  BY DEF Init, GraphInv, GraphStands
<1>3. PICK O : Quiet(O)
  BY <1>1, QuietNow
<1>4. O = {}
  <2>1. Tiles(mem, O, 0, 0)
    BY <1>1, <1>3 DEF Quiet, Walked
  <2>2. O \subseteq 0 .. 0 - 1
    BY <2>1, TilesFinite
  <2> QED
    BY <2>2
<1>5. PICK n, at : Depicts(graph.objs, graph.operands, n, mem, heap.begin, stack, at, O)
  BY <1>1, <1>2, <1>3, RunDrawn
<1>6. n \in Nat /\ Indexed(graph.objs, n) /\ (\A k \in 1 .. n : at[k] \in O)
      /\ Indexed(graph.operands, Len(stack))
  BY <1>5 DEF Depicts, Standing, Drawn
<1>7. n = 0 /\ Len(stack) = 0
  <2>1. n > 0 => 1 \in 1 .. n
    BY <1>6
  <2>2. ~(n > 0)
    BY <1>4, <1>6, <2>1
  <2> QED
    BY <1>1, <1>6, <2>2
<1>8. \A F : Indexed(F, 0) => F = << >>
  BY DEF Indexed
<1>9. graph.objs = << >> /\ graph.operands = << >>
  BY <1>6, <1>7, <1>8
<1> QED
  BY <1>1, <1>2, <1>9 DEF Abstract!GraphInit

(* Every step does to the graph what an instruction of the graph does, or  *)
(* nothing.                                                                *)
LEMMA GraphNextStep ==
  ASSUME MCInv, GraphInv, [Next]_vars
  PROVE  GraphInv' /\ GraphStep
<1>1. CASE Mutate
  BY <1>1, ConstGraph, LoadGraph, DropGraph, ElemGraph, AssignGraph, NewGraph, CloneGraph DEF Mutate
<1>2. CASE Allocate
  BY <1>2, AllocateGraph
<1>3. CASE Collector
  BY <1>3, CollectGraph, MarkingGraph, MarkDoneGraph, ComputeGraph, GrowGraph, GrowFailsGraph,
     UpdateObjectGraph, UpdateRootsGraph, RelocateGraph, RelocateDoneGraph DEF Collector
<1>4. CASE UNCHANGED vars
  <2>1. /\ heap' = heap /\ mem' = mem /\ phase' = phase /\ stack' = stack
        /\ cells' = cells /\ request' = request /\ allocs' = allocs
        /\ root' = root /\ qhead' = qhead /\ qtail' = qtail /\ field' = field
        /\ fieldEnd' = fieldEnd /\ scan' = scan /\ live' = live /\ old' = old /\ graph' = graph
    BY <1>4 DEF vars, programVars, collectorVars, markVars
  <2>2. RequestDrawn' <=> RequestDrawn
    BY <2>1 DEF RequestDrawn
  <2>3. GraphStands'
    <3>1. \A O : Quiet(O)' <=> Quiet(O)
      BY <2>1 DEF Quiet, Walked, RequestSize
    <3>2. \A O : Marking(O)' <=> Marking(O)
      BY <2>1 DEF Marking, Walked, Roots
    <3>3. \A O : Computing(O)' <=> Computing(O)
      BY <2>1 DEF Computing, Walked
    <3>4. \A O : Updating(O)' <=> Updating(O)
      BY <2>1 DEF Updating, Walked, RequestSize
    <3>5. \A P, O, to : Relocating(P, O, to)' <=> Relocating(P, O, to)
      BY <2>1 DEF Relocating, RequestSize
    <3>6. OperandWords' = OperandWords
      BY <2>1 DEF OperandWords
    <3>7. \A O, n, at : Pending(O, n, at)' <=> Pending(O, n, at)
      BY <2>1, <3>6 DEF Pending
    <3>8. \A O, n, at : Held(O, n, at)' <=> Held(O, n, at)
      BY <2>1 DEF Held
    <3>9. \A O, n, at, to : DuringUpdate(O, n, at, to)' <=> DuringUpdate(O, n, at, to)
      BY <2>1, <3>6 DEF DuringUpdate
    <3>10. \A P, O, n, to : DuringRelocation(P, O, n, to)' <=> DuringRelocation(P, O, n, to)
      BY <2>1, <3>6 DEF DuringRelocation
    <3>11. GraphStands
      BY DEF GraphInv
    <3> QED
      BY <2>1, <3>1, <3>2, <3>3, <3>4, <3>5, <3>7, <3>8, <3>9, <3>10, <3>11 DEF GraphStands
  <2>4. GraphInv'
    BY <2>1, <2>2, <2>3 DEF GraphInv
  <2> QED
    BY <2>1, <2>4, NoGraphStep
<1> QED
  BY <1>1, <1>2, <1>3, <1>4 DEF Next

(* Heap and collector implement the graph of objects, for every program,   *)
(* every size of heap and objects and wherever the heap moves to: no       *)
(* instruction sees a collection, and none sees anything but the objects   *)
(* it has built.                                                           *)
THEOREM HeapImplementsGraph == Spec => ImplementsGraph
<1>1. Init => MCInv /\ GraphInv /\ Abstract!GraphInit
  BY GraphInitial
<1>2. MCInv /\ GraphInv /\ [Next]_vars => MCInv' /\ GraphInv' /\ [Abstract!GraphNext]_(Abstract!graphVars)
  BY MCNext, GraphNextStep DEF GraphStep
<1> QED
  BY <1>1, <1>2, PTL DEF Spec, ImplementsGraph, Abstract!GraphSpec
=============================================================================
