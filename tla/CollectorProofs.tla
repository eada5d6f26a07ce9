-------------------------- MODULE CollectorProofs --------------------------
(***************************************************************************)
(* What the heap and its mark-compact collector guarantee, for heaps,      *)
(* stacks and object graphs of every size: the heap can always be walked,  *)
(* the queue of mark fits in the heap, exactly the reachable objects are   *)
(* marked, what is live slides without being overwritten, no reference is  *)
(* left that leads to where an object was, and there is room in the end.   *)
(***************************************************************************)
EXTENDS MarkCompact, BasicFacts

-----------------------------------------------------------------------------
(***************************************************************************)
(* The inductive invariant                                                 *)
(***************************************************************************)

(* the words that are no reference, or one to an object of the set C       *)
Refs(b, C) ==
  {w \in [kind : {"int", "ptr"}, v : Int] : w.kind = "ptr" => w.v - b - HeaderWords \in C}

ForwardWords == [kind : {"fwd"}, v : Int, marked : BOOLEAN, enqueued : BOOLEAN]

ObjectAt(m, h) ==
  /\ m[h].kind \in Types /\ m[h].v \in Nat /\ (m[h].kind = "closure" => m[h].v > 0)
  /\ m[h + 1] \in ForwardWords

(* the objects of O lie side by side and fill the heap from `from' to `to' *)
Tiles(m, O, from, to) ==
  /\ from \in Nat /\ to \in Nat /\ from <= to /\ from \in O \cup {to}
  /\ \A h \in O : /\ h \in Nat /\ from <= h /\ ObjectAt(m, h)
                  /\ NextObject(m, h) <= to /\ NextObject(m, h) \in O \cup {to}
  /\ \A g, h \in O : g < h => NextObject(m, g) <= h
  /\ \A h \in O \cup {to} : h = from \/ \E g \in O : h = NextObject(m, g)

FieldsIn(m, C, R) == \A h \in C : \A o \in FieldsAt(m, h) : m[o] \in R

(* C holds what the roots and its own objects lead to                      *)
Closed(m, b, s, c, C) ==
  s \in Seq(Refs(b, C)) /\ c \in Seq(Refs(b, C)) /\ FieldsIn(m, C, Refs(b, C))

(* and so does no smaller set                                              *)
Least(m, b, s, c, O, D) == \A C \in SUBSET O : Closed(m, b, s, c, C) => D \subseteq C

Marked(m, O) == {h \in O : m[h + 1].marked}
Enqueued(m, O) == {h \in O : m[h + 1].enqueued}
Seen(m, O) == Marked(m, O) \cup Enqueued(m, O)

(* the objects like the one asked for: a clone is made of one              *)
Shaped(m, O, r) == {h \in O : m[h].kind = r.type /\ m[h].v = r.len}

Dest(m, b, h) == m[h + 1].v - b
Dests(m, b, C) == {Dest(m, b, h) : h \in C}

(* the new places of the objects of D fill `from' to `to' in their order   *)
Slides(m, b, D, from, to) ==
  /\ from \in Nat /\ to \in Nat /\ from <= to
  /\ from = to \/ from \in Dests(m, b, D)
  /\ \A h \in D : /\ from <= Dest(m, b, h) /\ Dest(m, b, h) + SizeAt(m, h) <= to
                  /\ Dest(m, b, h) + SizeAt(m, h) \in Dests(m, b, D) \cup {to}
  /\ \A g, h \in D : g < h => Dest(m, b, g) + SizeAt(m, g) <= Dest(m, b, h)

(* the queue, from the slot at `head' on and before the one at `tail'      *)
QueueOf(m, b, O, used, head, tail) ==
  LET slots == {h \in O : head <= h /\ h < tail}
  IN  /\ {head, tail} \subseteq O \cup {used} /\ head <= tail
      /\ \A s, t \in slots : m[s + 1].v = m[t + 1].v => s = t
      /\ {m[s + 1].v : s \in slots} = {b + h + HeaderWords : h \in Enqueued(m, O)}
      /\ Marked(m, O) \cap Enqueued(m, O) = {}
      /\ Cardinality({h \in O : h >= tail})
           >= Cardinality(O \ Seen(m, O))

Walked(O) == Tiles(mem, O, 0, heap.used) /\ Cardinality(O) <= allocs

Quiet(O) ==
  /\ Walked(O)
  /\ Marked(mem, O) = {} /\ Enqueued(mem, O) = {}
  /\ FieldsIn(mem, O, Refs(heap.begin, O))
  /\ stack \in Seq(Refs(heap.begin, O))
  /\ cells \in Seq(Refs(heap.begin, Shaped(mem, O, request)))
  /\ \A c \in {root, qhead, qtail, field, fieldEnd} : c = 0
  /\ phase = "retry" => heap.used + RequestSize <= heap.size

Marking(O) ==
  LET b == heap.begin
      seen == Seen(mem, O)
  IN
  /\ Walked(O)
  /\ FieldsIn(mem, O, Refs(b, O))
  /\ stack \in Seq(Refs(b, O))
  /\ cells \in Seq(Refs(b, Shaped(mem, O, request)))
  /\ QueueOf(mem, b, O, heap.used, qhead, qtail)
  /\ field # fieldEnd =>
       /\ field < fieldEnd
       /\ \E c \in Marked(mem, O) : FirstField(mem, c) <= field /\ fieldEnd = NextObject(mem, c)
  /\ \A h \in Marked(mem, O) : \A o \in FieldsAt(mem, h) \ (field .. fieldEnd - 1) :
       mem[o] \in Refs(b, seen)
  /\ \A i \in 1 .. root : Roots[i] \in Refs(b, seen)
  /\ Least(mem, b, stack, cells, O, seen)

Computing(O) ==
  LET b == heap.begin
      M == Marked(mem, O)
  IN
  /\ Walked(O)
  /\ Enqueued(mem, O) = {}
  /\ Closed(mem, b, stack, cells, M) /\ Least(mem, b, stack, cells, O, M)
  /\ cells \in Seq(Refs(b, Shaped(mem, M, request)))
  /\ scan \in O \cup {heap.used} /\ live <= scan
  /\ Slides(mem, b, {h \in M : h < scan}, 0, live)

Updating(O) ==
  LET M == Marked(mem, O) IN
  /\ Walked(O)
  /\ Enqueued(mem, O) = {}
  /\ old.begin \in Nat /\ old.used = heap.used
  /\ stack \in Seq(Refs(old.begin, M))
  /\ cells \in Seq(Refs(old.begin, Shaped(mem, M, request)))
  /\ FieldsIn(mem, {h \in M : h < scan}, Refs(heap.begin, Dests(mem, old.begin, M)))
  /\ FieldsIn(mem, {h \in M : h >= scan}, Refs(old.begin, M))
  /\ scan \in O \cup {heap.used}
  /\ Slides(mem, old.begin, M, 0, live) /\ live + RequestSize <= heap.size

(* the objects of P have moved, O are where they were                      *)
Relocating(P, O, to) ==
  LET M == Marked(mem, O)
      all == P \cup Dests(mem, old.begin, M)
  IN
  /\ Tiles(mem, P, 0, to) /\ Tiles(mem, O, scan, heap.used) /\ to <= scan
  /\ Cardinality(P) + Cardinality(O) <= allocs
  /\ Marked(mem, P) = {} /\ Enqueued(mem, P) = {} /\ Enqueued(mem, O) = {}
  /\ old.begin \in Nat
  /\ stack \in Seq(Refs(heap.begin, all))
  /\ cells \in Seq(Refs(heap.begin, Shaped(mem, P, request)
                                      \cup Dests(mem, old.begin, Shaped(mem, M, request))))
  /\ FieldsIn(mem, P \cup M, Refs(heap.begin, all))
  /\ Slides(mem, old.begin, M, to, live) /\ live + RequestSize <= heap.size

Memory(m, size) ==
  /\ DOMAIN m = 0 .. size - 1
  /\ \A o \in 0 .. size - 1 : m[o].kind \in Types \cup {"fwd", "int", "ptr"}

(* an allocation that was asked for                                        *)
RequestOK ==
  /\ request.type \in Types /\ request.len \in Nat
  /\ request.type = "closure" => request.len > 0
  /\ request.raw.kind \in {"int", "ptr"}
  /\ Popped <= Len(stack) /\ Len(stack) - Popped < MaxStack

HeapOK ==
  /\ bound \in Bounds
  /\ heap \in [begin : Bases, size : Nat, used : Nat] /\ heap.used <= heap.size
  /\ Memory(mem, heap.size)

CursorsOK ==
  /\ {qhead, qtail, field, fieldEnd, scan, live} \subseteq 0 .. heap.used
  /\ root \in 0 .. Len(stack) + Len(cells)

StacksOK ==
  /\ Len(stack) <= MaxStack /\ allocs \in Nat
  /\ phase = "run" => cells = << >>
  /\ phase # "run" => RequestOK
  /\ \A i \in 1 .. Len(cells) : cells[i].kind = "ptr"

Phases ==
  \/ phase \in {"run", "alloc", "retry"} /\ \E O : Quiet(O)
  \/ phase = "mark" /\ \E O : Marking(O)
  \/ phase \in {"compute", "exited"} /\ \E O : Computing(O)
  \/ phase = "update" /\ \E O : Updating(O)
  \/ phase = "relocate" /\ \E P, O, to : Relocating(P, O, to)

MCInv == HeapOK /\ CursorsOK /\ StacksOK /\ Phases

-----------------------------------------------------------------------------
(***************************************************************************)
(* Objects and where they lie                                              *)
(***************************************************************************)

(* The parts of an object of each type have sizes.                         *)
LEMMA SizeFacts ==
  ASSUME NEW t \in Types, NEW n \in Nat, t = "closure" => n > 0
  PROVE  /\ RawSize(t, n) \in Nat /\ FieldCount(t, n) \in Nat
         /\ Size(t, n) = 2 + RawSize(t, n) + FieldCount(t, n)
<1>1. CASE t = "array"
  BY <1>1 DEF RawSize, FieldCount, Size, HeaderWords
<1>2. CASE t = "sexp"
  BY <1>2 DEF RawSize, FieldCount, Size, HeaderWords
<1>3. CASE t = "closure"
  BY <1>3 DEF RawSize, FieldCount, Size, HeaderWords
<1>4. CASE t = "string"
  <2>1. (n + 1 + 3) \div 4 \in Nat
    OBVIOUS
  <2> QED
    BY <1>4, <2>1 DEF RawSize, FieldCount, Size, HeaderWords
<1> QED
  BY <1>1, <1>2, <1>3, <1>4 DEF Types

(* An object has its two header words, then raw words, then fields.        *)
LEMMA ObjectSize ==
  ASSUME NEW m, NEW h \in Nat, ObjectAt(m, h)
  PROVE  /\ FirstField(m, h) \in Nat /\ NextObject(m, h) \in Nat /\ SizeAt(m, h) \in Nat
         /\ h + 2 <= FirstField(m, h) /\ FirstField(m, h) <= NextObject(m, h)
         /\ NextObject(m, h) = h + SizeAt(m, h) /\ SizeAt(m, h) >= 2
         /\ FirstField(m, h) = h + 2 + RawSize(m[h].kind, m[h].v)
         /\ RawSize(m[h].kind, m[h].v) \in Nat
         /\ SizeAt(m, h) = 2 + RawSize(m[h].kind, m[h].v) + FieldCount(m[h].kind, m[h].v)
<1>1. PICK t, n : t = m[h].kind /\ n = m[h].v
  OBVIOUS
<1>2. t \in Types /\ n \in Nat /\ (t = "closure" => n > 0)
  BY <1>1 DEF ObjectAt
<1>3. /\ RawSize(t, n) \in Nat /\ FieldCount(t, n) \in Nat
      /\ Size(t, n) = 2 + RawSize(t, n) + FieldCount(t, n)
  BY <1>2, SizeFacts
<1>4. /\ SizeAt(m, h) = Size(t, n)
      /\ NextObject(m, h) = h + Size(t, n)
      /\ FirstField(m, h) = h + 2 + RawSize(t, n)
  BY <1>1 DEF SizeAt, NextObject, FirstField, HeaderWords
<1> QED
  BY <1>1, <1>3, <1>4

(* the same object there in both, but for its forward word                 *)
Alike(m, n, h) == n[h] = m[h] /\ n[h + 1] \in ForwardWords

SameFields(m, n, h) == \A o \in FieldsAt(m, h) : n[o] = m[o]

SameRaws(m, n, h) == \A o \in h + 2 .. FirstField(m, h) - 1 : n[o] = m[o]

Kept(m, n, O) == \A h \in O : Alike(m, n, h) /\ SameFields(m, n, h) /\ SameRaws(m, n, h)

(* Objects with the same header have the same extent.                      *)
LEMMA AlikeObject ==
  ASSUME NEW m, NEW n, NEW h, ObjectAt(m, h), Alike(m, n, h)
  PROVE  /\ ObjectAt(n, h) /\ NextObject(n, h) = NextObject(m, h)
         /\ FirstField(n, h) = FirstField(m, h) /\ SizeAt(n, h) = SizeAt(m, h)
         /\ FieldsAt(n, h) = FieldsAt(m, h)
<1>1. n[h] = m[h] /\ n[h + 1] \in ForwardWords
  BY DEF Alike
<1>2. ObjectAt(n, h)
  BY <1>1 DEF ObjectAt
<1>3. SizeAt(n, h) = SizeAt(m, h) /\ FirstField(n, h) = FirstField(m, h)
  BY <1>1 DEF SizeAt, FirstField
<1> QED
  BY <1>2, <1>3 DEF NextObject, FieldsAt

(* Where the headers are the same, objects that fill the heap still do.    *)
LEMMA TilesAlike ==
  ASSUME NEW m, NEW n, NEW O, NEW from, NEW to, Tiles(m, O, from, to), \A h \in O : Alike(m, n, h)
  PROVE  Tiles(n, O, from, to)
<1>1. \A h \in O : ObjectAt(m, h)
  BY DEF Tiles
<1>2. \A h \in O : ObjectAt(n, h) /\ NextObject(n, h) = NextObject(m, h)
  BY <1>1, AlikeObject
<1>3. /\ from \in Nat /\ to \in Nat /\ from <= to /\ from \in O \cup {to}
      /\ \A h \in O : /\ h \in Nat /\ from <= h
                      /\ NextObject(m, h) <= to /\ NextObject(m, h) \in O \cup {to}
      /\ \A g, h \in O : g < h => NextObject(m, g) <= h
      /\ \A h \in O \cup {to} : h = from \/ \E g \in O : h = NextObject(m, g)
  BY DEF Tiles
<1> QED
  BY <1>2, <1>3 DEF Tiles

(* Objects that are kept lead where they led.                              *)
LEMMA FieldsKept ==
  ASSUME NEW m, NEW n, NEW C, NEW R, \A h \in C : ObjectAt(m, h), Kept(m, n, C)
  PROVE  FieldsIn(n, C, R) <=> FieldsIn(m, C, R)
<1>1. ASSUME NEW h \in C
      PROVE  FieldsAt(n, h) = FieldsAt(m, h) /\ \A o \in FieldsAt(m, h) : n[o] = m[o]
  <2>1. ObjectAt(m, h) /\ Alike(m, n, h) /\ SameFields(m, n, h)
    BY DEF Kept
  <2> QED
    BY <2>1, AlikeObject DEF SameFields
<1> QED
  BY <1>1 DEF FieldsIn

(* Which sets are closed depends on the fields only.                       *)
LEMMA LeastKept ==
  ASSUME NEW m, NEW n, NEW b, NEW s, NEW c, NEW O, NEW D,
         \A h \in O : ObjectAt(m, h), Kept(m, n, O), Least(m, b, s, c, O, D)
  PROVE  Least(n, b, s, c, O, D)
<1>1. ASSUME NEW C \in SUBSET O, Closed(n, b, s, c, C)
      PROVE  Closed(m, b, s, c, C)
  <2>1. (\A h \in C : ObjectAt(m, h)) /\ Kept(m, n, C)
    BY DEF Kept
  <2>2. PICK R : R = Refs(b, C)
    OBVIOUS
  <2>3. FieldsIn(n, C, R) <=> FieldsIn(m, C, R)
    BY <2>1, FieldsKept
  <2> QED
    BY <1>1, <2>2, <2>3, Zenon DEF Closed
<1> QED
  BY <1>1 DEF Least

(* A larger set of objects gives more references.                          *)
LEMMA RefsGrow ==
  ASSUME NEW b, NEW C, NEW D, C \subseteq D
  PROVE  Refs(b, C) \subseteq Refs(b, D)
  BY DEF Refs

(* A reference to an object of C, seen from another place of the heap.     *)
LEMMA RefFacts ==
  ASSUME NEW b, NEW C, NEW w \in Refs(b, C)
  PROVE  /\ w.kind \in {"int", "ptr"} /\ w.v \in Int
         /\ w.kind = "ptr" => w.v - b - 2 \in C
         /\ \A c, D : (w.kind = "ptr" => w.v - c - 2 \in D) => w \in Refs(c, D)
<1>1. w \in [kind : {"int", "ptr"}, v : Int] /\ (w.kind = "ptr" => w.v - b - HeaderWords \in C)
  BY DEF Refs
<1>2. HeaderWords = 2
  BY DEF HeaderWords
<1>3. ASSUME NEW c, NEW D, w.kind = "ptr" => w.v - c - 2 \in D
      PROVE  w \in Refs(c, D)
  BY <1>1, <1>2, <1>3 DEF Refs
<1> QED
  BY <1>1, <1>2, <1>3

(* A number is no reference, and one to the content of an object is.       *)
LEMMA NewRefs ==
  /\ \A b, C : Box(1) \in Refs(b, C)
  /\ \A a \in Int : \A b, C : a - b - 2 \in C => Ptr(a) \in Refs(b, C)
  BY DEF Refs, Box, Ptr, HeaderWords

(* A sequence over a set is one over a larger set.                         *)
LEMMA SeqGrow ==
  ASSUME NEW S, NEW T, S \subseteq T, NEW s \in Seq(S)
  PROVE  s \in Seq(T)
<1>1. /\ Len(s) \in Nat /\ DOMAIN s = 1 .. Len(s) /\ (\A k \in 1 .. Len(s) : s[k] \in S)
      /\ s = [k \in 1 .. Len(s) |-> s[k]]
  BY LenProperties, ElementOfSeq
<1> QED
  BY <1>1, SeqByPositions

(* Distinct objects do not overlap.                                        *)
LEMMA Apart ==
  ASSUME NEW m, NEW O, NEW from, NEW to, Tiles(m, O, from, to), NEW g \in O, NEW h \in O
  PROVE  /\ g \in Nat /\ h \in Nat
         /\ g # h + 1
         /\ \A o \in Int : h + 2 <= o /\ o < NextObject(m, h) => o # g /\ o # g + 1
<1>1. /\ g \in Nat /\ ObjectAt(m, g) /\ h \in Nat /\ ObjectAt(m, h)
      /\ (g < h => NextObject(m, g) <= h) /\ (h < g => NextObject(m, h) <= g)
  BY DEF Tiles
<1>2. /\ NextObject(m, g) \in Nat /\ NextObject(m, h) \in Nat
      /\ g + 2 <= NextObject(m, g) /\ h + 2 <= NextObject(m, h)
  BY <1>1, ObjectSize
<1> QED
  BY <1>1, <1>2

-----------------------------------------------------------------------------
(***************************************************************************)
(* Writing forward words                                                   *)
(***************************************************************************)

(* SET_FORWARD_ADDRESS keeps the flags.                                    *)
LEMMA ForwardValue ==
  ASSUME NEW w \in ForwardWords, NEW p \in Int, NEW u, u = [w EXCEPT !.v = p]
  PROVE  u \in ForwardWords /\ u.v = p /\ (u.marked <=> w.marked) /\ (u.enqueued <=> w.enqueued)
  BY DEF ForwardWords

(* MAKE_ENQUEUED keeps the address and the mark.                           *)
LEMMA ForwardEnqueued ==
  ASSUME NEW w \in ForwardWords, NEW u, u = [w EXCEPT !.enqueued = TRUE]
  PROVE  u \in ForwardWords /\ u.v = w.v /\ (u.marked <=> w.marked) /\ u.enqueued
  BY DEF ForwardWords

(* MAKE_DEQUEUED keeps the address and the mark.                           *)
LEMMA ForwardDequeued ==
  ASSUME NEW w \in ForwardWords, NEW u, u = [w EXCEPT !.enqueued = FALSE]
  PROVE  u \in ForwardWords /\ u.v = w.v /\ (u.marked <=> w.marked) /\ ~u.enqueued
  BY DEF ForwardWords

(* mark_object keeps the address and the enqueued flag.                    *)
LEMMA ForwardMarked ==
  ASSUME NEW w \in ForwardWords, NEW u, u = [w EXCEPT !.marked = TRUE]
  PROVE  u \in ForwardWords /\ u.v = w.v /\ u.marked /\ (u.enqueued <=> w.enqueued)
  BY DEF ForwardWords

(* the words of the objects of O are words of the heap                     *)
LEMMA InHeap ==
  ASSUME NEW m, NEW O, NEW from, NEW to, Tiles(m, O, from, to),
         NEW size \in Nat, to <= size, Memory(m, size), NEW h \in O
  PROVE  /\ h \in DOMAIN m /\ h + 1 \in DOMAIN m
         /\ \A o \in Int : h <= o /\ o < NextObject(m, h) => o \in DOMAIN m
<1>1. h \in Nat /\ ObjectAt(m, h) /\ NextObject(m, h) <= to /\ to \in Nat
  BY DEF Tiles
<1>2. NextObject(m, h) \in Nat /\ h + 2 <= NextObject(m, h)
  BY <1>1, ObjectSize
<1>3. DOMAIN m = 0 .. size - 1
  BY DEF Memory
<1> QED
  BY <1>1, <1>2, <1>3

(* and so do their forward words.                                          *)
LEMMA ForwardsInHeap ==
  ASSUME NEW m, NEW O, NEW from, NEW to, Tiles(m, O, from, to),
         NEW size \in Nat, to <= size, Memory(m, size)
  PROVE  \A x \in O : x \in Nat /\ x + 1 \in DOMAIN m /\ m[x + 1] \in ForwardWords
<1> SUFFICES ASSUME NEW x \in O
             PROVE  x \in Nat /\ x + 1 \in DOMAIN m /\ m[x + 1] \in ForwardWords
  OBVIOUS
<1>1. x + 1 \in DOMAIN m
  BY InHeap
<1> QED
  BY <1>1 DEF Tiles, ObjectAt

(* Writing forward words leaves the objects, and what is in them, in       *)
(* place.                                                                  *)
LEMMA OnlyForwards ==
  ASSUME NEW m, NEW O, NEW from, NEW to, Tiles(m, O, from, to),
         NEW size \in Nat, to <= size, Memory(m, size),
         NEW n, DOMAIN n = DOMAIN m,
         \A o \in DOMAIN m : n[o] = m[o] \/ (\E x \in O : o = x + 1 /\ n[o] \in ForwardWords)
  PROVE  Kept(m, n, O) /\ Memory(n, size) /\ Tiles(n, O, from, to)
<1>1. ASSUME NEW h \in O
      PROVE  Alike(m, n, h) /\ SameFields(m, n, h) /\ SameRaws(m, n, h)
  <2>1. h \in Nat /\ ObjectAt(m, h)
    BY DEF Tiles
  <2>2. h \in DOMAIN m /\ h + 1 \in DOMAIN m
    BY InHeap
  <2>3. n[h] = m[h]
    <3>1. \A x \in O : h # x + 1
      BY Apart
    <3> QED
      BY <2>2, <3>1
  <2>4. n[h + 1] \in ForwardWords
    <3>1. m[h + 1] \in ForwardWords
      BY <2>1 DEF ObjectAt
    <3> QED
      BY <2>2, <3>1
  <2>5. /\ FirstField(m, h) \in Nat /\ NextObject(m, h) \in Nat
        /\ h + 2 <= FirstField(m, h) /\ FirstField(m, h) <= NextObject(m, h)
    BY <2>1, ObjectSize
  <2>6. ASSUME NEW o \in h + 2 .. NextObject(m, h) - 1
        PROVE  n[o] = m[o]
    <3>1. o \in Int /\ h + 2 <= o /\ h <= o /\ o < NextObject(m, h)
      BY <2>1, <2>5
    <3>2. o \in DOMAIN m
      BY <3>1, InHeap
    <3>3. \A x \in O : o # x + 1
      BY <3>1, Apart
    <3> QED
      BY <3>2, <3>3
  <2>7. /\ FieldsAt(m, h) \subseteq h + 2 .. NextObject(m, h) - 1
        /\ h + 2 .. FirstField(m, h) - 1 \subseteq h + 2 .. NextObject(m, h) - 1
    BY <2>1, <2>5 DEF FieldsAt
  <2> QED
    BY <2>3, <2>4, <2>6, <2>7 DEF Alike, SameFields, SameRaws
<1>2. Kept(m, n, O)
  BY <1>1 DEF Kept
<1>3. Tiles(n, O, from, to)
  BY <1>1, TilesAlike
<1>4. Memory(n, size)
  <2>1. \A w \in ForwardWords : w.kind = "fwd"
    BY DEF ForwardWords
  <2> QED
    BY <2>1 DEF Memory
<1> QED
  BY <1>2, <1>3, <1>4

(* What becomes of the forward words of the objects of O.                  *)
SameAt(m, n, D) == \A h \in D : n[h] = m[h] /\ n[h + 1] = m[h + 1]

SameWords(m, n, from, to) == \A o \in DOMAIN m : from <= o /\ o < to => n[o] = m[o]

(* Objects whose words are the same in both.                               *)
LEMMA WordsSame ==
  ASSUME NEW m, NEW n, NEW O, NEW from, NEW to, NEW size, Tiles(m, O, from, to),
         size \in Nat, to <= size, Memory(m, size),
         SameWords(m, n, from, to)
  PROVE  /\ Kept(m, n, O) /\ Tiles(n, O, from, to)
         /\ \A h \in O : n[h] = m[h] /\ n[h + 1] = m[h + 1]
<1>1. ASSUME NEW h \in O
      PROVE  /\ n[h] = m[h] /\ n[h + 1] = m[h + 1]
             /\ Alike(m, n, h) /\ SameFields(m, n, h) /\ SameRaws(m, n, h)
  <2>1. /\ h \in DOMAIN m /\ h + 1 \in DOMAIN m
        /\ \A o \in Int : h <= o /\ o < NextObject(m, h) => o \in DOMAIN m
    BY InHeap
  <2>2. /\ h \in Nat /\ ObjectAt(m, h) /\ from <= h /\ NextObject(m, h) <= to
        /\ from \in Nat /\ to \in Nat
    BY DEF Tiles
  <2>3. /\ FirstField(m, h) \in Nat /\ NextObject(m, h) \in Nat /\ h + 2 <= FirstField(m, h)
        /\ FirstField(m, h) <= NextObject(m, h)
    BY <2>2, ObjectSize
  <2>4. n[h] = m[h] /\ n[h + 1] = m[h + 1]
    BY <2>1, <2>2, <2>3 DEF SameWords
  <2>5. ASSUME NEW o \in h + 2 .. NextObject(m, h) - 1
        PROVE  n[o] = m[o]
    <3>1. o \in Int /\ h <= o /\ o < NextObject(m, h) /\ from <= o /\ o < to
      BY <2>2, <2>3
    <3> QED
      BY <2>1, <3>1 DEF SameWords
  <2>6. /\ FieldsAt(m, h) \subseteq h + 2 .. NextObject(m, h) - 1
        /\ h + 2 .. FirstField(m, h) - 1 \subseteq h + 2 .. NextObject(m, h) - 1
    BY <2>2, <2>3 DEF FieldsAt
  <2> QED
    BY <2>2, <2>4, <2>5, <2>6 DEF Alike, SameFields, SameRaws, ObjectAt
<1>2. Tiles(n, O, from, to)
  BY <1>1, TilesAlike
<1> QED
  BY <1>1, <1>2 DEF Kept

Enqueues(m, n, O, t, p, h) ==
  \A x \in O : /\ n[x + 1].v = IF x = t THEN p ELSE m[x + 1].v
               /\ n[x + 1].marked <=> m[x + 1].marked
               /\ n[x + 1].enqueued <=> (x = h \/ m[x + 1].enqueued)

Dequeues(m, n, O, h) ==
  \A x \in O : /\ n[x + 1].v = m[x + 1].v
               /\ n[x + 1].marked <=> (x = h \/ m[x + 1].marked)
               /\ n[x + 1].enqueued <=> (x # h /\ m[x + 1].enqueued)

Forwards(m, n, O, t, p) ==
  \A x \in O : /\ n[x + 1].v = IF x = t THEN p ELSE m[x + 1].v
               /\ n[x + 1].marked <=> m[x + 1].marked
               /\ n[x + 1].enqueued <=> m[x + 1].enqueued

(* What setting one forward address does to the objects.                   *)
LEMMA SetForwardEffect ==
  ASSUME NEW m, NEW O, NEW from, NEW to, Tiles(m, O, from, to),
         NEW size \in Nat, to <= size, Memory(m, size),
         NEW t \in O, NEW p \in Int
  PROVE  LET n == SetForward(m, t, p)
         IN  /\ Kept(m, n, O) /\ Memory(n, size) /\ Tiles(n, O, from, to)
             /\ Forwards(m, n, O, t, p)
<1> DEFINE n == SetForward(m, t, p)
<1>1. /\ t \in Nat /\ t + 1 \in DOMAIN m /\ m[t + 1] \in ForwardWords
      /\ \A x \in O : x \in Nat /\ x + 1 \in DOMAIN m
  BY ForwardsInHeap
<1>2. PICK w : w = [m[t + 1] EXCEPT !.v = p]
  OBVIOUS
<1>3. w \in ForwardWords /\ w.v = p /\ (w.marked <=> m[t + 1].marked) /\ (w.enqueued <=> m[t + 1].enqueued)
  BY <1>1, <1>2, ForwardValue
<1>4. n = [m EXCEPT ![t + 1] = w]
  BY <1>2 DEF SetForward
<1> HIDE DEF n
<1>5. DOMAIN n = DOMAIN m /\ n[t + 1] = w /\ \A o \in DOMAIN m : o # t + 1 => n[o] = m[o]
  BY <1>1, <1>4
<1>6. Kept(m, n, O) /\ Memory(n, size) /\ Tiles(n, O, from, to)
  <2>1. \A o \in DOMAIN m : n[o] = m[o] \/ (\E x \in O : o = x + 1 /\ n[o] \in ForwardWords)
    BY <1>3, <1>5
  <2> QED
    BY <1>5, <2>1, OnlyForwards
<1>7. Forwards(m, n, O, t, p)
  <2>1. ASSUME NEW x \in O, x # t
        PROVE  n[x + 1] = m[x + 1]
    <3>1. x + 1 \in DOMAIN m /\ x + 1 # t + 1
      BY <1>1, <2>1
    <3> QED
      BY <1>5, <3>1
  <2> QED
    BY <1>3, <1>5, <2>1 DEF Forwards
<1> QED
  BY <1>6, <1>7 DEF n

(* What queue_enqueue does: a slot is filled and an object gets the flag.  *)
LEMMA EnqueueEffect ==
  ASSUME NEW m, NEW O, NEW from, NEW to, Tiles(m, O, from, to),
         NEW size \in Nat, to <= size, Memory(m, size),
         NEW t \in O, NEW p \in Int, HeaderOf(p) \in O
  PROVE  LET q == Enqueue([mem |-> m, tail |-> t], p)
         IN  /\ Kept(m, q.mem, O) /\ Memory(q.mem, size) /\ Tiles(q.mem, O, from, to)
             /\ Enqueues(m, q.mem, O, t, p, HeaderOf(p))
             /\ q.tail = NextObject(m, t)
<1>1. PICK h : h = HeaderOf(p)
  OBVIOUS
<1>2. PICK k : k = SetForward(m, t, p)
  OBVIOUS
<1>3. Kept(m, k, O) /\ Memory(k, size) /\ Tiles(k, O, from, to) /\ Forwards(m, k, O, t, p)
  BY <1>2, SetForwardEffect
<1>4. /\ h \in O /\ h \in Nat /\ h + 1 \in DOMAIN k /\ k[h + 1] \in ForwardWords
      /\ \A x \in O : x \in Nat /\ x + 1 \in DOMAIN k
  BY <1>1, <1>3, ForwardsInHeap
<1>5. PICK w : w = [k[h + 1] EXCEPT !.enqueued = TRUE]
  OBVIOUS
<1>6. w \in ForwardWords /\ w.v = k[h + 1].v /\ (w.marked <=> k[h + 1].marked) /\ w.enqueued
  BY <1>4, <1>5, ForwardEnqueued
<1>7. PICK n : n = [k EXCEPT ![h + 1] = w]
  OBVIOUS
<1>8. Enqueue([mem |-> m, tail |-> t], p) = [mem |-> n, tail |-> NextObject(k, t)]
  BY <1>1, <1>2, <1>5, <1>7 DEF Enqueue
<1>9. DOMAIN n = DOMAIN k /\ n[h + 1] = w /\ \A o \in DOMAIN k : o # h + 1 => n[o] = k[o]
  BY <1>4, <1>7
<1>10. Kept(k, n, O) /\ Memory(n, size) /\ Tiles(n, O, from, to)
  <2>1. \A o \in DOMAIN k : n[o] = k[o] \/ (\E x \in O : o = x + 1 /\ n[o] \in ForwardWords)
    BY <1>4, <1>6, <1>9
  <2> QED
    BY <1>3, <1>9, <2>1, OnlyForwards
<1>11. Enqueues(m, n, O, t, p, h)
  <2>1. ASSUME NEW x \in O, x # h
        PROVE  n[x + 1] = k[x + 1]
    BY <1>4, <1>9, <2>1
  <2> QED
    BY <1>3, <1>6, <1>9, <2>1 DEF Forwards, Enqueues
<1>12. ASSUME NEW x \in O
       PROVE  /\ Alike(m, n, x) /\ SameFields(m, n, x) /\ SameRaws(m, n, x)
              /\ NextObject(k, x) = NextObject(m, x)
  <2>1. /\ Alike(m, k, x) /\ SameFields(m, k, x) /\ SameRaws(m, k, x)
        /\ Alike(k, n, x) /\ SameFields(k, n, x) /\ SameRaws(k, n, x)
    BY <1>3, <1>10 DEF Kept
  <2>2. ObjectAt(m, x)
    BY DEF Tiles
  <2>3. /\ NextObject(k, x) = NextObject(m, x) /\ FieldsAt(k, x) = FieldsAt(m, x)
        /\ FirstField(k, x) = FirstField(m, x)
    BY <2>1, <2>2, AlikeObject
  <2> QED
    BY <2>1, <2>3 DEF Alike, SameFields, SameRaws
<1>13. Kept(m, n, O)
  BY <1>12 DEF Kept
<1> QED
  BY <1>1, <1>8, <1>10, <1>11, <1>12, <1>13

(* What queue_dequeue and mark_object do to the object that is dequeued.   *)
LEMMA DequeuedEffect ==
  ASSUME NEW O, NEW from, NEW to, Tiles(mem, O, from, to),
         NEW size \in Nat, to <= size, Memory(mem, size), NEW h \in O
  PROVE  LET n == Dequeued(h)
         IN  /\ Kept(mem, n, O) /\ Memory(n, size) /\ Tiles(n, O, from, to)
             /\ Dequeues(mem, n, O, h)
<1>1. /\ h \in Nat /\ h + 1 \in DOMAIN mem /\ mem[h + 1] \in ForwardWords
      /\ \A x \in O : x \in Nat /\ x + 1 \in DOMAIN mem
  BY ForwardsInHeap
<1>2. PICK u : u = [mem[h + 1] EXCEPT !.enqueued = FALSE]
  OBVIOUS
<1>3. u \in ForwardWords /\ u.v = mem[h + 1].v /\ (u.marked <=> mem[h + 1].marked) /\ ~u.enqueued
  BY <1>1, <1>2, ForwardDequeued
<1>4. PICK w : w = [u EXCEPT !.marked = TRUE]
  OBVIOUS
<1>5. w \in ForwardWords /\ w.v = mem[h + 1].v /\ w.marked /\ ~w.enqueued
  BY <1>3, <1>4, ForwardMarked
<1>6. PICK n : n = [mem EXCEPT ![h + 1] = w]
  OBVIOUS
<1>7. Dequeued(h) = n
  BY <1>1, <1>2, <1>4, <1>6 DEF Dequeued
<1>8. DOMAIN n = DOMAIN mem /\ n[h + 1] = w /\ \A o \in DOMAIN mem : o # h + 1 => n[o] = mem[o]
  BY <1>1, <1>6
<1>9. Kept(mem, n, O) /\ Memory(n, size) /\ Tiles(n, O, from, to)
  <2>1. \A o \in DOMAIN mem : n[o] = mem[o] \/ (\E x \in O : o = x + 1 /\ n[o] \in ForwardWords)
    BY <1>5, <1>8
  <2> QED
    BY <1>8, <2>1, OnlyForwards
<1>10. Dequeues(mem, n, O, h)
  <2>1. ASSUME NEW x \in O, x # h
        PROVE  n[x + 1] = mem[x + 1]
    <3>1. x + 1 \in DOMAIN mem /\ x + 1 # h + 1
      BY <1>1, <2>1
    <3> QED
      BY <1>8, <3>1
  <2> QED
    BY <1>5, <1>8, <2>1 DEF Dequeues
<1> QED
  BY <1>7, <1>9, <1>10

-----------------------------------------------------------------------------
(***************************************************************************)
(* The interpreter                                                         *)
(***************************************************************************)

(* Objects that fill the heap are finitely many.                           *)
LEMMA TilesFinite ==
  ASSUME NEW m, NEW O, NEW from, NEW to, Tiles(m, O, from, to)
  PROVE  /\ O \subseteq from .. to - 1 /\ from \in Nat /\ to \in Nat /\ to \notin O
         /\ IsFiniteSet(O) /\ Cardinality(O) \in Nat
         /\ \A h \in O : h \in Nat /\ ObjectAt(m, h) /\ NextObject(m, h) \in O \cup {to}
<1>1. /\ from \in Nat /\ to \in Nat
      /\ \A h \in O : /\ h \in Nat /\ from <= h /\ ObjectAt(m, h) /\ NextObject(m, h) <= to
                      /\ NextObject(m, h) \in O \cup {to}
  BY DEF Tiles
<1>2. ASSUME NEW h \in O
      PROVE  h \in from .. to - 1
  <2>1. h \in Nat /\ from <= h /\ NextObject(m, h) <= to /\ ObjectAt(m, h)
    BY <1>1
  <2>2. NextObject(m, h) \in Nat /\ h + 2 <= NextObject(m, h)
    BY <2>1, ObjectSize
  <2> QED
    BY <1>1, <2>1, <2>2
<1>3. O \subseteq from .. to - 1
  BY <1>2
<1>4. to \notin O
  BY <1>1, <1>3
<1>5. IsFiniteSet(O) /\ Cardinality(O) \in Nat
  <2>1. IsFiniteSet(from .. to - 1)
    BY <1>1, FS_Interval
  <2> QED
    BY <1>3, <2>1, FS_Subset, FS_CardinalityType
<1> QED
  BY <1>1, <1>3, <1>4, <1>5

(* A step of the interpreter that changes the stack, or a field.           *)
LEMMA MutatorStep ==
  ASSUME HeapOK, CursorsOK, StacksOK, phase = "run", NEW O, Quiet(O),
         UNCHANGED <<bound, heap, phase, cells, request, allocs, collectorVars>>,
         Memory(mem', heap.size), Tiles(mem', O, 0, heap.used),
         Marked(mem', O) = {}, Enqueued(mem', O) = {},
         FieldsIn(mem', O, Refs(heap.begin, O)),
         stack' \in Seq(Refs(heap.begin, O)), Len(stack') <= MaxStack
  PROVE  MCInv' /\ Quiet(O)'
<1>1. /\ root = 0 /\ qhead = 0 /\ qtail = 0 /\ field = 0 /\ fieldEnd = 0
      /\ Cardinality(O) <= allocs
  BY DEF Quiet, Walked
<1>2. cells = << >>
  BY DEF StacksOK
<1>3. HeapOK'
  BY DEF HeapOK
<1>4. CursorsOK'
  <2>1. Len(stack') \in Nat /\ Len(cells') \in Nat
    BY <1>2
  <2> QED
    BY <1>1, <2>1 DEF CursorsOK, collectorVars, markVars
<1>5. StacksOK'
  BY <1>2 DEF StacksOK
<1>6. Quiet(O)'
  <2>1. cells' \in Seq(Refs(heap.begin, Shaped(mem', O, request)))
    BY <1>2
  <2> QED
    BY <1>1, <2>1 DEF Quiet, Walked, collectorVars, markVars
<1> QED
  BY <1>3, <1>4, <1>5, <1>6 DEF MCInv, Phases

(* Only the stack changes.                                                 *)
LEMMA StackStep ==
  ASSUME HeapOK, CursorsOK, StacksOK, phase = "run", NEW O, Quiet(O),
         UNCHANGED <<bound, heap, mem, phase, cells, request, allocs, collectorVars>>,
         stack' \in Seq(Refs(heap.begin, O)), Len(stack') <= MaxStack
  PROVE  MCInv' /\ Quiet(O)'
<1>1. /\ Memory(mem', heap.size) /\ Tiles(mem', O, 0, heap.used)
      /\ Marked(mem', O) = {} /\ Enqueued(mem', O) = {}
      /\ FieldsIn(mem', O, Refs(heap.begin, O))
  BY DEF HeapOK, Quiet, Walked
<1> QED
  BY <1>1, MutatorStep

(* What the invariant says while the interpreter runs.                     *)
LEMMA QuietNow ==
  ASSUME MCInv, phase \in {"run", "alloc", "retry"}
  PROVE  HeapOK /\ CursorsOK /\ StacksOK /\ \E O : Quiet(O)
  BY DEF MCInv, Phases

(* The bounds of the heap are numbers.                                     *)
LEMMA BoundNat ==
  ASSUME HeapOK
  PROVE  /\ MaxStack \in Nat /\ heap.begin \in Nat /\ heap.size \in Nat /\ heap.used \in Nat
         /\ heap.used <= heap.size
  BY CollectorAssumption DEF CollectorAssumption, HeapOK

(* Const keeps the invariant.                                              *)
LEMMA ConstStep ==
  ASSUME NEW O, MCInv, Quiet(O), Const
  PROVE  MCInv' /\ Quiet(O)'
<1>1. phase = "run" /\ Len(stack) < MaxStack /\ stack' = Append(stack, Box(1))
      /\ UNCHANGED <<bound, heap, mem, phase, cells, request, allocs, collectorVars>>
  BY DEF Const, PushWord
<1>2. HeapOK /\ CursorsOK /\ StacksOK
  BY DEF MCInv
<1>3. Quiet(O)
  OBVIOUS
<1>4. PICK R : R = Refs(heap.begin, O)
  OBVIOUS
<1>5. stack \in Seq(R) /\ Box(1) \in R
  BY <1>3, <1>4, NewRefs DEF Quiet
<1>6. stack' \in Seq(R) /\ Len(stack') = Len(stack) + 1 /\ Len(stack) \in Nat
  BY <1>1, <1>5, AppendAt, LenProperties
<1>7. Len(stack') <= MaxStack
  BY <1>1, <1>2, <1>6, BoundNat
<1> QED
  BY <1>1, <1>2, <1>3, <1>4, <1>6, <1>7, StackStep

(* Load keeps the invariant.                                               *)
LEMMA LoadStep ==
  ASSUME NEW O, MCInv, Quiet(O), Load
  PROVE  MCInv' /\ Quiet(O)'
<1>1. phase = "run" /\ Len(stack) < MaxStack
      /\ (\E i \in DOMAIN stack : stack' = Append(stack, stack[i]))
      /\ UNCHANGED <<bound, heap, mem, phase, cells, request, allocs, collectorVars>>
  BY DEF Load, PushWord
<1>2. HeapOK /\ CursorsOK /\ StacksOK
  BY DEF MCInv
<1>3. Quiet(O)
  OBVIOUS
<1>4. PICK R : R = Refs(heap.begin, O)
  OBVIOUS
<1>5. PICK i \in DOMAIN stack : stack' = Append(stack, stack[i])
  BY <1>1
<1>6. stack \in Seq(R) /\ stack[i] \in R
  <2>1. stack \in Seq(R)
    BY <1>3, <1>4 DEF Quiet
  <2>2. i \in 1 .. Len(stack)
    BY <2>1, LenProperties
  <2> QED
    BY <2>1, <2>2, ElementOfSeq
<1>7. stack' \in Seq(R) /\ Len(stack') = Len(stack) + 1 /\ Len(stack) \in Nat
  BY <1>5, <1>6, AppendAt, LenProperties
<1>8. Len(stack') <= MaxStack
  BY <1>1, <1>2, <1>7, BoundNat
<1> QED
  BY <1>1, <1>2, <1>3, <1>4, <1>7, <1>8, StackStep

(* Drop keeps the invariant.                                               *)
LEMMA DropStep ==
  ASSUME NEW O, MCInv, Quiet(O), Drop
  PROVE  MCInv' /\ Quiet(O)'
<1>1. phase = "run" /\ stack # << >> /\ stack' = Front(stack)
      /\ UNCHANGED <<bound, heap, mem, phase, cells, request, allocs, collectorVars>>
  BY DEF Drop
<1>2. HeapOK /\ CursorsOK /\ StacksOK
  BY DEF MCInv
<1>3. Quiet(O)
  OBVIOUS
<1>4. PICK R : R = Refs(heap.begin, O)
  OBVIOUS
<1>5. stack \in Seq(R)
  BY <1>3, <1>4 DEF Quiet
<1>6. stack' \in Seq(R) /\ Len(stack') = Len(stack) - 1 /\ Len(stack) \in Nat
  <2>1. Front(stack) \in Seq(R) /\ Len(Front(stack)) = Len(stack) - 1 /\ Len(stack) \in Nat \ {0}
    BY <1>1, <1>5, LastSeq
  <2> QED
    BY <1>1, <2>1
<1>7. Len(stack') <= MaxStack
  BY <1>2, <1>6, BoundNat DEF StacksOK
<1> QED
  BY <1>1, <1>2, <1>3, <1>4, <1>6, <1>7, StackStep

(* What a reference of the interpreter leads to.                           *)
LEMMA TargetOf ==
  ASSUME NEW O, NEW w \in Refs(heap.begin, O), w.kind = "ptr"
  PROVE  HeaderOf(w.v) \in O
<1>1. w.v - heap.begin - 2 \in O
  BY RefFacts
<1> QED
  BY <1>1 DEF HeaderOf, HeaderWords

(* Elem keeps the invariant: a field of an object leads to an object.      *)
LEMMA ElemStep ==
  ASSUME NEW O, MCInv, Quiet(O), Elem
  PROVE  MCInv' /\ Quiet(O)'
<1>1. phase = "run" /\ stack # << >>
      /\ (\E o \in FieldAddresses(Last(stack)) : stack' = Append(Front(stack), mem[o]))
      /\ UNCHANGED <<bound, heap, mem, phase, cells, request, allocs, collectorVars>>
  BY DEF Elem
<1>2. HeapOK /\ CursorsOK /\ StacksOK
  BY DEF MCInv
<1>3. Quiet(O)
  OBVIOUS
<1>4. PICK R : R = Refs(heap.begin, O)
  OBVIOUS
<1>5. stack \in Seq(R) /\ FieldsIn(mem, O, R)
  BY <1>3, <1>4 DEF Quiet
<1>6. PICK o \in FieldAddresses(Last(stack)) : stack' = Append(Front(stack), mem[o])
  BY <1>1
<1>7. Last(stack) \in R
  BY <1>1, <1>5, LastSeq
<1>8. mem[o] \in R
  <2>1. Last(stack).kind = "ptr" /\ o \in FieldsAt(mem, HeaderOf(Last(stack).v))
    BY <1>6 DEF FieldAddresses
  <2>2. HeaderOf(Last(stack).v) \in O
    BY <1>4, <1>7, <2>1, TargetOf
  <2> QED
    BY <1>5, <2>1, <2>2 DEF FieldsIn
<1>9. stack' \in Seq(R) /\ Len(stack') = Len(stack)
  BY <1>1, <1>5, <1>6, <1>8, ReplaceLast
<1>10. Len(stack') <= MaxStack
  BY <1>2, <1>9 DEF StacksOK
<1> QED
  BY <1>1, <1>2, <1>3, <1>4, <1>9, <1>10, StackStep

(* Writing to fields leaves the objects where they are and their flags.    *)
LEMMA FieldWrites ==
  ASSUME NEW m, NEW O, NEW from, NEW to, Tiles(m, O, from, to),
         NEW size \in Nat, to <= size, Memory(m, size),
         NEW n, DOMAIN n = DOMAIN m,
         \A o \in DOMAIN m : n[o] = m[o] \/ \E g \in O : o \in FieldsAt(m, g)
  PROVE  /\ \A h \in O : n[h] = m[h] /\ n[h + 1] = m[h + 1]
         /\ \A h \in O : Alike(m, n, h) /\ ObjectAt(m, h)
         /\ Tiles(n, O, from, to)
<1>1. ASSUME NEW h \in O
      PROVE  n[h] = m[h] /\ n[h + 1] = m[h + 1] /\ Alike(m, n, h) /\ ObjectAt(m, h)
  <2>1. h \in DOMAIN m /\ h + 1 \in DOMAIN m
    BY InHeap
  <2>2. ASSUME NEW g \in O, NEW o \in FieldsAt(m, g)
        PROVE  o # h /\ o # h + 1
    <3>1. g \in Nat /\ ObjectAt(m, g)
      BY DEF Tiles
    <3>2. /\ FirstField(m, g) \in Nat /\ NextObject(m, g) \in Nat /\ g + 2 <= FirstField(m, g)
      BY <3>1, ObjectSize
    <3>3. o \in FirstField(m, g) .. NextObject(m, g) - 1
      BY <2>2 DEF FieldsAt
    <3>4. o \in Int /\ g + 2 <= o /\ o < NextObject(m, g)
      BY <3>1, <3>2, <3>3
    <3> QED
      BY <3>4, Apart
  <2>3. n[h] = m[h] /\ n[h + 1] = m[h + 1]
    BY <2>1, <2>2
  <2>4. ObjectAt(m, h)
    BY DEF Tiles
  <2> QED
    BY <2>3, <2>4 DEF Alike, ObjectAt
<1>2. Tiles(n, O, from, to)
  BY <1>1, TilesAlike
<1> QED
  BY <1>1, <1>2

(* Assign keeps the invariant: what is written to a field leads to an      *)
(* object.                                                                 *)
LEMMA AssignStep ==
  ASSUME NEW O, MCInv, Quiet(O), Assign
  PROVE  MCInv' /\ Quiet(O)'
<1>1. /\ phase = "run" /\ Len(stack) > 1
      /\ \E o \in FieldAddresses(stack[Len(stack) - 1]) : mem' = [mem EXCEPT ![o] = Last(stack)]
      /\ stack' = Append(SubSeq(stack, 1, Len(stack) - 2), Last(stack))
      /\ UNCHANGED <<bound, heap, phase, cells, request, allocs, collectorVars>>
  BY DEF Assign
<1>2. HeapOK /\ CursorsOK /\ StacksOK
  BY DEF MCInv
<1>3. Quiet(O)
  OBVIOUS
<1>4. PICK R : R = Refs(heap.begin, O)
  OBVIOUS
<1>5. /\ stack \in Seq(R) /\ FieldsIn(mem, O, R)
      /\ Tiles(mem, O, 0, heap.used) /\ Memory(mem, heap.size)
      /\ heap.size \in Nat /\ heap.used <= heap.size /\ MaxStack \in Nat
      /\ Marked(mem, O) = {} /\ Enqueued(mem, O) = {}
  BY <1>2, <1>3, <1>4, BoundNat DEF Quiet, Walked, HeapOK
<1>6. PICK x, w, n : x = stack[Len(stack) - 1] /\ w = Last(stack) /\ n = Len(stack)
  OBVIOUS
<1>7. /\ n \in Nat /\ n > 1 /\ x \in R /\ w \in R
      /\ stack' = Append(SubSeq(stack, 1, n - 2), w) /\ \A i \in 1 .. n : stack[i] \in R
  <2>1. n \in Nat /\ n > 1 /\ \A i \in 1 .. n : stack[i] \in R
    BY <1>1, <1>5, <1>6, LenProperties, ElementOfSeq
  <2>2. n - 1 \in 1 .. n /\ n \in 1 .. n
    BY <2>1
  <2>3. x \in R /\ w \in R
    BY <1>6, <2>1, <2>2 DEF Last
  <2> QED
    BY <1>1, <1>6, <2>1, <2>3
<1>8. PICK o \in FieldAddresses(x) : mem' = [mem EXCEPT ![o] = w]
  BY <1>1, <1>6
<1>9. PICK h \in O : o \in FieldsAt(mem, h)
  <2>1. x.kind = "ptr" /\ o \in FieldsAt(mem, HeaderOf(x.v))
    BY <1>8 DEF FieldAddresses
  <2> QED
    BY <1>4, <1>7, <2>1, TargetOf
<1>10. PICK m : m = mem'
  OBVIOUS
<1>11. DOMAIN m = DOMAIN mem /\ \A a \in DOMAIN mem : m[a] = IF a = o THEN w ELSE mem[a]
  BY <1>8, <1>10
<1>12. /\ \A y \in O : m[y] = mem[y] /\ m[y + 1] = mem[y + 1]
       /\ \A y \in O : Alike(mem, m, y) /\ ObjectAt(mem, y)
       /\ Tiles(m, O, 0, heap.used)
  <2>1. \A a \in DOMAIN mem : m[a] = mem[a] \/ \E g \in O : a \in FieldsAt(mem, g)
    BY <1>9, <1>11
  <2> QED
    BY <1>5, <1>11, <2>1, FieldWrites
<1>13. Memory(m, heap.size)
  <2>1. w.kind \in {"int", "ptr"}
    BY <1>4, <1>7, RefFacts
  <2> QED
    BY <1>5, <1>11, <2>1 DEF Memory
<1>14. Marked(m, O) = {} /\ Enqueued(m, O) = {}
  BY <1>5, <1>12 DEF Marked, Enqueued
<1>15. FieldsIn(m, O, R)
  <2>1. ASSUME NEW y \in O, NEW a \in FieldsAt(m, y)
        PROVE  m[a] \in R
    <3>1. FieldsAt(m, y) = FieldsAt(mem, y)
      BY <1>12, AlikeObject
    <3>2. mem[a] \in R
      BY <1>5, <2>1, <3>1 DEF FieldsIn
    <3>3. a \in DOMAIN mem
      <4>1. y \in Nat /\ ObjectAt(mem, y)
        BY <1>5 DEF Tiles
      <4>2. /\ FirstField(mem, y) \in Nat /\ NextObject(mem, y) \in Nat /\ y + 2 <= FirstField(mem, y)
        BY <4>1, ObjectSize
      <4>3. a \in FirstField(mem, y) .. NextObject(mem, y) - 1
        BY <2>1, <3>1 DEF FieldsAt
      <4>4. a \in Int /\ y <= a /\ a < NextObject(mem, y)
        BY <4>1, <4>2, <4>3
      <4> QED
        BY <1>5, <4>4, InHeap
    <3> QED
      BY <1>7, <1>11, <3>2, <3>3
  <2> QED
    BY <2>1 DEF FieldsIn
<1>16. stack' \in Seq(R) /\ Len(stack') = n - 1
  <2>1. PICK s : s = SubSeq(stack, 1, n - 2)
    OBVIOUS
  <2>2. 1 \in Int /\ n - 2 \in Int /\ \A i \in 1 .. n - 2 : stack[i] \in R
    BY <1>7
  <2>3. s \in Seq(R) /\ Len(s) = IF 1 <= n - 2 THEN n - 2 - 1 + 1 ELSE 0
    BY <2>1, <2>2, SubSeqProperties
  <2>4. Len(s) = n - 2
    BY <1>7, <2>3
  <2>5. stack' = Append(s, w)
    BY <1>7, <2>1
  <2>6. stack' \in Seq(R) /\ Len(stack') = Len(s) + 1
    BY <1>7, <2>3, <2>5, AppendAt
  <2> QED
    BY <1>7, <2>4, <2>6
<1>17. Len(stack') <= MaxStack
  BY <1>2, <1>5, <1>6, <1>7, <1>16 DEF StacksOK
<1> QED
  BY <1>1, <1>2, <1>3, <1>4, <1>10, <1>12, <1>13, <1>14, <1>15, <1>16, <1>17, MutatorStep

(* The interpreter asks for an object.                                     *)
LEMMA AskStep ==
  ASSUME HeapOK, CursorsOK, StacksOK, phase = "run", NEW O, Quiet(O),
         NEW t, NEW n, NEW r, Ask(t, n, r), RequestOK',
         stack' \in Seq(Refs(heap.begin, O)), Len(stack') <= MaxStack, Len(stack') \in Nat,
         cells' \in Seq(Refs(heap.begin, Shaped(mem, O, request'))), Len(cells') \in Nat,
         \A i \in 1 .. Len(cells') : cells'[i].kind = "ptr"
  PROVE  MCInv' /\ Quiet(O)'
<1>1. phase' = "alloc" /\ UNCHANGED <<bound, heap, mem, allocs, collectorVars>>
  BY DEF Ask
<1>2. HeapOK'
  BY <1>1 DEF HeapOK
<1>3. CursorsOK'
  <2>1. root = 0
    BY DEF Quiet
  <2> QED
    BY <1>1, <2>1 DEF CursorsOK, collectorVars, markVars
<1>4. StacksOK'
  BY <1>1 DEF StacksOK
<1>5. Quiet(O)'
  BY <1>1 DEF Quiet, Walked, collectorVars, markVars
<1> QED
  BY <1>1, <1>2, <1>3, <1>4, <1>5 DEF MCInv, Phases

(* Asking for a new object keeps the invariant.                            *)
LEMMA NewStep ==
  ASSUME NEW O, MCInv, Quiet(O), New
  PROVE  MCInv' /\ Quiet(O)'
<1>1. PICK s \in UNION {b.shapes : b \in Bounds}, r \in RawWords :
        /\ Len(stack) >= FieldCount(s.type, s.len)
        /\ Len(stack) - FieldCount(s.type, s.len) < MaxStack
        /\ Ask(s.type, s.len, r)
        /\ UNCHANGED <<stack, cells>>
  <2>1. bound \in Bounds
    BY DEF MCInv, HeapOK
  <2> QED
    BY <2>1 DEF New
<1>2. /\ phase = "run" /\ phase' = "alloc"
      /\ request' = [type |-> s.type, len |-> s.len, raw |-> r]
  BY <1>1 DEF Ask
<1>3. HeapOK /\ CursorsOK /\ StacksOK
  BY DEF MCInv
<1>4. Quiet(O)
  OBVIOUS
<1>5. cells = << >> /\ Len(stack) <= MaxStack
  BY <1>2, <1>3 DEF StacksOK
<1>6. stack \in Seq(Refs(heap.begin, O)) /\ Len(stack) \in Nat
  <2>1. PICK R : R = Refs(heap.begin, O)
    OBVIOUS
  <2>2. stack \in Seq(R)
    BY <1>4, <2>1 DEF Quiet
  <2> QED
    BY <2>1, <2>2, LenProperties
<1>7. RequestOK'
  <2>1. s.type \in Types /\ s.len \in Nat /\ (s.type = "closure" => s.len > 0) /\ r.kind \in {"int", "ptr"}
    BY CollectorAssumption DEF CollectorAssumption
  <2>2. Popped' = FieldCount(s.type, s.len)
    BY <1>1, <1>2, <1>5 DEF Popped
  <2> QED
    BY <1>1, <1>2, <2>1, <2>2 DEF RequestOK
<1>8. cells' = << >>
  BY <1>1, <1>5
<1> QED
  BY <1>1, <1>2, <1>3, <1>4, <1>5, <1>6, <1>7, <1>8, AskStep

(* Asking for a copy keeps the invariant: the roots lead to objects like   *)
(* the one asked for.                                                      *)
LEMMA CloneStep ==
  ASSUME NEW O, MCInv, Quiet(O), Clone
  PROVE  MCInv' /\ Quiet(O)'
<1>1. PICK w, h, header :
        /\ w = Last(stack) /\ h = HeaderOf(w.v) /\ header = mem[h]
        /\ stack # << >> /\ w.kind = "ptr"
        /\ Ask(header.kind, header.v, Box(0))
        /\ cells' = IF header.kind = "string" THEN <<w, w>> ELSE <<w>>
        /\ stack' = Front(stack)
  BY DEF Clone
<1>2. /\ phase = "run" /\ phase' = "alloc"
      /\ request' = [type |-> header.kind, len |-> header.v, raw |-> Box(0)]
  BY <1>1 DEF Ask
<1>3. HeapOK /\ CursorsOK /\ StacksOK
  BY DEF MCInv
<1>4. Quiet(O)
  OBVIOUS
<1>5. PICK R : R = Refs(heap.begin, O)
  OBVIOUS
<1>6. stack \in Seq(R) /\ Tiles(mem, O, 0, heap.used)
  BY <1>4, <1>5 DEF Quiet, Walked
<1>7. /\ w \in R /\ stack' \in Seq(R) /\ Len(stack') = Len(stack) - 1 /\ Len(stack) \in Nat \ {0}
  BY <1>1, <1>6, LastSeq
<1>8. h \in O
  BY <1>1, <1>5, <1>7, TargetOf
<1>9. ObjectAt(mem, h)
  BY <1>6, <1>8 DEF Tiles
<1>10. Len(stack') \in Nat /\ Len(stack') < MaxStack
  BY <1>3, <1>7, BoundNat DEF StacksOK
<1>11. w \in Refs(heap.begin, Shaped(mem, O, request'))
  <2>1. h \in Shaped(mem, O, request')
    BY <1>1, <1>2, <1>8 DEF Shaped
  <2>2. w.v - heap.begin - 2 = h
    BY <1>1 DEF HeaderOf, HeaderWords
  <2> QED
    BY <1>5, <1>7, <2>1, <2>2, RefFacts
<1>12. /\ cells' \in Seq(Refs(heap.begin, Shaped(mem, O, request'))) /\ Len(cells') \in Nat
       /\ cells' # << >>
       /\ \A i \in 1 .. Len(cells') : cells'[i].kind = "ptr"
  <2>1. PICK S : S = Refs(heap.begin, Shaped(mem, O, request'))
    OBVIOUS
  <2>2. w \in S /\ w.kind = "ptr"
    BY <1>1, <1>11, <2>1
  <2>3. cells' = <<w, w>> \/ cells' = <<w>>
    BY <1>1
  <2>4. CASE cells' = <<w, w>>
    BY <2>1, <2>2, <2>4
  <2>5. CASE cells' = <<w>>
    BY <2>1, <2>2, <2>5
  <2> QED
    BY <2>3, <2>4, <2>5
<1>13. RequestOK'
  <2>1. Popped' = 0
    BY <1>12 DEF Popped
  <2>2. Box(0).kind = "int"
    BY DEF Box
  <2> QED
    BY <1>1, <1>2, <1>9, <1>10, <2>1, <2>2 DEF RequestOK, ObjectAt
<1>14. stack' \in Seq(Refs(heap.begin, O)) /\ Len(stack') <= MaxStack
  BY <1>3, <1>5, <1>7, <1>10, BoundNat
<1> QED
  BY <1>1, <1>2, <1>3, <1>4, <1>10, <1>12, <1>13, <1>14, AskStep

-----------------------------------------------------------------------------
(***************************************************************************)
(* Allocation                                                              *)
(***************************************************************************)

Known == Types \cup {"fwd", "int", "ptr"}

(* k raw words and then f fields                                           *)
Filled(C, k, f, R) ==
  /\ Len(C) = k + f /\ \E S : C \in Seq(S)
  /\ \A i \in 1 .. k + f : C[i].kind \in Known
  /\ \A i \in k + 1 .. k + f : C[i] \in R

(* The content of a new object: raw words, and operands as its fields.     *)
LEMMA NewContentFresh ==
  ASSUME StacksOK, phase # "run", cells = << >>, NEW b, NEW O, stack \in Seq(Refs(b, O))
  PROVE  Filled(NewContent, RawSize(request.type, request.len),
                  FieldCount(request.type, request.len), Refs(b, O))
<1>1. PICK k, f, R, n, r :
        /\ k = RawSize(request.type, request.len) /\ f = FieldCount(request.type, request.len)
        /\ R = Refs(b, O) /\ n = Len(stack) /\ r = request.raw
  OBVIOUS
<1>2. k \in Nat /\ f \in Nat /\ f <= n /\ r.kind \in {"int", "ptr"}
  BY <1>1, SizeFacts DEF StacksOK, RequestOK, Popped
<1>3. n \in Nat /\ stack \in Seq(R) /\ \A i \in 1 .. n : stack[i] \in R
  BY <1>1, LenProperties, ElementOfSeq
<1>4. \A w \in R : w.kind \in {"int", "ptr"}
  BY <1>1, RefFacts
<1>5. PICK A, B : A = [i \in 1 .. k |-> r] /\ B = SubSeq(stack, n - f + 1, n)
  OBVIOUS
<1>6. PICK S : S = {r} \cup R
  OBVIOUS
<1>7. A \in Seq(S) /\ Len(A) = k /\ \A i \in 1 .. k : A[i] = r
  <2>1. A = [i \in 1 .. k |-> A[i]] /\ \A i \in 1 .. k : A[i] \in S
    BY <1>5, <1>6
  <2> QED
    BY <1>2, <1>5, <2>1, SeqByPositions
<1>8. B \in Seq(R) /\ Len(B) = f
  <2>1. PICK p \in Int, q \in Int : p = n - f + 1 /\ q = n
    BY <1>2, <1>3
  <2>2. \A i \in p .. q : stack[i] \in R
    BY <1>2, <1>3, <2>1
  <2>3. B = SubSeq(stack, p, q)
    BY <1>5, <2>1
  <2>4. B \in Seq(R) /\ Len(B) = IF p <= q THEN q - p + 1 ELSE 0
    BY ONLY p \in Int, q \in Int, <2>2, <2>3, SubSeqProperties
  <2> QED
    BY <1>2, <1>3, <2>1, <2>4
<1>9. B \in Seq(S)
  BY <1>6, <1>8, SeqGrow
<1>10. PICK C : C = A \o B
  OBVIOUS
<1>11. /\ C \in Seq(S) /\ Len(C) = k + f
       /\ \A i \in 1 .. k + f : C[i] = IF i <= k THEN A[i] ELSE B[i - k]
  <2>1. /\ C \in Seq(S) /\ Len(C) = Len(A) + Len(B)
        /\ \A i \in 1 .. Len(A) + Len(B) : C[i] = IF i <= Len(A) THEN A[i] ELSE B[i - Len(A)]
    BY ONLY <1>7, <1>9, <1>10, ConcatProperties
  <2> QED
    BY <1>7, <1>8, <2>1
<1>12. ASSUME NEW i \in 1 .. k + f, i > k
       PROVE  C[i] \in R
  <2>1. i - k \in 1 .. f /\ C[i] = B[i - k]
    BY <1>2, <1>11, <1>12
  <2> QED
    BY <1>8, <2>1, ElementOfSeq
<1>13. ASSUME NEW i \in 1 .. k + f
       PROVE  C[i].kind \in Known
  <2>1. CASE i <= k
    <3>1. i \in 1 .. k
      BY <1>2, <2>1
    <3> QED
      BY <1>2, <1>7, <1>11, <2>1, <3>1 DEF Known
  <2>2. CASE i > k
    BY <1>4, <1>12, <2>2 DEF Known
  <2> QED
    BY <1>2, <2>1, <2>2
<1>14. \A i \in k + 1 .. k + f : i \in 1 .. k + f /\ i > k
  BY <1>2
<1>15. NewContent = C
  BY <1>1, <1>5, <1>10 DEF NewContent
<1> QED
  BY <1>1, <1>11, <1>12, <1>13, <1>14, <1>15 DEF Filled

(* The content of a copy: that of an object of the same type and length.   *)
LEMMA NewContentCopy ==
  ASSUME StacksOK, phase # "run", cells # << >>, NEW O, Walked(O), HeapOK,
         cells \in Seq(Refs(heap.begin, Shaped(mem, O, request))),
         FieldsIn(mem, O, Refs(heap.begin, O))
  PROVE  Filled(NewContent, RawSize(request.type, request.len),
                  FieldCount(request.type, request.len), Refs(heap.begin, O))
<1>1. PICK k, f, R, S, w, h :
        /\ k = RawSize(request.type, request.len) /\ f = FieldCount(request.type, request.len)
        /\ R = Refs(heap.begin, O) /\ w = Last(cells) /\ h = HeaderOf(w.v)
        /\ S = Refs(heap.begin, Shaped(mem, O, request))
  OBVIOUS
<1>2. k \in Nat /\ f \in Nat
  BY <1>1, SizeFacts DEF StacksOK, RequestOK
<1>3. w \in S /\ w.kind = "ptr"
  <2>1. w \in S /\ w = cells[Len(cells)] /\ Len(cells) \in Nat \ {0}
    BY <1>1, LastSeq
  <2> QED
    BY <2>1 DEF StacksOK
<1>4. h \in Shaped(mem, O, request)
  <2>1. w.v - heap.begin - 2 \in Shaped(mem, O, request)
    BY <1>1, <1>3, RefFacts
  <2> QED
    BY <1>1, <2>1 DEF HeaderOf, HeaderWords
<1>5. h \in O /\ mem[h].kind = request.type /\ mem[h].v = request.len
  BY <1>4 DEF Shaped
<1>6. Tiles(mem, O, 0, heap.used) /\ heap.used <= heap.size /\ Memory(mem, heap.size) /\ heap.size \in Nat
  BY BoundNat DEF Walked, HeapOK
<1>7. h \in Nat /\ ObjectAt(mem, h)
  BY <1>5, <1>6 DEF Tiles
<1>8. FirstField(mem, h) = h + 2 + k /\ NextObject(mem, h) = h + 2 + k + f
  <2>1. /\ FirstField(mem, h) = h + 2 + RawSize(mem[h].kind, mem[h].v)
        /\ NextObject(mem, h) = h + SizeAt(mem, h)
        /\ SizeAt(mem, h) = 2 + RawSize(mem[h].kind, mem[h].v) + FieldCount(mem[h].kind, mem[h].v)
    BY <1>7, ObjectSize
  <2>2. k = RawSize(mem[h].kind, mem[h].v) /\ f = FieldCount(mem[h].kind, mem[h].v)
    BY <1>1, <1>5
  <2> QED
    BY <1>2, <1>7, <2>1, <2>2
<1>9. PICK C : C = [i \in 1 .. k + f |-> mem[h + 2 + i - 1]]
  OBVIOUS
<1>10. \A i \in 1 .. k + f : C[i] = mem[h + 2 + i - 1]
  BY <1>9
<1>11. ASSUME NEW i \in 1 .. k + f
       PROVE  C[i].kind \in Known
  <2>1. h + 2 + i - 1 \in Int /\ h <= h + 2 + i - 1 /\ h + 2 + i - 1 < NextObject(mem, h)
    BY <1>2, <1>7, <1>8
  <2>2. h + 2 + i - 1 \in DOMAIN mem
    BY <1>5, <1>6, <2>1, InHeap
  <2> QED
    BY <1>6, <1>10, <2>2 DEF Memory, Known
<1>12. ASSUME NEW i \in k + 1 .. k + f
       PROVE  C[i] \in R
  <2>1. h + 2 + i - 1 \in FirstField(mem, h) .. NextObject(mem, h) - 1 /\ i \in 1 .. k + f
    BY <1>2, <1>7, <1>8
  <2> QED
    BY <1>1, <1>5, <1>10, <2>1 DEF FieldsIn, FieldsAt
<1>13. Len(C) = k + f /\ \E T : C \in Seq(T)
  <2> DEFINE T == {C[i] : i \in 1 .. k + f}
  <2>1. C = [i \in 1 .. k + f |-> C[i]] /\ \A i \in 1 .. k + f : C[i] \in T
    BY <1>9
  <2>2. k + f \in Nat
    BY <1>2
  <2> HIDE DEF T
  <2> QED
    BY <2>1, <2>2, SeqByPositions
<1>14. NewContent = C
  BY <1>1, <1>9 DEF NewContent, HeaderWords
<1> QED
  BY <1>1, <1>11, <1>12, <1>13, <1>14 DEF Filled

(* One object more at the end.                                             *)
LEMMA TilesExtended ==
  ASSUME NEW m, NEW O, NEW from, NEW to, Tiles(m, O, from, to),
         NEW n, \A h \in O : Alike(m, n, h),
         ObjectAt(n, to)
  PROVE  Tiles(n, O \cup {to}, from, NextObject(n, to))
<1>1. Tiles(n, O, from, to)
  BY TilesAlike
<1>2. to \in Nat /\ from \in Nat /\ from <= to
  BY DEF Tiles
<1>3. NextObject(n, to) \in Nat /\ to + 2 <= NextObject(n, to)
  BY <1>2, ObjectSize
<1>4. PICK e : e = NextObject(n, to)
  OBVIOUS
<1>5. /\ \A h \in O : /\ h \in Nat /\ from <= h /\ ObjectAt(n, h)
                      /\ NextObject(n, h) <= to /\ NextObject(n, h) \in O \cup {to}
                      /\ NextObject(n, h) \in Nat /\ h < to
      /\ \A g, h \in O : g < h => NextObject(n, g) <= h
      /\ \A h \in O \cup {to} : h = from \/ \E g \in O : h = NextObject(n, g)
  <2>1. \A h \in O : h \in from .. to - 1
    BY <1>1, TilesFinite
  <2>2. \A h \in O : NextObject(n, h) \in O \cup {to}
    BY <1>1 DEF Tiles
  <2>3. \A h \in O : h \in Nat /\ h < to /\ NextObject(n, h) \in Nat
    BY <1>2, <2>1, <2>2
  <2> QED
    BY <1>1, <2>3 DEF Tiles
<1>6. \A g, h \in O \cup {to} : g < h => NextObject(n, g) <= h
  <2>1. ASSUME NEW g \in O \cup {to}, NEW h \in O \cup {to}, g < h
        PROVE  NextObject(n, g) <= h
    BY <1>2, <1>5, <2>1
  <2> QED
    BY <2>1
<1>7. \A h \in O \cup {to} : /\ h \in Nat /\ from <= h /\ ObjectAt(n, h)
                             /\ NextObject(n, h) <= e /\ NextObject(n, h) \in O \cup {to} \cup {e}
  BY <1>2, <1>3, <1>4, <1>5
<1>8. \A h \in O \cup {to} \cup {e} : h = from \/ \E g \in O \cup {to} : h = NextObject(n, g)
  BY <1>4, <1>5
<1>9. from \in O \cup {to} \cup {e} /\ e \in Nat /\ from <= e
  <2>1. from \in O \cup {to}
    BY DEF Tiles
  <2> QED
    BY <1>2, <1>3, <1>4, <2>1
<1>10. Tiles(n, O \cup {to}, from, e)
  BY <1>2, <1>6, <1>7, <1>8, <1>9 DEF Tiles
<1> QED
  BY <1>4, <1>10

(* Two words, and a sequence after them.                                   *)
LEMMA TwoWords ==
  ASSUME NEW S, NEW C \in Seq(S), NEW a, NEW b, NEW w, w = <<a, b>> \o C
  PROVE  w[1] = a /\ w[2] = b /\ Len(w) = Len(C) + 2 /\ \A i \in 1 .. Len(C) : w[i + 2] = C[i]
<1>1. PICK T : T = S \cup {a, b}
  OBVIOUS
<1>2. C \in Seq(T)
  BY <1>1, SeqGrow
<1>3. PICK p : p = <<a, b>>
  OBVIOUS
<1>4. p \in Seq(T) /\ Len(p) = 2 /\ p[1] = a /\ p[2] = b
  BY <1>1, <1>3
<1>5. Len(C) \in Nat
  BY LenProperties
<1>6. /\ Len(w) = Len(p) + Len(C)
      /\ \A i \in 1 .. Len(p) + Len(C) : w[i] = IF i <= Len(p) THEN p[i] ELSE C[i - Len(p)]
  BY <1>2, <1>3, <1>4, ConcatProperties
<1>7. 1 \in 1 .. Len(p) + Len(C) /\ 2 \in 1 .. Len(p) + Len(C) /\ 1 <= Len(p) /\ 2 <= Len(p)
  BY <1>4, <1>5
<1>8. w[1] = a /\ w[2] = b
  BY <1>4, <1>6, <1>7
<1>9. ASSUME NEW i \in 1 .. Len(C)
      PROVE  w[i + 2] = C[i]
  <2>1. i + 2 \in 1 .. Len(p) + Len(C) /\ ~(i + 2 <= Len(p)) /\ i + 2 - Len(p) = i
    BY <1>4, <1>5
  <2> QED
    BY <1>6, <2>1
<1> QED
  BY <1>4, <1>5, <1>6, <1>8, <1>9

(* The words w stand in n from u on, and all else is as it was in m.       *)
Placed(n, m, u, size, w) ==
  n = [o \in DOMAIN m |-> IF o \in u .. u + size - 1 THEN w[o - u + 1] ELSE m[o]]

Laid(w, t, l, C) == w = <<Header(t, l), Forward(0)>> \o C

Parts(t, l, k, f) ==
  /\ t \in Types /\ l \in Nat /\ (t = "closure" => l > 0)
  /\ k = RawSize(t, l) /\ f = FieldCount(t, l)

(* the content C of the object at u, raw words and then fields             *)
NewWords(n, u, k, f, C) == \A i \in 1 .. k + f : n[u + 1 + i] = C[i]

(* The words of a new object, in place.                                    *)
LEMMA NewObject ==
  ASSUME HeapOK, NEW O, Tiles(mem, O, 0, heap.used), NEW R, FieldsIn(mem, O, R),
         NEW t, NEW l, NEW k, NEW f, Parts(t, l, k, f),
         NEW C, NEW T, Filled(C, k, f, T), R \subseteq T,
         heap.used + Size(t, l) <= heap.size,
         NEW w, Laid(w, t, l, C), NEW n, Placed(n, mem, heap.used, Size(t, l), w)
  PROVE  /\ Memory(n, heap.size)
         /\ Tiles(n, O \cup {heap.used}, 0, heap.used + Size(t, l))
         /\ \A h \in O : n[h] = mem[h] /\ n[h + 1] = mem[h + 1]
         /\ n[heap.used + 1] = Forward(0)
         /\ FieldsIn(n, O \cup {heap.used}, T)
         /\ Size(t, l) \in Nat
         /\ Kept(mem, n, O)
         /\ n[heap.used] = Header(t, l) /\ NewWords(n, heap.used, k, f, C)
<1>1. PICK u, s : u = heap.used /\ s = Size(t, l)
  OBVIOUS
<1>2. k \in Nat /\ f \in Nat /\ s = 2 + k + f /\ s \in Nat
  BY <1>1, SizeFacts DEF Parts
<1>3. u \in Nat /\ heap.size \in Nat /\ u + s <= heap.size /\ Memory(mem, heap.size)
  BY <1>1, BoundNat DEF HeapOK
<1>4. DOMAIN mem = 0 .. heap.size - 1
  BY <1>3 DEF Memory
<1>5. /\ w[1] = Header(t, l) /\ w[2] = Forward(0)
      /\ \A i \in 1 .. k + f : w[i + 2] = C[i]
  <2>1. PICK S : C \in Seq(S)
    BY DEF Filled
  <2>2. Len(C) = k + f
    BY DEF Filled
  <2> QED
    BY <2>1, <2>2, TwoWords DEF Laid
<1>6. /\ DOMAIN n = DOMAIN mem
      /\ \A o \in DOMAIN mem : n[o] = IF o \in u .. u + s - 1 THEN w[o - u + 1] ELSE mem[o]
  BY <1>1 DEF Placed
<1>7. \A o \in DOMAIN mem : o < u => n[o] = mem[o]
  BY <1>3, <1>4, <1>6
<1>8. n[u] = Header(t, l)
  <2>1. u \in DOMAIN mem /\ u \in u .. u + s - 1 /\ u - u + 1 = 1
    BY <1>2, <1>3, <1>4
  <2> QED
    BY <1>5, <1>6, <2>1
<1>9. n[u + 1] = Forward(0)
  <2>1. PICK j : j = u + 1
    OBVIOUS
  <2>2. j \in DOMAIN mem /\ j \in u .. u + s - 1 /\ j - u + 1 = 2
    BY <1>2, <1>3, <1>4, <2>1
  <2>3. n[j] = w[2]
    BY <1>6, <2>2
  <2> QED
    BY <1>5, <2>1, <2>3
<1>10. ASSUME NEW i \in 1 .. k + f
       PROVE  n[u + 1 + i] = C[i]
  <2>1. PICK j : j = u + 1 + i
    OBVIOUS
  <2>2. j \in DOMAIN mem /\ j \in u .. u + s - 1 /\ j - u + 1 = i + 2
    BY <1>2, <1>3, <1>4, <2>1
  <2>3. n[j] = w[i + 2]
    BY <1>6, <2>2
  <2> QED
    BY <1>5, <2>1, <2>3
<1>11. /\ Kept(mem, n, O)
       /\ \A h \in O : n[h] = mem[h] /\ n[h + 1] = mem[h + 1]
       /\ \A h \in O : ObjectAt(mem, h) /\ Alike(mem, n, h)
  <2>1. Tiles(mem, O, 0, u) /\ u <= heap.size
    BY <1>1, <1>2, <1>3
  <2>2. SameWords(mem, n, 0, u)
    BY <1>7 DEF SameWords
  <2>3. Kept(mem, n, O) /\ \A h \in O : n[h] = mem[h] /\ n[h + 1] = mem[h + 1]
    BY <1>3, <2>1, <2>2, WordsSame
  <2> QED
    BY <2>1, <2>3 DEF Kept, Tiles
<1>12. ObjectAt(n, u)
  BY <1>8, <1>9 DEF Parts, ObjectAt, Header, Forward, ForwardWords
<1>13. /\ NextObject(n, u) = u + s
       /\ FieldsAt(n, u) = u + 2 + k .. u + s - 1
  <2>1. n[u].kind = t /\ n[u].v = l
    BY <1>8 DEF Header
  <2>2. NextObject(n, u) = u + s
    BY <1>1, <2>1 DEF NextObject, SizeAt
  <2>3. FirstField(n, u) = u + 2 + k
    BY <2>1 DEF Parts, FirstField, HeaderWords
  <2>4. NextObject(n, u) - 1 = u + s - 1
    BY <1>2, <1>3, <2>2
  <2> QED
    BY <2>2, <2>3, <2>4 DEF FieldsAt
<1>14. Tiles(n, O \cup {u}, 0, u + s)
  <2>1. Tiles(mem, O, 0, u) /\ \A h \in O : Alike(mem, n, h)
    BY <1>1, <1>11
  <2>2. Tiles(n, O \cup {u}, 0, NextObject(n, u))
    BY <1>12, <2>1, TilesExtended
  <2> QED
    BY <1>13, <2>2
<1>15. FieldsIn(n, O \cup {u}, T)
  <2>1. FieldsIn(n, O, R)
    BY <1>11, FieldsKept
  <2>2. ASSUME NEW o \in FieldsAt(n, u)
        PROVE  n[o] \in T
    <3>1. PICK i \in k + 1 .. k + f : o = u + 1 + i
      <4>1. o \in Int /\ u + 2 + k <= o /\ o <= u + 1 + k + f
        BY <1>2, <1>3, <1>13, <2>2
      <4>2. o - u - 1 \in k + 1 .. k + f /\ o = u + 1 + (o - u - 1)
        BY <1>2, <1>3, <4>1
      <4> QED
        BY <4>2
    <3>2. i \in 1 .. k + f /\ C[i] \in T
      BY <1>2 DEF Filled
    <3> QED
      BY <1>10, <3>1, <3>2
  <2> QED
    BY <2>1, <2>2 DEF FieldsIn
<1>16. Memory(n, heap.size)
  <2>1. ASSUME NEW o \in DOMAIN mem
        PROVE  n[o].kind \in Known
    <3>1. mem[o].kind \in Known /\ o \in Int /\ 0 <= o
      BY <1>3, <1>4 DEF Memory, Known
    <3>2. CASE o = u
      BY <1>8, <3>2 DEF Parts, Header, Known
    <3>3. CASE o = u + 1
      BY <1>9, <3>3 DEF Forward, Known
    <3>4. CASE u + 2 <= o /\ o <= u + s - 1
      <4>1. o - u - 1 \in 1 .. k + f /\ o = u + 1 + (o - u - 1)
        BY <1>2, <1>3, <3>1, <3>4
      <4>2. PICK i \in 1 .. k + f : o = u + 1 + i
        BY <4>1
      <4> QED
        BY <1>10, <4>2 DEF Filled
    <3>5. CASE o < u \/ u + s <= o
      <4>1. n[o] = mem[o]
        BY <1>2, <1>3, <1>6, <3>1, <3>5
      <4> QED
        BY <3>1, <4>1
    <3> QED
      BY <1>2, <1>3, <3>1, <3>2, <3>3, <3>4, <3>5
  <2> QED
    BY <1>3, <1>4, <1>6, <2>1 DEF Memory, Known
<1> QED
  BY <1>1, <1>2, <1>8, <1>9, <1>10, <1>11, <1>14, <1>15, <1>16 DEF NewWords

(* An allocation keeps the invariant: the heap has one object more.        *)
LEMMA AllocateStep ==
  ASSUME NEW O, MCInv, Quiet(O), AllocateObject
  PROVE  /\ MCInv' /\ \E u : u = heap.used /\ Quiet(O \cup {u})'
         /\ Kept(mem, mem', O) /\ mem'[heap.used] = Header(request.type, request.len)
         /\ NewWords(mem', heap.used, RawSize(request.type, request.len),
                     FieldCount(request.type, request.len), NewContent)
<1>1. PICK t, l, k, f, s, u, w, n :
        /\ t = request.type /\ l = request.len /\ k = RawSize(t, l) /\ f = FieldCount(t, l)
        /\ s = Size(t, l) /\ u = heap.used
        /\ w = <<Header(t, l), Forward(0)>> \o NewContent
        /\ n = mem'
  OBVIOUS
<1>2. /\ phase \in {"alloc", "retry"} /\ u + s <= heap.size
      /\ mem' = [o \in DOMAIN mem |-> IF o \in u .. u + s - 1 THEN w[o - u + 1] ELSE mem[o]]
      /\ stack' = Append(SubSeq(stack, 1, Len(stack) - Popped), Ptr(Content(u)))
      /\ heap' = [heap EXCEPT !.used = u + s]
      /\ phase' = "run" /\ cells' = << >> /\ request' = NoRequest /\ allocs' = allocs + 1
      /\ UNCHANGED <<bound, collectorVars>>
  BY <1>1 DEF AllocateObject, Fits, RequestSize
<1>3. HeapOK /\ CursorsOK /\ StacksOK
  BY DEF MCInv
<1>4. Quiet(O)
  OBVIOUS
<1>5. PICK b, R, T, D : b = heap.begin /\ R = Refs(b, O) /\ T = Refs(b, D) /\ D = O \cup {u}
  OBVIOUS
<1>6. /\ Tiles(mem, O, 0, u) /\ FieldsIn(mem, O, R) /\ stack \in Seq(R) /\ Walked(O)
      /\ cells \in Seq(Refs(b, Shaped(mem, O, request)))
      /\ Cardinality(O) <= allocs /\ Marked(mem, O) = {} /\ Enqueued(mem, O) = {}
      /\ \A c \in {root, qhead, qtail, field, fieldEnd} : c = 0
  BY <1>1, <1>4, <1>5 DEF Quiet, Walked
<1>7. /\ t \in Types /\ l \in Nat /\ (t = "closure" => l > 0)
      /\ Popped <= Len(stack) /\ Len(stack) - Popped < MaxStack /\ allocs \in Nat
  BY <1>1, <1>2, <1>3 DEF StacksOK, RequestOK
<1>8. R \subseteq T
  BY <1>5, RefsGrow
<1>9. Filled(NewContent, k, f, T)
  <2>1. Filled(NewContent, k, f, R)
    <3>1. CASE cells = << >>
      BY <1>1, <1>2, <1>3, <1>5, <1>6, <3>1, NewContentFresh
    <3>2. CASE cells # << >>
      BY <1>1, <1>2, <1>3, <1>5, <1>6, <3>2, NewContentCopy
    <3> QED
      BY <3>1, <3>2
  <2> QED
    BY <1>8, <2>1 DEF Filled
<1>10. /\ Memory(n, heap.size) /\ Tiles(n, D, 0, u + s)
       /\ \A h \in O : n[h] = mem[h] /\ n[h + 1] = mem[h + 1]
       /\ n[u + 1] = Forward(0) /\ FieldsIn(n, D, T) /\ s \in Nat
       /\ Kept(mem, n, O) /\ n[u] = Header(t, l) /\ NewWords(n, u, k, f, NewContent)
  <2>1. Placed(n, mem, heap.used, Size(t, l), w)
    BY <1>1, <1>2 DEF Placed
  <2>2. PICK C : C = NewContent
    OBVIOUS
  <2>3. Laid(w, t, l, C) /\ Filled(C, k, f, T)
    BY <1>1, <1>9, <2>2 DEF Laid
  <2>4. Parts(t, l, k, f)
    BY <1>1, <1>7 DEF Parts
  <2>5. heap.used + Size(t, l) <= heap.size
    BY <1>1, <1>2
  <2>6. Tiles(mem, O, 0, heap.used) /\ FieldsIn(mem, O, R) /\ HeapOK
    BY <1>1, <1>3, <1>6
  <2>7. /\ Memory(n, heap.size)
        /\ Tiles(n, O \cup {heap.used}, 0, heap.used + Size(t, l))
        /\ \A h \in O : n[h] = mem[h] /\ n[h + 1] = mem[h + 1]
        /\ n[heap.used + 1] = Forward(0)
        /\ FieldsIn(n, O \cup {heap.used}, T)
        /\ Size(t, l) \in Nat
        /\ Kept(mem, n, O)
        /\ n[heap.used] = Header(t, l) /\ NewWords(n, heap.used, k, f, C)
    BY ONLY <1>8, <2>1, <2>3, <2>4, <2>5, <2>6, NewObject
  <2> QED
    BY ONLY <1>1, <1>5, <2>2, <2>7
<1>11. heap \in [begin : Bases, size : Nat, used : Nat] /\ u \in Nat /\ b \in Nat /\ heap.size \in Nat
       /\ MaxStack \in Nat
  BY <1>1, <1>3, <1>5, BoundNat DEF HeapOK
<1>12. /\ heap' \in [begin : Bases, size : Nat, used : Nat]
       /\ heap'.begin = b /\ heap'.size = heap.size /\ heap'.used = u + s
  <2>1. u + s \in Nat
    BY <1>10, <1>11
  <2> QED
    BY <1>2, <1>5, <1>11, <2>1
<1>13. HeapOK'
  BY <1>1, <1>2, <1>3, <1>10, <1>12 DEF HeapOK
<1>14. Len(stack) \in Nat /\ Popped \in Nat
  <2>1. Popped = f \/ Popped = 0
    BY <1>1 DEF Popped
  <2>2. Len(stack) \in Nat
    BY <1>6, LenProperties
  <2>3. f \in Nat
    BY <1>1, <1>7, SizeFacts
  <2> QED
    BY <2>1, <2>2, <2>3
<1>15. stack' \in Seq(T) /\ Len(stack') = Len(stack) - Popped + 1
  <2>0. Len(stack) - Popped \in Int
    BY <1>14
  <2>1. PICK q \in Int, a \in Int : q = Len(stack) - Popped /\ a = 1
    BY <2>0
  <2>2. \A i \in a .. q : stack[i] \in R
    <3>1. \A i \in 1 .. Len(stack) : stack[i] \in R
      BY <1>6, ElementOfSeq
    <3> QED
      BY <1>14, <2>1, <3>1
  <2>3. PICK x : x = SubSeq(stack, a, q)
    OBVIOUS
  <2>4. x \in Seq(R) /\ Len(x) = IF a <= q THEN q - a + 1 ELSE 0
    BY ONLY a \in Int, q \in Int, <2>2, <2>3, SubSeqProperties
  <2>5. x \in Seq(T) /\ Len(x) = Len(stack) - Popped
    BY <1>7, <1>8, <1>14, <2>1, <2>4, SeqGrow
  <2>6. Ptr(Content(u)) \in T
    <3>1. Content(u) \in Int /\ Content(u) - b - 2 = u
      BY <1>5, <1>11 DEF Content, HeaderWords
    <3> QED
      BY <1>5, <3>1, NewRefs
  <2>7. stack' = Append(x, Ptr(Content(u)))
    BY <1>2, <2>1, <2>3
  <2> QED
    BY <2>5, <2>6, <2>7, AppendAt
<1>16. CursorsOK'
  <2>1. {scan, live} \subseteq 0 .. u
    BY <1>1, <1>3 DEF CursorsOK
  <2>2. Len(stack') \in Nat /\ Len(cells') = 0
    BY <1>2, <1>7, <1>14, <1>15
  <2>3. {scan, live} \subseteq 0 .. u + s /\ 0 \in 0 .. u + s
    BY <1>10, <1>11, <2>1
  <2>4. /\ root' = 0 /\ qhead' = 0 /\ qtail' = 0 /\ field' = 0 /\ fieldEnd' = 0
        /\ scan' = scan /\ live' = live
    BY <1>2, <1>6 DEF collectorVars, markVars
  <2>5. root' \in 0 .. Len(stack') + Len(cells')
    BY <2>2, <2>4
  <2> QED
    BY <1>12, <2>3, <2>4, <2>5 DEF CursorsOK
<1>17. StacksOK'
  <2>1. Len(stack') <= MaxStack
    BY <1>7, <1>11, <1>14, <1>15
  <2>2. allocs' \in Nat
    BY <1>2, <1>7
  <2>3. phase' = "run" /\ cells' = << >> /\ Len(cells') = 0
    BY <1>2
  <2> QED
    BY <2>1, <2>2, <2>3 DEF StacksOK
<1>18. Quiet(D)'
  <2>1. Marked(n, D) = {} /\ Enqueued(n, D) = {}
    <3>1. ~Forward(0).marked /\ ~Forward(0).enqueued
      BY DEF Forward
    <3> QED
      BY <1>5, <1>6, <1>10, <3>1 DEF Marked, Enqueued
  <2>2. Cardinality(D) <= allocs + 1
    <3>1. IsFiniteSet(O) /\ u \notin O /\ Cardinality(O) \in Nat
      BY <1>6, TilesFinite
    <3>2. Cardinality(D) = Cardinality(O) + 1
      BY <1>5, <3>1, FS_AddElement
    <3> QED
      BY <1>6, <1>7, <3>1, <3>2
  <2>3. Walked(D)'
    BY <1>1, <1>2, <1>10, <1>12, <2>2 DEF Walked
  <2>4. cells' \in Seq(Refs(b, Shaped(n, D, request')))
    BY <1>2
  <2>5. root' = 0 /\ qhead' = 0 /\ qtail' = 0 /\ field' = 0 /\ fieldEnd' = 0
    BY <1>2, <1>6 DEF collectorVars, markVars
  <2> QED
    BY <1>1, <1>2, <1>5, <1>10, <1>12, <1>15, <2>1, <2>3, <2>4, <2>5 DEF Quiet
<1>19. MCInv'
  BY <1>2, <1>13, <1>16, <1>17, <1>18 DEF MCInv, Phases
<1>20. Quiet(O \cup {u})'
  BY <1>5, <1>18
<1> QED
  BY <1>1, <1>10, <1>19, <1>20

-----------------------------------------------------------------------------
(***************************************************************************)
(* Marking                                                                 *)
(***************************************************************************)

(* The collector leaves the interpreter's part as it is.                   *)
LEMMA StacksSame ==
  ASSUME StacksOK, UNCHANGED mutatorVars, phase # "run", phase' # "run"
  PROVE  StacksOK'
<1>1. stack' = stack /\ cells' = cells /\ request' = request /\ allocs' = allocs
  BY DEF mutatorVars
<1>2. RequestOK'
  BY <1>1 DEF StacksOK, RequestOK, Popped
<1> QED
  BY <1>1, <1>2 DEF StacksOK

(* An empty queue is empty wherever its ends are.                          *)
LEMMA QueueNone ==
  ASSUME NEW m, NEW b, NEW O, NEW used, Tiles(m, O, 0, used),
         NEW head, NEW tail, QueueOf(m, b, O, used, head, tail), head = tail
  PROVE  Enqueued(m, O) = {} /\ Seen(m, O) = Marked(m, O) /\ QueueOf(m, b, O, used, 0, 0)
<1>1. {h \in O : head <= h /\ h < tail} = {}
  <2>1. head \in Nat
    BY TilesFinite DEF QueueOf
  <2> QED
    BY <2>1, TilesFinite
<1>2. {b + h + HeaderWords : h \in Enqueued(m, O)} = {}
  BY <1>1 DEF QueueOf
<1>3. Enqueued(m, O) = {}
  BY <1>2
<1>4. Seen(m, O) = Marked(m, O)
  BY <1>3 DEF Seen
<1>5. {h \in O : 0 <= h /\ h < 0} = {} /\ {h \in O : h >= 0} = O
  BY TilesFinite
<1>6. Cardinality(O) >= Cardinality(O \ Seen(m, O))
  <2>1. IsFiniteSet(O) /\ O \ Seen(m, O) \subseteq O
    BY TilesFinite
  <2>2. Cardinality(O \ Seen(m, O)) <= Cardinality(O)
    BY <2>1, FS_Subset
  <2>3. Cardinality(O) \in Nat /\ Cardinality(O \ Seen(m, O)) \in Nat
    BY <2>1, FS_Subset, FS_CardinalityType
  <2> QED
    BY <2>2, <2>3
<1>7. 0 \in O \cup {used}
  BY DEF Tiles
<1>8. QueueOf(m, b, O, used, 0, 0)
  BY <1>2, <1>3, <1>5, <1>6, <1>7 DEF QueueOf
<1> QED
  BY <1>3, <1>4, <1>8

(* The start of a collection keeps the invariant: nothing is marked yet.   *)
LEMMA CollectStep ==
  ASSUME NEW O, MCInv, Quiet(O), Collect
  PROVE  MCInv' /\ Marking(O)'
<1>1. phase = "alloc" /\ phase' = "mark" /\ UNCHANGED <<bound, heap, mem, mutatorVars, collectorVars>>
  BY DEF Collect
<1>2. HeapOK /\ CursorsOK /\ StacksOK
  BY DEF MCInv
<1>3. Quiet(O)
  OBVIOUS
<1>4. /\ Walked(O) /\ Marked(mem, O) = {} /\ Enqueued(mem, O) = {}
      /\ FieldsIn(mem, O, Refs(heap.begin, O)) /\ stack \in Seq(Refs(heap.begin, O))
      /\ cells \in Seq(Refs(heap.begin, Shaped(mem, O, request)))
      /\ root = 0 /\ qhead = 0 /\ qtail = 0 /\ field = 0 /\ fieldEnd = 0
      /\ Tiles(mem, O, 0, heap.used)
  BY <1>3 DEF Quiet, Walked
<1>5. Seen(mem, O) = {}
  BY <1>4 DEF Seen
<1>6. QueueOf(mem, heap.begin, O, heap.used, 0, 0)
  <2>1. {h \in O : 0 <= h /\ h < 0} = {} /\ {h \in O : h >= 0} = O /\ Cardinality(O) \in Nat
    BY <1>4, TilesFinite
  <2>2. 0 \in O \cup {heap.used}
    BY <1>4 DEF Tiles
  <2>3. PICK X, E : X = {h \in O : 0 <= h /\ h < 0} /\ E = Enqueued(mem, O)
    OBVIOUS
  <2>4. X = {} /\ E = {}
    BY <1>4, <2>1, <2>3
  <2>5. {mem[s + 1].v : s \in X} = {heap.begin + h + HeaderWords : h \in E}
    BY <2>4
  <2>6. O \ Seen(mem, O) = O /\ Marked(mem, O) \cap E = {}
    BY <1>4, <1>5
  <2>7. Cardinality({h \in O : h >= 0}) >= Cardinality(O \ Seen(mem, O))
    BY <2>1, <2>6
  <2>8. {0, 0} \subseteq O \cup {heap.used} /\ 0 <= 0
    BY <2>2
  <2>9. \A s, t \in X : mem[s + 1].v = mem[t + 1].v => s = t
    BY <2>4
  <2> QED
    BY ONLY <2>3, <2>5, <2>6, <2>7, <2>8, <2>9 DEF QueueOf
<1>7. Least(mem, heap.begin, stack, cells, O, Seen(mem, O))
  BY <1>5 DEF Least
<1>8. Marking(O)
  BY <1>4, <1>6, <1>7 DEF Marking
<1>9. Marking(O)'
  BY <1>1, <1>8 DEF Marking, Walked, Roots, mutatorVars, collectorVars, markVars
<1>10. HeapOK' /\ CursorsOK'
  BY <1>1, <1>2 DEF HeapOK, CursorsOK, mutatorVars, collectorVars, markVars
<1>11. StacksOK'
  BY <1>1, <1>2, StacksSame
<1> QED
  BY <1>1, <1>9, <1>10, <1>11 DEF MCInv, Phases

(* There is a slot for every object that is yet to be found.               *)
LEMMA QueueRoom ==
  ASSUME NEW m, NEW b, NEW O, NEW used, Tiles(m, O, 0, used),
         NEW head, NEW tail, QueueOf(m, b, O, used, head, tail),
         NEW h \in O, h \notin Seen(m, O)
  PROVE  tail \in O
<1>1. SUFFICES ASSUME tail = used
               PROVE  FALSE
  BY DEF QueueOf
<1>2. {x \in O : x >= tail} = {}
  BY <1>1, TilesFinite
<1>3. Cardinality({x \in O : x >= tail}) = 0
  BY <1>2, FS_EmptySet
<1>4. PICK Z : Z = O \ Seen(m, O)
  OBVIOUS
<1>5. IsFiniteSet(Z) /\ Cardinality(Z) \in Nat /\ Z # {}
  BY <1>4, TilesFinite, FS_Subset, FS_CardinalityType
<1>6. Cardinality(Z) # 0
  BY <1>5, FS_EmptySet
<1>7. 0 >= Cardinality(Z)
  BY <1>3, <1>4 DEF QueueOf
<1> QED
  BY <1>5, <1>6, <1>7

AddressOf(p, b, h) == p = b + h + 2

(* An object is enqueued.                                                  *)
LEMMA QueueGrows ==
  ASSUME NEW m, NEW n, NEW b, NEW O, NEW used, NEW head, NEW tail, NEW h, NEW p,
         b \in Nat, Tiles(m, O, 0, used), tail \in O, h \in O, h \notin Seen(m, O),
         QueueOf(m, b, O, used, head, tail),
         AddressOf(p, b, h), Kept(m, n, O), Enqueues(m, n, O, tail, p, h)
  PROVE  /\ QueueOf(n, b, O, used, head, NextObject(m, tail))
         /\ Marked(n, O) = Marked(m, O) /\ Seen(n, O) = Seen(m, O) \cup {h}
<1>1. PICK M, E : M = Marked(m, O) /\ E = Enqueued(m, O)
  OBVIOUS
<1>2. h \notin M /\ h \notin E /\ Seen(m, O) = M \cup E
  BY <1>1 DEF Seen
<1>3. Marked(n, O) = M /\ Enqueued(n, O) = E \cup {h}
  BY <1>1 DEF Enqueues, Marked, Enqueued
<1>4. Seen(n, O) = Seen(m, O) \cup {h}
  BY <1>2, <1>3 DEF Seen
<1>5. PICK next : next = NextObject(m, tail)
  OBVIOUS
<1>6. /\ tail \in Nat /\ next \in Nat /\ tail < next /\ next \in O \cup {used}
      /\ \A x \in O : x \in Nat /\ (tail < x => next <= x) /\ x < used
      /\ used \in Nat /\ IsFiniteSet(O)
  <2>1. tail \in Nat /\ ObjectAt(m, tail) /\ next \in O \cup {used}
    BY <1>5, TilesFinite
  <2>2. next \in Nat /\ tail < next
    BY <1>5, <2>1, ObjectSize
  <2>3. \A x \in O : tail < x => next <= x
    BY <1>5 DEF Tiles
  <2>4. used \in Nat /\ IsFiniteSet(O) /\ \A x \in O : x \in Nat /\ x < used
    BY TilesFinite
  <2> QED
    BY <2>1, <2>2, <2>3, <2>4
<1>7. head \in Nat /\ head <= tail /\ head \in O \cup {used} /\ head <= next
  <2>1. head <= tail /\ head \in O \cup {used}
    BY DEF QueueOf
  <2>2. head \in Nat
    BY <1>6, <2>1
  <2> QED
    BY <1>6, <2>1, <2>2
<1>8. PICK X, Y : X = {x \in O : head <= x /\ x < tail} /\ Y = {x \in O : head <= x /\ x < next}
  OBVIOUS
<1>9. Y = X \cup {tail} /\ tail \notin X
  <2>1. ASSUME NEW x \in O
        PROVE  head <= x /\ x < next <=> (head <= x /\ x < tail) \/ x = tail
    BY <1>6, <1>7
  <2>2. Y = X \cup {tail}
    BY <1>8, <2>1
  <2> QED
    BY <1>6, <1>8, <2>2
<1>10. /\ \A s, t \in X : m[s + 1].v = m[t + 1].v => s = t
       /\ {m[s + 1].v : s \in X} = {b + x + HeaderWords : x \in E}
  BY <1>1, <1>8 DEF QueueOf
<1>p. p = b + h + 2
  BY DEF AddressOf
<1>11. n[tail + 1].v = p /\ \A x \in X : n[x + 1].v = m[x + 1].v
  BY <1>8, <1>9, <1>p DEF Enqueues
<1>12. \A x \in X : m[x + 1].v # p
  <2>1. ASSUME NEW x \in X, m[x + 1].v = p
        PROVE  FALSE
    <3>1. PICK y \in E : p = b + y + HeaderWords
      BY <1>10, <2>1
    <3>2. y \in Nat /\ y = h
      BY <1>1, <1>6, <1>p, <3>1 DEF Enqueued, HeaderWords
    <3> QED
      BY <1>2, <3>2
  <2> QED
    BY <2>1
<1>13. \A s, t \in Y : n[s + 1].v = n[t + 1].v => s = t
  BY <1>9, <1>10, <1>11, <1>12
<1>14. {n[s + 1].v : s \in Y} = {b + x + HeaderWords : x \in E \cup {h}}
  <2>1. {n[s + 1].v : s \in Y} = {m[s + 1].v : s \in X} \cup {p}
    BY <1>9, <1>11
  <2>2. {b + x + HeaderWords : x \in E \cup {h}} = {b + x + HeaderWords : x \in E} \cup {p}
    BY <1>p DEF HeaderWords
  <2> QED
    BY <1>10, <2>1, <2>2
<1>15. M \cap (E \cup {h}) = {}
  BY <1>1, <1>2 DEF QueueOf
<1>16. Cardinality({x \in O : x >= next}) >= Cardinality(O \ Seen(n, O))
  <2>1. PICK A, B, C, D :
          /\ A = {x \in O : x >= tail} /\ B = {x \in O : x >= next}
          /\ C = O \ Seen(m, O) /\ D = O \ Seen(n, O)
    OBVIOUS
  <2>2. B = A \ {tail} /\ tail \in A /\ D = C \ {h} /\ h \in C
    <3>1. ASSUME NEW x \in O
          PROVE  x >= next <=> x >= tail /\ x # tail
      BY <1>6
    <3>2. B = A \ {tail}
      BY <2>1, <3>1
    <3>3. tail \in A
      BY <1>6, <2>1
    <3>4. D = C \ {h} /\ h \in C
      BY <1>4, <2>1
    <3> QED
      BY <3>2, <3>3, <3>4
  <2>3. IsFiniteSet(A) /\ IsFiniteSet(C)
    BY <1>6, <2>1, FS_Subset
  <2>4. Cardinality(B) = Cardinality(A) - 1 /\ Cardinality(D) = Cardinality(C) - 1
    BY <2>2, <2>3, FS_RemoveElement
  <2>5. Cardinality(A) \in Nat /\ Cardinality(C) \in Nat
    BY <2>3, FS_CardinalityType
  <2>6. Cardinality(A) >= Cardinality(C)
    BY <2>1 DEF QueueOf
  <2> QED
    BY <2>1, <2>4, <2>5, <2>6
<1>17. QueueOf(n, b, O, used, head, next)
  BY <1>3, <1>6, <1>7, <1>8, <1>13, <1>14, <1>15, <1>16 DEF QueueOf
<1> QED
  BY <1>1, <1>3, <1>4, <1>5, <1>17

(* What a look at a word does: the object it leads to has been seen.       *)
Visits(m, n, b, O, used, size, w, head, tail) ==
  /\ Kept(m, n, O) /\ Memory(n, size) /\ Tiles(n, O, 0, used)
  /\ QueueOf(n, b, O, used, head, tail)
  /\ Marked(n, O) = Marked(m, O) /\ Seen(m, O) \subseteq Seen(n, O)
  /\ w \in Refs(b, Seen(n, O))
  /\ \A C : w \in Refs(b, C) /\ Seen(m, O) \subseteq C => Seen(n, O) \subseteq C

(* Looking at one that leads to an object seen before changes nothing.     *)
LEMMA KeptSame ==
  ASSUME NEW m, NEW O, \A h \in O : ObjectAt(m, h)
  PROVE  Kept(m, m, O)
  BY DEF Kept, Alike, SameFields, SameRaws, ObjectAt

(* Looking at a word, as mark does it.                                     *)
LEMMA VisitStep ==
  ASSUME HeapOK, NEW O, Tiles(mem, O, 0, heap.used), NEW w \in Refs(heap.begin, O),
         NEW head, NEW tail, QueueOf(mem, heap.begin, O, heap.used, head, tail),
         NEW n, NEW next,
         IF IsValidHeapPointer(w) /\ ~IsMarked(mem, w.v) /\ ~IsEnqueued(mem, w.v)
           THEN n = Enqueue([mem |-> mem, tail |-> tail], w.v).mem
                /\ next = Enqueue([mem |-> mem, tail |-> tail], w.v).tail
           ELSE n = mem /\ next = tail
  PROVE  Visits(mem, n, heap.begin, O, heap.used, heap.size, w, head, next)
<1>1. PICK b, used, size : b = heap.begin /\ used = heap.used /\ size = heap.size
  OBVIOUS
<1>2. /\ b \in Nat /\ used \in Nat /\ size \in Nat /\ used <= size /\ Memory(mem, size)
      /\ Tiles(mem, O, 0, used) /\ QueueOf(mem, b, O, used, head, tail)
  BY <1>1, BoundNat DEF HeapOK
<1>3. \A h \in O : h \in Nat /\ h < used /\ ObjectAt(mem, h)
  BY <1>2, TilesFinite
<1>4. CASE w.kind # "ptr"
  <2>1. n = mem /\ next = tail
    BY <1>4 DEF IsValidHeapPointer, PointsInto
  <2>2. \A C : w \in Refs(b, C)
    BY <1>1, <1>4, RefFacts
  <2> QED
    BY <1>1, <1>2, <1>3, <2>1, <2>2, KeptSame DEF Visits
<1>5. CASE w.kind = "ptr"
  <2>1. PICK h : h = HeaderOf(w.v)
    OBVIOUS
  <2>2. h \in O /\ w.v \in Int /\ h = w.v - b - 2 /\ w.v = b + h + 2
    <3>1. h \in O
      BY <1>5, <2>1, TargetOf
    <3>2. w.v \in Int
      BY RefFacts
    <3>3. h = w.v - b - 2
      BY <1>1, <2>1 DEF HeaderOf, HeaderWords
    <3> QED
      BY <1>2, <3>1, <3>2, <3>3
  <2>3. IsValidHeapPointer(w)
    <3>1. ObjectAt(mem, h) /\ h \in Nat /\ NextObject(mem, h) <= used
      BY <1>2, <2>2 DEF Tiles
    <3>2. NextObject(mem, h) \in Nat /\ h + 2 <= NextObject(mem, h)
      BY <3>1, ObjectSize
    <3>3. b <= w.v /\ w.v <= b + used
      BY <1>2, <2>2, <3>1, <3>2
    <3> QED
      BY <1>1, <1>5, <3>3 DEF IsValidHeapPointer, PointsInto
  <2>4. \A C : w \in Refs(b, C) <=> h \in C
    <3>1. ASSUME NEW C, w \in Refs(b, C)
          PROVE  h \in C
      BY <1>5, <2>2, <3>1 DEF Refs, HeaderWords
    <3>2. ASSUME NEW C, h \in C
          PROVE  w \in Refs(b, C)
      BY <1>1, <2>2, <3>2, RefFacts
    <3> QED
      BY <3>1, <3>2
  <2>5. IsMarked(mem, w.v) <=> h \in Marked(mem, O)
    BY <2>1, <2>2 DEF IsMarked, Flags, Marked
  <2>6. IsEnqueued(mem, w.v) <=> h \in Enqueued(mem, O)
    BY <2>1, <2>2 DEF IsEnqueued, Flags, Enqueued
  <2>7. CASE h \in Seen(mem, O)
    <3>1. n = mem /\ next = tail
      BY <2>3, <2>5, <2>6, <2>7 DEF Seen
    <3> QED
      BY <1>1, <1>2, <1>3, <2>4, <2>7, <3>1, KeptSame DEF Visits
  <2>8. CASE h \notin Seen(mem, O)
    <3>1. n = Enqueue([mem |-> mem, tail |-> tail], w.v).mem
          /\ next = Enqueue([mem |-> mem, tail |-> tail], w.v).tail
      BY <2>3, <2>5, <2>6, <2>8 DEF Seen
    <3>2. tail \in O
      BY <1>2, <2>2, <2>8, QueueRoom
    <3>3. /\ Kept(mem, n, O) /\ Memory(n, size) /\ Tiles(n, O, 0, used)
          /\ Enqueues(mem, n, O, tail, w.v, h) /\ next = NextObject(mem, tail)
      <4>1. PICK p, q : p = w.v /\ q = Enqueue([mem |-> mem, tail |-> tail], p)
        OBVIOUS
      <4>2. p \in Int /\ HeaderOf(p) \in O /\ h = HeaderOf(p) /\ n = q.mem /\ next = q.tail
        BY <2>1, <2>2, <3>1, <4>1
      <4>3. /\ Kept(mem, q.mem, O) /\ Memory(q.mem, size) /\ Tiles(q.mem, O, 0, used)
            /\ Enqueues(mem, q.mem, O, tail, p, HeaderOf(p))
            /\ q.tail = NextObject(mem, tail)
        BY <1>2, <3>2, <4>1, <4>2, EnqueueEffect
      <4> QED
        BY <4>1, <4>2, <4>3
    <3>4. /\ QueueOf(n, b, O, used, head, next)
          /\ Marked(n, O) = Marked(mem, O) /\ Seen(n, O) = Seen(mem, O) \cup {h}
      <4>1. PICK p : p = w.v
        OBVIOUS
      <4>2. Enqueues(mem, n, O, tail, p, h) /\ AddressOf(p, b, h)
        BY <2>2, <3>3, <4>1 DEF AddressOf
      <4>3. /\ QueueOf(n, b, O, used, head, NextObject(mem, tail))
            /\ Marked(n, O) = Marked(mem, O) /\ Seen(n, O) = Seen(mem, O) \cup {h}
        <5>1. Kept(mem, n, O) /\ h \in O /\ b \in Nat
          BY <1>2, <2>2, <3>3
        <5>2. Tiles(mem, O, 0, used) /\ QueueOf(mem, b, O, used, head, tail)
          BY <1>2
        <5> QED
          BY ONLY <2>8, <3>2, <4>2, <5>1, <5>2, QueueGrows
      <4> QED
        BY <3>3, <4>3
    <3> QED
      BY <1>1, <2>4, <3>3, <3>4 DEF Visits
  <2> QED
    BY <2>7, <2>8
<1> QED
  BY <1>4, <1>5

(* The roots in the order they are looked at.                              *)
LEMMA RootsSeq ==
  ASSUME NEW S, stack \in Seq(S), cells \in Seq(S)
  PROVE  /\ Roots \in Seq(S) /\ Len(Roots) = Len(stack) + Len(cells)
         /\ Len(stack) \in Nat /\ Len(cells) \in Nat
         /\ \A T : (\A i \in 1 .. Len(Roots) : Roots[i] \in T) => stack \in Seq(T) /\ cells \in Seq(T)
<1>1. PICK p, q, R : p = Len(stack) /\ q = Len(cells) /\ R = Reverse(stack)
  OBVIOUS
<1>2. /\ p \in Nat /\ q \in Nat /\ (\A i \in 1 .. p : stack[i] \in S) /\ (\A i \in 1 .. q : cells[i] \in S)
      /\ stack = [i \in 1 .. p |-> stack[i]] /\ cells = [i \in 1 .. q |-> cells[i]]
  BY <1>1, LenProperties, ElementOfSeq
<1>3. R = [i \in 1 .. p |-> stack[(p - i) + 1]]
  BY <1>1 DEF Reverse
<1>4. R \in Seq(S) /\ Len(R) = p /\ \A i \in 1 .. p : R[i] = stack[(p - i) + 1]
  <2>1. \A i \in 1 .. p : (p - i) + 1 \in 1 .. p
    BY <1>2
  <2>2. R = [i \in 1 .. p |-> R[i]] /\ \A i \in 1 .. p : R[i] = stack[(p - i) + 1]
    BY <1>3
  <2>3. \A i \in 1 .. p : R[i] \in S
    BY <1>2, <2>1, <2>2
  <2> QED
    BY <1>2, <2>2, <2>3, SeqByPositions
<1>5. /\ Roots \in Seq(S) /\ Len(Roots) = p + q
      /\ \A i \in 1 .. p + q : Roots[i] = IF i <= p THEN R[i] ELSE cells[i - p]
  <2>1. Roots = R \o cells
    BY <1>1 DEF Roots
  <2>2. /\ Roots \in Seq(S) /\ Len(Roots) = Len(R) + Len(cells)
        /\ \A i \in 1 .. Len(R) + Len(cells) :
             Roots[i] = IF i <= Len(R) THEN R[i] ELSE cells[i - Len(R)]
    BY <1>4, <2>1, ConcatProperties
  <2> QED
    BY <1>1, <1>4, <2>2
<1>6. ASSUME NEW T, \A i \in 1 .. Len(Roots) : Roots[i] \in T
      PROVE  stack \in Seq(T) /\ cells \in Seq(T)
  <2>1. ASSUME NEW i \in 1 .. p
        PROVE  stack[i] \in T
    <3>1. PICK j : j = p - i + 1
      OBVIOUS
    <3>2. j \in 1 .. p /\ j \in 1 .. p + q /\ j <= p /\ (p - j) + 1 = i
      BY <1>2, <3>1
    <3>3. Roots[j] = R[j] /\ R[j] = stack[(p - j) + 1]
      BY <1>4, <1>5, <3>2
    <3> QED
      BY <1>5, <1>6, <3>2, <3>3
  <2>2. ASSUME NEW i \in 1 .. q
        PROVE  cells[i] \in T
    <3>1. PICK j : j = p + i
      OBVIOUS
    <3>2. j \in 1 .. p + q /\ ~(j <= p) /\ j - p = i
      BY <1>2, <3>1
    <3>3. Roots[j] = cells[i]
      BY <1>5, <3>2
    <3> QED
      BY <1>5, <1>6, <3>2, <3>3
  <2> QED
    BY <1>2, <2>1, <2>2, SeqByPositions
<1> QED
  BY <1>1, <1>2, <1>5, <1>6

-----------------------------------------------------------------------------
(***************************************************************************)
(* What marking keeps                                                      *)
(***************************************************************************)

(* What the invariant says while objects are marked.                       *)
LEMMA MarkingNow ==
  ASSUME MCInv, phase = "mark"
  PROVE  HeapOK /\ CursorsOK /\ StacksOK /\ \E O : Marking(O)
  BY DEF MCInv, Phases

(* Which objects are like the one asked for, the headers tell.             *)
LEMMA ShapedKept ==
  ASSUME NEW m, NEW n, NEW O, \A h \in O : n[h] = m[h], NEW r
  PROVE  Shaped(n, O, r) = Shaped(m, O, r)
  BY DEF Shaped

(* What a step of marking has to show.                                     *)
LEMMA MarkingStep ==
  ASSUME HeapOK, CursorsOK, StacksOK, NEW O, Marking(O), phase = "mark", phase' = "mark",
         UNCHANGED <<bound, heap, mutatorVars, scan, live>>,
         Kept(mem, mem', O), Memory(mem', heap.size), Tiles(mem', O, 0, heap.used),
         QueueOf(mem', heap.begin, O, heap.used, qhead', qtail'),
         field' \in 0 .. heap.used, fieldEnd' \in 0 .. heap.used,
         field' # fieldEnd' =>
            /\ field' < fieldEnd'
            /\ \E c \in Marked(mem', O) :
                 FirstField(mem, c) <= field' /\ fieldEnd' = NextObject(mem, c),
         \A h \in Marked(mem', O) : \A o \in FieldsAt(mem, h) \ (field' .. fieldEnd' - 1) :
            mem[o] \in Refs(heap.begin, Seen(mem', O)),
         root' \in 0 .. Len(Roots),
         \A i \in 1 .. root' : Roots[i] \in Refs(heap.begin, Seen(mem', O)),
         Least(mem, heap.begin, stack, cells, O, Seen(mem', O))
  PROVE  MCInv' /\ Marking(O)'
<1>1. PICK b, S, n : b = heap.begin /\ S = Seen(mem', O) /\ n = mem'
  OBVIOUS
<1>2. /\ Tiles(mem, O, 0, heap.used) /\ Cardinality(O) <= allocs
      /\ FieldsIn(mem, O, Refs(b, O)) /\ stack \in Seq(Refs(b, O))
      /\ cells \in Seq(Refs(b, Shaped(mem, O, request)))
  BY <1>1 DEF Marking, Walked
<1>3. /\ stack' = stack /\ cells' = cells /\ request' = request /\ allocs' = allocs
      /\ heap' = heap /\ bound' = bound
  BY DEF mutatorVars
<1>4. \A h \in O : ObjectAt(mem, h) /\ Alike(mem, n, h) /\ SameFields(mem, n, h) /\ n[h] = mem[h]
  BY <1>1, <1>2 DEF Kept, Tiles, Alike
<1>5. Marked(n, O) \subseteq O
  BY DEF Marked
<1>6. FieldsIn(n, O, Refs(b, O))
  BY <1>1, <1>2, <1>4, FieldsKept
<1>7. Shaped(n, O, request) = Shaped(mem, O, request)
  BY <1>4, ShapedKept
<1>8. Least(n, b, stack, cells, O, S)
  BY <1>1, <1>4, LeastKept
<1>9. /\ \A h \in O : FieldsAt(n, h) = FieldsAt(mem, h) /\ FirstField(n, h) = FirstField(mem, h)
                      /\ NextObject(n, h) = NextObject(mem, h)
      /\ \A h \in O : \A o \in FieldsAt(mem, h) : n[o] = mem[o]
  BY <1>4, AlikeObject DEF SameFields
<1>10. field' # fieldEnd' =>
            /\ field' < fieldEnd'
            /\ \E c \in Marked(n, O) : FirstField(n, c) <= field' /\ fieldEnd' = NextObject(n, c)
  BY <1>1, <1>5, <1>9
<1>11. \A h \in Marked(n, O) : \A o \in FieldsAt(n, h) \ (field' .. fieldEnd' - 1) : n[o] \in Refs(b, S)
  BY <1>1, <1>5, <1>9
<1>12. Roots' = Roots
  BY <1>3 DEF Roots
<1>13. Walked(O)'
  BY <1>1, <1>2, <1>3 DEF Walked
<1>14. Marking(O)'
  BY <1>1, <1>2, <1>3, <1>6, <1>7, <1>8, <1>10, <1>11, <1>12, <1>13 DEF Marking
<1>15. HeapOK' /\ StacksOK'
  BY <1>1, <1>3, StacksSame DEF HeapOK
<1>16. CursorsOK'
  <2>1. qhead' \in 0 .. heap.used /\ qtail' \in 0 .. heap.used
    <3>1. O \subseteq 0 .. heap.used - 1 /\ heap.used \in Nat
      BY <1>2, TilesFinite
    <3>2. O \cup {heap.used} \subseteq 0 .. heap.used
      BY <3>1
    <3> QED
      BY <3>2 DEF QueueOf
  <2>2. Len(Roots) = Len(stack) + Len(cells)
    <3>1. PICK R, Q : R = Refs(b, O) /\ Q = Refs(b, Shaped(mem, O, request))
      OBVIOUS
    <3>2. Q \subseteq R
      BY <3>1, RefsGrow DEF Shaped
    <3>3. stack \in Seq(R) /\ cells \in Seq(R)
      BY <1>2, <3>1, <3>2, SeqGrow
    <3> QED
      BY <3>3, RootsSeq
  <2> QED
    BY <1>3, <2>1, <2>2 DEF CursorsOK
<1> QED
  BY <1>14, <1>15, <1>16 DEF MCInv, Phases

(* The roots lead to objects.                                              *)
LEMMA RootsLead ==
  ASSUME NEW O, Marking(O)
  PROVE  /\ Roots \in Seq(Refs(heap.begin, O)) /\ Len(Roots) = Len(stack) + Len(cells)
         /\ Len(stack) \in Nat /\ Len(cells) \in Nat
         /\ \A T : (\A i \in 1 .. Len(Roots) : Roots[i] \in T) => stack \in Seq(T) /\ cells \in Seq(T)
         /\ \A i \in 1 .. Len(Roots) : Roots[i] \in Refs(heap.begin, O)
<1>1. PICK R, Q : R = Refs(heap.begin, O) /\ Q = Refs(heap.begin, Shaped(mem, O, request))
  OBVIOUS
<1>2. Q \subseteq R
  BY <1>1, RefsGrow DEF Shaped
<1>3. stack \in Seq(R) /\ cells \in Seq(Q)
  BY <1>1 DEF Marking
<1>4. cells \in Seq(R)
  BY <1>2, <1>3, SeqGrow
<1>5. /\ Roots \in Seq(R) /\ Len(Roots) = Len(stack) + Len(cells)
      /\ Len(stack) \in Nat /\ Len(cells) \in Nat
      /\ \A T : (\A i \in 1 .. Len(Roots) : Roots[i] \in T) => stack \in Seq(T) /\ cells \in Seq(T)
  BY <1>3, <1>4, RootsSeq
<1>6. \A i \in 1 .. Len(Roots) : Roots[i] \in R
  BY <1>5, ElementOfSeq
<1> QED
  BY <1>1, <1>5, <1>6

(* What is found in a closed set stays in it.                              *)
LEMMA LeastVisit ==
  ASSUME NEW m, NEW n, NEW b, NEW s, NEW c, NEW O, NEW w, NEW used, NEW size, NEW head, NEW tail,
         Least(m, b, s, c, O, Seen(m, O)),
         Visits(m, n, b, O, used, size, w, head, tail),
         \A C \in SUBSET O : Closed(m, b, s, c, C) /\ Seen(m, O) \subseteq C => w \in Refs(b, C)
  PROVE  Least(m, b, s, c, O, Seen(n, O))
<1>1. ASSUME NEW C \in SUBSET O, Closed(m, b, s, c, C)
      PROVE  Seen(n, O) \subseteq C
  <2>1. Seen(m, O) \subseteq C
    BY <1>1 DEF Least
  <2>2. w \in Refs(b, C)
    BY <1>1, <2>1
  <2> QED
    BY <2>1, <2>2 DEF Visits
<1> QED
  BY <1>1 DEF Least

(* MarkRoot keeps the invariant: what the root leads to has been seen.     *)
LEMMA MarkRootStep ==
  ASSUME NEW O, MCInv, Marking(O), MarkRoot
  PROVE  MCInv' /\ Marking(O)' /\ Kept(mem, mem', O)
<1>1. PICK w, q :
        /\ w = Roots[root + 1]
        /\ q = IF IsValidHeapPointer(w) /\ ~IsMarked(mem, w.v)
                THEN Enqueue([mem |-> mem, tail |-> 0], w.v)
                ELSE [mem |-> mem, tail |-> 0]
        /\ mem' = q.mem /\ qtail' = q.tail
  BY DEF MarkRoot
<1>2. /\ phase = "mark" /\ qhead = qtail /\ field = fieldEnd /\ root < Len(Roots)
      /\ qhead' = 0 /\ root' = root + 1 /\ phase' = "mark"
      /\ UNCHANGED <<bound, heap, mutatorVars, field, fieldEnd, scan, live, old>>
  BY DEF MarkRoot
<1>3. HeapOK /\ CursorsOK /\ StacksOK
  BY DEF MCInv
<1>4. Marking(O)
  OBVIOUS
<1>5. PICK b, used, size : b = heap.begin /\ used = heap.used /\ size = heap.size
  OBVIOUS
<1>6. /\ Tiles(mem, O, 0, used) /\ QueueOf(mem, b, O, used, qhead, qtail)
      /\ Least(mem, b, stack, cells, O, Seen(mem, O))
      /\ \A h \in Marked(mem, O) : \A o \in FieldsAt(mem, h) \ (field .. fieldEnd - 1) :
           mem[o] \in Refs(b, Seen(mem, O))
      /\ \A i \in 1 .. root : Roots[i] \in Refs(b, Seen(mem, O))
  BY <1>4, <1>5 DEF Marking, Walked
<1>7. /\ Len(Roots) \in Nat /\ root \in Nat /\ root + 1 \in 1 .. Len(Roots) /\ w \in Refs(b, O)
  <2>1. /\ Len(Roots) = Len(stack) + Len(cells) /\ Len(stack) \in Nat /\ Len(cells) \in Nat
        /\ \A i \in 1 .. Len(Roots) : Roots[i] \in Refs(b, O)
    BY <1>4, <1>5, RootsLead
  <2>2. root \in Nat
    BY <1>3, <2>1 DEF CursorsOK
  <2>3. root + 1 \in 1 .. Len(Roots)
    BY <1>2, <2>1, <2>2
  <2> QED
    BY <1>1, <2>1, <2>2, <2>3
<1>8. /\ Enqueued(mem, O) = {} /\ QueueOf(mem, b, O, used, 0, 0)
  BY <1>2, <1>6, QueueNone
<1>9. PICK n, next : n = q.mem /\ next = q.tail
  OBVIOUS
<1>10. Visits(mem, n, b, O, used, size, w, 0, next)
  <2>1. IF IsValidHeapPointer(w) /\ ~IsMarked(mem, w.v) /\ ~IsEnqueued(mem, w.v)
          THEN n = Enqueue([mem |-> mem, tail |-> 0], w.v).mem
               /\ next = Enqueue([mem |-> mem, tail |-> 0], w.v).tail
          ELSE n = mem /\ next = 0
    <3>1. ~IsValidHeapPointer(w) \/ ~IsEnqueued(mem, w.v)
      <4>1. CASE w.kind = "ptr"
        <5>1. HeaderOf(w.v) \in O
          BY <1>5, <1>7, <4>1, TargetOf
        <5>2. HeaderOf(w.v) \notin Enqueued(mem, O)
          BY <1>8
        <5> QED
          BY <5>1, <5>2 DEF IsEnqueued, Flags, Enqueued
      <4>2. CASE w.kind # "ptr"
        BY <4>2 DEF IsValidHeapPointer, PointsInto
      <4> QED
        BY <4>1, <4>2
    <3>2. IsValidHeapPointer(w) /\ ~IsMarked(mem, w.v) /\ ~IsEnqueued(mem, w.v)
            <=> IsValidHeapPointer(w) /\ ~IsMarked(mem, w.v)
      BY <3>1
    <3>3. CASE IsValidHeapPointer(w) /\ ~IsMarked(mem, w.v)
      BY <1>1, <1>9, <3>2, <3>3
    <3>4. CASE ~(IsValidHeapPointer(w) /\ ~IsMarked(mem, w.v))
      BY <1>1, <1>9, <3>2, <3>4
    <3> QED
      BY <3>3, <3>4
  <2> QED
    BY <1>3, <1>5, <1>6, <1>7, <1>8, <2>1, VisitStep
<1>11. /\ Kept(mem, n, O) /\ Memory(n, size) /\ Tiles(n, O, 0, used)
       /\ QueueOf(n, b, O, used, 0, next)
       /\ Marked(n, O) = Marked(mem, O) /\ Seen(mem, O) \subseteq Seen(n, O)
       /\ w \in Refs(b, Seen(n, O))
  BY <1>10 DEF Visits
<1>12. Refs(b, Seen(mem, O)) \subseteq Refs(b, Seen(n, O))
  BY <1>11, RefsGrow
<1>13. Least(mem, b, stack, cells, O, Seen(n, O))
  <2>1. ASSUME NEW C \in SUBSET O, Closed(mem, b, stack, cells, C)
        PROVE  w \in Refs(b, C)
    <3>1. PICK R : R = Refs(b, C)
      OBVIOUS
    <3>2. stack \in Seq(R) /\ cells \in Seq(R)
      BY <2>1, <3>1 DEF Closed
    <3>3. Roots \in Seq(R)
      BY <3>2, RootsSeq
    <3> QED
      BY <1>1, <1>7, <3>1, <3>3, ElementOfSeq
  <2> QED
    BY <1>6, <1>10, <2>1, LeastVisit
<1>14. \A i \in 1 .. root + 1 : Roots[i] \in Refs(b, Seen(n, O))
  <2>1. \A i \in 1 .. root + 1 : i \in 1 .. root \/ i = root + 1
    BY <1>7
  <2> QED
    BY <1>1, <1>6, <1>11, <1>12, <2>1
<1>15. \A h \in Marked(n, O) : \A o \in FieldsAt(mem, h) \ (field' .. fieldEnd' - 1) :
          mem[o] \in Refs(b, Seen(n, O))
  BY <1>2, <1>6, <1>11, <1>12
<1>16. field' = fieldEnd' /\ field' \in 0 .. used /\ fieldEnd' \in 0 .. used
  BY <1>2, <1>3, <1>5 DEF CursorsOK
<1>17. n = mem' /\ next = qtail' /\ root' \in 0 .. Len(Roots)
  BY <1>1, <1>2, <1>7, <1>9
<1> QED
  BY <1>2, <1>3, <1>4, <1>5, <1>11, <1>13, <1>14, <1>15, <1>16, <1>17, MarkingStep

(* MarkField keeps the invariant: what the field leads to has been seen.   *)
LEMMA MarkFieldStep ==
  ASSUME NEW O, MCInv, Marking(O), MarkField
  PROVE  MCInv' /\ Marking(O)' /\ Kept(mem, mem', O)
<1>1. PICK w, q :
        /\ w = mem[field]
        /\ q = IF IsValidHeapPointer(w) /\ ~IsMarked(mem, w.v) /\ ~IsEnqueued(mem, w.v)
                THEN Enqueue([mem |-> mem, tail |-> qtail], w.v)
                ELSE [mem |-> mem, tail |-> qtail]
        /\ mem' = q.mem /\ qtail' = q.tail
  BY DEF MarkField
<1>2. /\ phase = "mark" /\ field # fieldEnd /\ field' = field + 1 /\ phase' = "mark"
      /\ UNCHANGED <<bound, heap, mutatorVars, root, qhead, fieldEnd, scan, live, old>>
  BY DEF MarkField
<1>3. HeapOK /\ CursorsOK /\ StacksOK
  BY DEF MCInv
<1>4. Marking(O)
  OBVIOUS
<1>5. PICK b, used, size : b = heap.begin /\ used = heap.used /\ size = heap.size
  OBVIOUS
<1>6. /\ Tiles(mem, O, 0, used) /\ QueueOf(mem, b, O, used, qhead, qtail)
      /\ FieldsIn(mem, O, Refs(b, O))
      /\ Least(mem, b, stack, cells, O, Seen(mem, O))
      /\ \A h \in Marked(mem, O) : \A o \in FieldsAt(mem, h) \ (field .. fieldEnd - 1) :
           mem[o] \in Refs(b, Seen(mem, O))
      /\ \A i \in 1 .. root : Roots[i] \in Refs(b, Seen(mem, O))
  BY <1>4, <1>5 DEF Marking, Walked
<1>7. PICK c \in Marked(mem, O) : FirstField(mem, c) <= field /\ fieldEnd = NextObject(mem, c)
  BY <1>2, <1>4 DEF Marking
<1>8. /\ c \in O /\ field \in FieldsAt(mem, c) /\ field \in Nat /\ fieldEnd \in Nat
      /\ field < fieldEnd /\ fieldEnd <= used /\ used \in Nat
  <2>1. c \in O /\ field \in Nat /\ fieldEnd \in Nat /\ field < fieldEnd /\ fieldEnd <= used /\ used \in Nat
    <3>1. used \in Nat
      BY <1>3, <1>5, BoundNat
    <3>2. field \in 0 .. used /\ fieldEnd \in 0 .. used
      BY <1>3, <1>5 DEF CursorsOK
    <3>3. field < fieldEnd
      BY <1>2, <1>4 DEF Marking
    <3> QED
      BY <1>7, <3>1, <3>2, <3>3 DEF Marked
  <2>2. FirstField(mem, c) \in Nat
    <3>1. c \in Nat /\ ObjectAt(mem, c)
      BY <1>6, <2>1, TilesFinite
    <3> QED
      BY <3>1, ObjectSize
  <2> QED
    BY <1>7, <2>1, <2>2 DEF FieldsAt
<1>9. w \in Refs(b, O)
  BY <1>1, <1>6, <1>8 DEF FieldsIn
<1>10. PICK n, next : n = q.mem /\ next = q.tail
  OBVIOUS
<1>11. Visits(mem, n, b, O, used, size, w, qhead, next)
  <2>1. IF IsValidHeapPointer(w) /\ ~IsMarked(mem, w.v) /\ ~IsEnqueued(mem, w.v)
          THEN n = Enqueue([mem |-> mem, tail |-> qtail], w.v).mem
               /\ next = Enqueue([mem |-> mem, tail |-> qtail], w.v).tail
          ELSE n = mem /\ next = qtail
    <3>1. CASE IsValidHeapPointer(w) /\ ~IsMarked(mem, w.v) /\ ~IsEnqueued(mem, w.v)
      BY <1>1, <1>10, <3>1
    <3>2. CASE ~(IsValidHeapPointer(w) /\ ~IsMarked(mem, w.v) /\ ~IsEnqueued(mem, w.v))
      BY <1>1, <1>10, <3>2
    <3> QED
      BY <3>1, <3>2
  <2> QED
    BY <1>3, <1>5, <1>6, <1>9, <2>1, VisitStep
<1>12. /\ Kept(mem, n, O) /\ Memory(n, size) /\ Tiles(n, O, 0, used)
       /\ QueueOf(n, b, O, used, qhead, next)
       /\ Marked(n, O) = Marked(mem, O) /\ Seen(mem, O) \subseteq Seen(n, O)
       /\ w \in Refs(b, Seen(n, O))
  BY <1>11 DEF Visits
<1>13. Refs(b, Seen(mem, O)) \subseteq Refs(b, Seen(n, O))
  BY <1>12, RefsGrow
<1>14. Least(mem, b, stack, cells, O, Seen(n, O))
  <2>1. ASSUME NEW C \in SUBSET O, Closed(mem, b, stack, cells, C), Seen(mem, O) \subseteq C
        PROVE  w \in Refs(b, C)
    <3>1. c \in C
      BY <1>7, <2>1 DEF Seen
    <3> QED
      BY <1>1, <1>8, <2>1, <3>1 DEF Closed, FieldsIn
  <2> QED
    BY <1>6, <1>11, <2>1, LeastVisit
<1>15. \A i \in 1 .. root' : Roots[i] \in Refs(b, Seen(n, O))
  BY <1>2, <1>6, <1>13
<1>16. \A h \in Marked(n, O) : \A o \in FieldsAt(mem, h) \ (field' .. fieldEnd' - 1) :
          mem[o] \in Refs(b, Seen(n, O))
  <2>1. ASSUME NEW h \in Marked(n, O), NEW o \in FieldsAt(mem, h), o \notin field' .. fieldEnd' - 1
        PROVE  mem[o] \in Refs(b, Seen(n, O))
    <3>1. CASE o = field
      BY <1>1, <1>12, <3>1
    <3>2. CASE o # field
      <4>1. o \in Int
        <5>1. h \in O
          BY <1>12, <2>1 DEF Marked
        <5>2. h \in Nat /\ ObjectAt(mem, h)
          BY <1>6, <5>1, TilesFinite
        <5>3. FirstField(mem, h) \in Nat
          BY <5>2, ObjectSize
        <5> QED
          BY <2>1, <5>3 DEF FieldsAt
      <4>2. o \notin field .. fieldEnd - 1
        BY <1>2, <1>8, <2>1, <3>2, <4>1
      <4> QED
        BY <1>6, <1>12, <1>13, <2>1, <4>2
    <3> QED
      BY <3>1, <3>2
  <2> QED
    BY <2>1
<1>17. field' \in 0 .. used /\ fieldEnd' \in 0 .. used /\ (field' # fieldEnd' => field' < fieldEnd')
       /\ FirstField(mem, c) <= field' /\ fieldEnd' = NextObject(mem, c) /\ c \in Marked(n, O)
  <2>1. FirstField(mem, c) \in Int
    <3>1. c \in Nat /\ ObjectAt(mem, c)
      BY <1>6, <1>8, TilesFinite
    <3> QED
      BY <3>1, ObjectSize
  <2> QED
    BY <1>2, <1>7, <1>8, <1>12, <2>1
<1>18. n = mem' /\ next = qtail' /\ root' \in 0 .. Len(Roots) /\ qhead' = qhead
  <2>1. Len(Roots) = Len(stack) + Len(cells)
    BY <1>4, RootsLead
  <2> QED
    BY <1>1, <1>2, <1>3, <1>10, <2>1 DEF CursorsOK
<1> QED
  BY <1>2, <1>3, <1>4, <1>5, <1>12, <1>14, <1>15, <1>16, <1>17, <1>18, MarkingStep

Slot(m, s, p) == m[s + 1].v = p

(* The first in the queue.                                                 *)
LEMMA QueueFirst ==
  ASSUME NEW m, NEW b, NEW O, NEW used, NEW head, NEW tail, NEW p,
         b \in Nat, Tiles(m, O, 0, used), QueueOf(m, b, O, used, head, tail), head # tail,
         Slot(m, head, p)
  PROVE  head \in O /\ head < tail /\ p \in Int /\ p - b - 2 \in Enqueued(m, O)
<1>1. /\ {head, tail} \subseteq O \cup {used} /\ head <= tail
      /\ used \in Nat /\ \A x \in O : x \in Nat /\ x < used
  BY TilesFinite DEF QueueOf
<1>2. head \in O /\ head < tail /\ head <= head
  BY <1>1
<1>3. PICK X : X = {x \in O : head <= x /\ x < tail}
  OBVIOUS
<1>4. head \in X
  BY <1>2, <1>3
<1>5. {m[s + 1].v : s \in X} = {b + x + HeaderWords : x \in Enqueued(m, O)}
  BY <1>3 DEF QueueOf
<1>6. PICK x \in Enqueued(m, O) : p = b + x + HeaderWords
  BY <1>4, <1>5 DEF Slot
<1>7. x \in Nat
  BY <1>1 DEF Enqueued
<1>8. p \in Int /\ p - b - 2 = x
  BY <1>6, <1>7 DEF HeaderWords
<1> QED
  BY <1>2, <1>8

(* Dequeuing leaves a queue of the objects that are enqueued still.        *)
LEMMA QueueShrinks ==
  ASSUME NEW m, NEW n, NEW b, NEW O, NEW used, NEW head, NEW tail, NEW h, NEW p,
         b \in Nat, Tiles(m, O, 0, used), QueueOf(m, b, O, used, head, tail), head # tail,
         Slot(m, head, p), h \in Enqueued(m, O), AddressOf(p, b, h), Dequeues(m, n, O, h)
  PROVE  /\ QueueOf(n, b, O, used, NextObject(m, head), tail)
         /\ Marked(n, O) = Marked(m, O) \cup {h} /\ Seen(n, O) = Seen(m, O)
<1>1. PICK M, E : M = Marked(m, O) /\ E = Enqueued(m, O)
  OBVIOUS
<1>2. h \in O /\ h \in E /\ h \notin M /\ E \subseteq O
  BY <1>1 DEF QueueOf, Enqueued
<1>3. Marked(n, O) = M \cup {h} /\ Enqueued(n, O) = E \ {h}
  BY <1>1, <1>2 DEF Dequeues, Marked, Enqueued
<1>4. Seen(n, O) = Seen(m, O)
  BY <1>1, <1>2, <1>3 DEF Seen
<1>5. PICK next : next = NextObject(m, head)
  OBVIOUS
<1>6. head \in O /\ head < tail
  BY <1>1, QueueFirst
<1>7. /\ head \in Nat /\ next \in Nat /\ head < next /\ next \in O \cup {used}
      /\ \A x \in O : x \in Nat /\ (head < x => next <= x) /\ x < used
      /\ used \in Nat /\ tail \in O \cup {used} /\ next <= tail
  <2>1. head \in Nat /\ ObjectAt(m, head) /\ next \in O \cup {used} /\ next <= used
    BY <1>5, <1>6 DEF Tiles
  <2>2. next \in Nat /\ head < next
    BY <1>5, <2>1, ObjectSize
  <2>3. \A x \in O : head < x => next <= x
    BY <1>5, <1>6 DEF Tiles
  <2>4. used \in Nat /\ \A x \in O : x \in Nat /\ x < used
    BY TilesFinite
  <2>5. tail \in O \cup {used}
    BY DEF QueueOf
  <2> QED
    BY <1>6, <2>1, <2>2, <2>3, <2>4, <2>5
<1>8. PICK X, Y : X = {x \in O : head <= x /\ x < tail} /\ Y = {x \in O : next <= x /\ x < tail}
  OBVIOUS
<1>9. X = Y \cup {head} /\ head \notin Y
  <2>1. tail \in Nat
    BY <1>7
  <2>2. ASSUME NEW x \in O
        PROVE  head <= x /\ x < tail <=> (next <= x /\ x < tail) \/ x = head
    BY <1>6, <1>7, <2>1
  <2>3. X = Y \cup {head}
    BY <1>6, <1>8, <2>2
  <2> QED
    BY <1>7, <1>8, <2>3
<1>10. /\ \A s, t \in X : m[s + 1].v = m[t + 1].v => s = t
       /\ {m[s + 1].v : s \in X} = {b + x + HeaderWords : x \in E}
  BY <1>1, <1>8 DEF QueueOf
<1>11. \A x \in O : n[x + 1].v = m[x + 1].v
  BY DEF Dequeues
<1>12. \A s, t \in Y : n[s + 1].v = n[t + 1].v => s = t
  BY <1>8, <1>9, <1>10, <1>11
<1>13. {n[s + 1].v : s \in Y} = {b + x + HeaderWords : x \in E \ {h}}
  <2>1. {n[s + 1].v : s \in Y} = {m[s + 1].v : s \in Y}
    BY <1>8, <1>11
  <2>2. {m[s + 1].v : s \in Y} = {m[s + 1].v : s \in X} \ {p}
    BY <1>1, <1>9, <1>10 DEF Slot
  <2>3. {b + x + HeaderWords : x \in E \ {h}} = {b + x + HeaderWords : x \in E} \ {p}
    <3>1. p = b + h + HeaderWords
      BY <1>1 DEF AddressOf, HeaderWords
    <3>2. \A x \in E : x # h => b + x + HeaderWords # b + h + HeaderWords
      BY <1>2, <1>7 DEF HeaderWords
    <3> QED
      BY <1>2, <3>1, <3>2
  <2> QED
    BY <1>10, <2>1, <2>2, <2>3
<1>14. (M \cup {h}) \cap (E \ {h}) = {}
  BY <1>1 DEF QueueOf
<1>15. Cardinality({x \in O : x >= tail}) >= Cardinality(O \ Seen(n, O))
  BY <1>4 DEF QueueOf
<1>16. QueueOf(n, b, O, used, next, tail)
  BY <1>3, <1>7, <1>8, <1>12, <1>13, <1>14, <1>15 DEF QueueOf
<1> QED
  BY <1>1, <1>3, <1>4, <1>5, <1>16

(* MarkStep keeps the invariant: the object it marks has its fields ahead. *)
LEMMA MarkStepStep ==
  ASSUME NEW O, MCInv, Marking(O), MarkStep
  PROVE  MCInv' /\ Marking(O)' /\ Kept(mem, mem', O)
<1>1. PICK p, h, n : p = mem[qhead + 1].v /\ h = HeaderOf(p) /\ n = Dequeued(h)
  OBVIOUS
<1>2. /\ phase = "mark" /\ phase' = "mark" /\ qhead # qtail /\ field = fieldEnd
      /\ mem' = n /\ field' = FirstField(mem, h) /\ fieldEnd' = NextObject(mem, h)
      /\ qhead' = NextObject(mem, qhead)
      /\ UNCHANGED <<bound, heap, mutatorVars, root, qtail, scan, live, old>>
  BY <1>1 DEF MarkStep
<1>3. HeapOK /\ CursorsOK /\ StacksOK
  BY DEF MCInv
<1>4. Marking(O)
  OBVIOUS
<1>5. PICK b, used, size : b = heap.begin /\ used = heap.used /\ size = heap.size
  OBVIOUS
<1>6. /\ Tiles(mem, O, 0, used) /\ QueueOf(mem, b, O, used, qhead, qtail)
      /\ Least(mem, b, stack, cells, O, Seen(mem, O))
      /\ \A x \in Marked(mem, O) : \A o \in FieldsAt(mem, x) \ (field .. fieldEnd - 1) :
           mem[o] \in Refs(b, Seen(mem, O))
      /\ \A i \in 1 .. root : Roots[i] \in Refs(b, Seen(mem, O))
  BY <1>4, <1>5 DEF Marking, Walked
<1>7. b \in Nat /\ used \in Nat /\ size \in Nat /\ used <= size /\ Memory(mem, size)
  BY <1>3, <1>5, BoundNat DEF HeapOK
<1>p. Slot(mem, qhead, p)
  BY <1>1 DEF Slot
<1>8. h \in Enqueued(mem, O) /\ AddressOf(p, b, h)
  <2>1. p \in Int /\ p - b - 2 \in Enqueued(mem, O)
    BY <1>1, <1>2, <1>6, <1>7, <1>p, QueueFirst
  <2>2. h = p - b - 2
    BY <1>1, <1>5 DEF HeaderOf, HeaderWords
  <2> QED
    BY <1>7, <2>1, <2>2 DEF AddressOf
<1>9. h \in O /\ h \in Nat /\ ObjectAt(mem, h) /\ NextObject(mem, h) <= used
  <2>1. h \in O
    BY <1>8 DEF Enqueued
  <2> QED
    BY <1>6, <2>1 DEF Tiles
<1>10. /\ Kept(mem, n, O) /\ Memory(n, size) /\ Tiles(n, O, 0, used)
       /\ Dequeues(mem, n, O, h)
  BY <1>1, <1>6, <1>7, <1>9, DequeuedEffect
<1>11. /\ QueueOf(n, b, O, used, NextObject(mem, qhead), qtail)
       /\ Marked(n, O) = Marked(mem, O) \cup {h} /\ Seen(n, O) = Seen(mem, O)
  <2>1. /\ b \in Nat /\ Tiles(mem, O, 0, used) /\ QueueOf(mem, b, O, used, qhead, qtail)
        /\ qhead # qtail /\ Slot(mem, qhead, p) /\ h \in Enqueued(mem, O)
        /\ AddressOf(p, b, h) /\ Dequeues(mem, n, O, h)
    BY <1>2, <1>6, <1>7, <1>8, <1>10, <1>p
  <2> QED
    BY ONLY <2>1, QueueShrinks
<1>12. /\ FirstField(mem, h) \in Nat /\ NextObject(mem, h) \in Nat
       /\ FirstField(mem, h) <= NextObject(mem, h)
  BY <1>9, ObjectSize
<1>13. /\ field' \in 0 .. used /\ fieldEnd' \in 0 .. used /\ (field' # fieldEnd' => field' < fieldEnd')
       /\ FirstField(mem, h) <= field' /\ fieldEnd' = NextObject(mem, h) /\ h \in Marked(n, O)
  BY <1>2, <1>7, <1>9, <1>11, <1>12
<1>14. \A x \in Marked(n, O) : \A o \in FieldsAt(mem, x) \ (field' .. fieldEnd' - 1) :
          mem[o] \in Refs(b, Seen(n, O))
  <2>1. ASSUME NEW x \in Marked(n, O), NEW o \in FieldsAt(mem, x), o \notin field' .. fieldEnd' - 1
        PROVE  mem[o] \in Refs(b, Seen(n, O))
    <3>1. x # h
      BY <1>2, <2>1 DEF FieldsAt
    <3>2. x \in Marked(mem, O)
      BY <1>11, <2>1, <3>1
    <3>3. field .. fieldEnd - 1 = {}
      <4>1. field \in Nat
        BY <1>3, <1>5, <1>7 DEF CursorsOK
      <4> QED
        BY <1>2, <4>1
    <3> QED
      BY <1>6, <1>11, <2>1, <3>2, <3>3
  <2> QED
    BY <2>1
<1>15. root' \in 0 .. Len(Roots) /\ root' = root /\ qtail' = qtail
  <2>1. Len(Roots) = Len(stack) + Len(cells)
    BY <1>4, RootsLead
  <2> QED
    BY <1>2, <1>3, <2>1 DEF CursorsOK
<1>16. (\A i \in 1 .. root' : Roots[i] \in Refs(b, Seen(n, O))) /\ Least(mem, b, stack, cells, O, Seen(n, O))
  BY <1>6, <1>11, <1>15
<1>17. /\ Kept(mem, mem', O) /\ Memory(mem', heap.size) /\ Tiles(mem', O, 0, heap.used)
       /\ QueueOf(mem', heap.begin, O, heap.used, qhead', qtail')
       /\ field' \in 0 .. heap.used /\ fieldEnd' \in 0 .. heap.used
  BY <1>2, <1>5, <1>10, <1>11, <1>13, <1>15
<1>18. field' # fieldEnd' =>
          /\ field' < fieldEnd'
          /\ \E c \in Marked(mem', O) : FirstField(mem, c) <= field' /\ fieldEnd' = NextObject(mem, c)
  BY <1>2, <1>13
<1> QED
  BY <1>2, <1>3, <1>4, <1>5, <1>14, <1>15, <1>16, <1>17, <1>18, MarkingStep

(* MarkDone keeps the invariant: what is marked is all that can be         *)
(* reached.                                                                *)
LEMMA MarkDoneStep ==
  ASSUME NEW O, MCInv, Marking(O), MarkDone
  PROVE  MCInv' /\ Computing(O)'
<1>1. /\ phase = "mark" /\ phase' = "compute" /\ qhead = qtail /\ field = fieldEnd
      /\ root = Len(Roots) /\ scan' = 0 /\ live' = 0
      /\ UNCHANGED <<bound, heap, mem, mutatorVars, markVars, old>>
  BY DEF MarkDone
<1>2. HeapOK /\ CursorsOK /\ StacksOK
  BY DEF MCInv
<1>3. Marking(O)
  OBVIOUS
<1>4. PICK b, used, M : b = heap.begin /\ used = heap.used /\ M = Marked(mem, O)
  OBVIOUS
<1>5. /\ Walked(O) /\ Tiles(mem, O, 0, used) /\ QueueOf(mem, b, O, used, qhead, qtail)
      /\ Least(mem, b, stack, cells, O, Seen(mem, O))
      /\ \A x \in M : \A o \in FieldsAt(mem, x) \ (field .. fieldEnd - 1) :
           mem[o] \in Refs(b, Seen(mem, O))
      /\ \A i \in 1 .. root : Roots[i] \in Refs(b, Seen(mem, O))
      /\ cells \in Seq(Refs(b, Shaped(mem, O, request)))
  BY <1>3, <1>4 DEF Marking, Walked
<1>6. Enqueued(mem, O) = {} /\ Seen(mem, O) = M
  BY <1>1, <1>4, <1>5, QueueNone
<1>7. stack \in Seq(Refs(b, M)) /\ cells \in Seq(Refs(b, M))
  BY <1>1, <1>3, <1>5, <1>6, RootsLead
<1>8. FieldsIn(mem, M, Refs(b, M))
  <2>1. field .. fieldEnd - 1 = {}
    <3>1. field \in 0 .. used /\ used \in Nat
      BY <1>2, <1>4, BoundNat DEF CursorsOK
    <3>2. field \in Nat
      BY <3>1
    <3> QED
      BY <1>1, <3>2
  <2> QED
    BY <1>5, <1>6, <2>1 DEF FieldsIn
<1>9. cells \in Seq(Refs(b, Shaped(mem, M, request)))
  <2>1. PICK R, Q, T : /\ R = Refs(b, M) /\ Q = Refs(b, Shaped(mem, O, request))
                       /\ T = Refs(b, Shaped(mem, M, request))
    OBVIOUS
  <2>2. ASSUME NEW w \in R, w \in Q
        PROVE  w \in T
    <3>1. w.kind = "ptr" => w.v - b - HeaderWords \in M
      BY <2>1, <2>2 DEF Refs
    <3>2. w.kind = "ptr" => w.v - b - HeaderWords \in Shaped(mem, O, request)
      BY <2>1, <2>2 DEF Refs
    <3>3. w.kind = "ptr" => w.v - b - HeaderWords \in Shaped(mem, M, request)
      BY <3>1, <3>2 DEF Shaped
    <3>4. w \in [kind : {"int", "ptr"}, v : Int]
      BY <2>1, <2>2 DEF Refs
    <3> QED
      BY <2>1, <3>3, <3>4 DEF Refs
  <2>3. cells \in Seq(R) /\ cells \in Seq(Q)
    BY <1>5, <1>7, <2>1
  <2>4. /\ Len(cells) \in Nat /\ cells = [i \in 1 .. Len(cells) |-> cells[i]]
        /\ \A i \in 1 .. Len(cells) : cells[i] \in R /\ cells[i] \in Q
    BY <2>3, LenProperties, ElementOfSeq
  <2>5. \A i \in 1 .. Len(cells) : cells[i] \in T
    BY <2>2, <2>4
  <2> QED
    BY <2>1, <2>4, <2>5, SeqByPositions
<1>10. Slides(mem, b, {}, 0, 0)
  BY DEF Slides
<1>11. {h \in M : h < 0} = {}
  BY <1>4, <1>5, TilesFinite DEF Marked
<1>12. Closed(mem, b, stack, cells, M) /\ Least(mem, b, stack, cells, O, M)
  BY <1>5, <1>6, <1>7, <1>8 DEF Closed
<1>13. /\ stack' = stack /\ cells' = cells /\ request' = request /\ allocs' = allocs
       /\ heap' = heap /\ bound' = bound /\ mem' = mem
  BY <1>1 DEF mutatorVars
<1>14. 0 \in O \cup {used}
  BY <1>5 DEF Tiles
<1>15. Walked(O)'
  BY <1>5, <1>13 DEF Walked
<1>16. Computing(O)'
  <2>1. Slides(mem, b, {h \in M : h < 0}, 0, 0) /\ 0 <= 0
    BY <1>10, <1>11
  <2>2. /\ Closed(mem', heap'.begin, stack', cells', Marked(mem', O))
        /\ Least(mem', heap'.begin, stack', cells', O, Marked(mem', O))
        /\ cells' \in Seq(Refs(heap'.begin, Shaped(mem', Marked(mem', O), request')))
        /\ Enqueued(mem', O) = {}
    BY <1>4, <1>6, <1>9, <1>12, <1>13
  <2>3. /\ scan' \in O \cup {heap'.used} /\ live' <= scan'
        /\ Slides(mem', heap'.begin, {h \in Marked(mem', O) : h < scan'}, 0, live')
    BY <1>1, <1>4, <1>13, <1>14, <2>1
  <2> QED
    BY ONLY <1>15, <2>2, <2>3 DEF Computing
<1>17. HeapOK' /\ StacksOK'
  BY <1>1, <1>2, <1>13, StacksSame DEF HeapOK
<1>18. CursorsOK'
  <2>1. 0 \in 0 .. used
    BY <1>2, <1>4, BoundNat
  <2> QED
    BY <1>1, <1>2, <1>4, <1>13, <2>1 DEF CursorsOK, markVars
<1> QED
  BY <1>1, <1>16, <1>17, <1>18 DEF MCInv, Phases

-----------------------------------------------------------------------------
(***************************************************************************)
(* New places                                                              *)
(***************************************************************************)

(* The object at s gets the place from `place' on.                         *)
Puts(n, b, s, place, next) ==
  Dest(n, b, s) = place /\ SizeAt(n, s) \in Nat /\ next = place + SizeAt(n, s)

SamePlaces(m, n, b, D) ==
  \A h \in D : Dest(n, b, h) = Dest(m, b, h) /\ SizeAt(n, h) = SizeAt(m, h)

Places(m, b, D) == \A h \in D : h \in Nat /\ Dest(m, b, h) \in Int /\ SizeAt(m, h) \in Nat

(* New places depend on forward addresses and sizes only.                  *)
LEMMA SlidesSame ==
  ASSUME NEW m, NEW n, NEW b, NEW D, NEW from, NEW to,
         Slides(m, b, D, from, to), SamePlaces(m, n, b, D)
  PROVE  Slides(n, b, D, from, to) /\ Dests(n, b, D) = Dests(m, b, D)
<1>1. Dests(n, b, D) = Dests(m, b, D)
  BY DEF SamePlaces, Dests
<1> QED
  BY <1>1 DEF Slides, SamePlaces

(* The next live object gets the place behind those before it.             *)
LEMMA SlidesGrow ==
  ASSUME NEW m, NEW n, NEW b, NEW D, NEW s \in Nat, NEW place, NEW next,
         Slides(m, b, D, 0, place), Places(m, b, D), SamePlaces(m, n, b, D),
         \A h \in D : h < s, Puts(n, b, s, place, next)
  PROVE  Slides(n, b, D \cup {s}, 0, next)
<1>1. PICK X, Y : X = Dests(m, b, D) /\ Y = Dests(n, b, D \cup {s})
  OBVIOUS
<1>2. /\ place \in Nat /\ (0 = place \/ 0 \in X)
      /\ \A h \in D : /\ 0 <= Dest(m, b, h) /\ Dest(m, b, h) + SizeAt(m, h) <= place
                      /\ Dest(m, b, h) + SizeAt(m, h) \in X \cup {place}
      /\ \A g, h \in D : g < h => Dest(m, b, g) + SizeAt(m, g) <= Dest(m, b, h)
  BY <1>1 DEF Slides
<1>3. Y = X \cup {place}
  <2>1. \A h \in D : Dest(n, b, h) = Dest(m, b, h)
    BY DEF SamePlaces
  <2>2. Dest(n, b, s) = place
    BY DEF Puts
  <2> QED
    BY <1>1, <2>1, <2>2 DEF Dests
<1>4. SizeAt(n, s) \in Nat /\ next = place + SizeAt(n, s) /\ Dest(n, b, s) = place
  BY DEF Puts
<1>5. next \in Nat /\ place <= next
  BY <1>2, <1>4
<1>6. 0 \in Y
  BY <1>2, <1>3
<1>7. \A h \in D \cup {s} : /\ 0 <= Dest(n, b, h) /\ Dest(n, b, h) + SizeAt(n, h) <= next
                            /\ Dest(n, b, h) + SizeAt(n, h) \in Y \cup {next}
  <2>1. ASSUME NEW h \in D
        PROVE  /\ 0 <= Dest(n, b, h) /\ Dest(n, b, h) + SizeAt(n, h) <= next
               /\ Dest(n, b, h) + SizeAt(n, h) \in Y \cup {next}
    <3>1. PICK d, z : d = Dest(n, b, h) /\ z = SizeAt(n, h)
      OBVIOUS
    <3>2. d = Dest(m, b, h) /\ z = SizeAt(m, h) /\ d \in Int /\ z \in Nat
      BY <3>1 DEF SamePlaces, Places
    <3>3. 0 <= d /\ d + z <= place /\ d + z \in X \cup {place}
      BY <1>2, <3>2
    <3> QED
      BY <1>2, <1>3, <1>5, <3>1, <3>2, <3>3
  <2>2. /\ 0 <= Dest(n, b, s) /\ Dest(n, b, s) + SizeAt(n, s) <= next
        /\ Dest(n, b, s) + SizeAt(n, s) \in Y \cup {next}
    BY <1>2, <1>4, <1>5
  <2> QED
    BY <2>1, <2>2
<1>8. \A g, h \in D \cup {s} : g < h => Dest(n, b, g) + SizeAt(n, g) <= Dest(n, b, h)
  <2>1. ASSUME NEW g \in D, NEW h \in D, g < h
        PROVE  Dest(n, b, g) + SizeAt(n, g) <= Dest(n, b, h)
    BY <1>2, <2>1 DEF SamePlaces
  <2>2. ASSUME NEW g \in D
        PROVE  Dest(n, b, g) + SizeAt(n, g) <= Dest(n, b, s) /\ ~(s < g)
    <3>1. Dest(n, b, g) = Dest(m, b, g) /\ SizeAt(n, g) = SizeAt(m, g) /\ g \in Nat /\ g < s
      BY DEF SamePlaces, Places
    <3> QED
      BY <1>2, <1>4, <3>1
  <2> QED
    BY <2>1, <2>2
<1> QED
  BY <1>1, <1>5, <1>6, <1>7, <1>8 DEF Slides

(* What the invariant says while new places are computed.                  *)
LEMMA ComputingNow ==
  ASSUME MCInv, phase = "compute"
  PROVE  HeapOK /\ CursorsOK /\ StacksOK /\ \E O : Computing(O)
  BY DEF MCInv, Phases

(* Whether the object under an iterator is marked.                         *)
LEMMA MarkedHere ==
  ASSUME NEW O, NEW h \in O, h \in Nat, heap.begin \in Nat
  PROVE  IsMarked(mem, Content(h)) <=> h \in Marked(mem, O)
<1>1. HeaderOf(Content(h)) = h
  BY DEF HeaderOf, Content, HeaderWords
<1> QED
  BY <1>1 DEF IsMarked, Flags, Marked

(* The objects an iterator has gone over.                                  *)
LEMMA Passed ==
  ASSUME NEW m, NEW O, NEW from, NEW to, Tiles(m, O, from, to), NEW s \in O, NEW M, M \subseteq O
  PROVE  /\ NextObject(m, s) \in O \cup {to} /\ NextObject(m, s) \in Nat /\ s < NextObject(m, s)
         /\ NextObject(m, s) <= to /\ to \in Nat /\ s \in Nat
         /\ NextObject(m, s) = s + SizeAt(m, s) /\ SizeAt(m, s) \in Nat
         /\ {h \in M : h < NextObject(m, s)} = {h \in M : h < s} \cup ({s} \cap M)
         /\ {h \in M : h >= NextObject(m, s)} = {h \in M : h >= s} \ {s}
<1>1. PICK e : e = NextObject(m, s)
  OBVIOUS
<1>2. /\ s \in Nat /\ ObjectAt(m, s) /\ e \in O \cup {to} /\ to \in Nat /\ e <= to
      /\ \A h \in O : h \in Nat /\ (s < h => e <= h)
  BY <1>1 DEF Tiles
<1>3. e \in Nat /\ s < e /\ e = s + SizeAt(m, s) /\ SizeAt(m, s) \in Nat
  BY <1>1, <1>2, ObjectSize
<1>4. \A h \in M : h < e <=> h < s \/ h = s
  BY <1>2, <1>3
<1>5. {h \in M : h < e} = {h \in M : h < s} \cup ({s} \cap M)
  BY <1>4
<1>6. {h \in M : h >= e} = {h \in M : h >= s} \ {s}
  <2>1. \A h \in M : h >= e <=> h >= s /\ h # s
    BY <1>2, <1>3
  <2> QED
    BY <2>1
<1> QED
  BY <1>1, <1>2, <1>3, <1>5, <1>6

(* What a step over the objects has to show while locations are computed.  *)
LEMMA ComputingStep ==
  ASSUME HeapOK, CursorsOK, StacksOK, NEW O, Computing(O), phase = "compute", phase' = "compute",
         UNCHANGED <<bound, heap, mutatorVars, markVars>>,
         Kept(mem, mem', O), Memory(mem', heap.size), Tiles(mem', O, 0, heap.used),
         Marked(mem', O) = Marked(mem, O), Enqueued(mem', O) = {},
         scan' \in O \cup {heap.used}, live' <= scan',
         Slides(mem', heap.begin, {h \in Marked(mem, O) : h < scan'}, 0, live')
  PROVE  MCInv' /\ Computing(O)'
<1>1. PICK b, M, n : b = heap.begin /\ M = Marked(mem, O) /\ n = mem'
  OBVIOUS
<1>2. /\ Tiles(mem, O, 0, heap.used) /\ Cardinality(O) <= allocs
      /\ Closed(mem, b, stack, cells, M) /\ Least(mem, b, stack, cells, O, M)
      /\ cells \in Seq(Refs(b, Shaped(mem, M, request)))
  BY <1>1 DEF Computing, Walked
<1>3. /\ stack' = stack /\ cells' = cells /\ request' = request /\ allocs' = allocs
      /\ heap' = heap /\ bound' = bound
  BY DEF mutatorVars
<1>4. M \subseteq O /\ \A h \in O : ObjectAt(mem, h) /\ n[h] = mem[h]
  BY <1>1, <1>2 DEF Kept, Tiles, Alike, Marked
<1>5. (\A h \in M : ObjectAt(mem, h)) /\ Kept(mem, n, M)
  BY <1>1, <1>4 DEF Kept
<1>6. Closed(n, b, stack, cells, M)
  <2>1. PICK R : R = Refs(b, M)
    OBVIOUS
  <2>2. stack \in Seq(R) /\ cells \in Seq(R) /\ FieldsIn(mem, M, R)
    BY <1>2, <2>1 DEF Closed
  <2>3. FieldsIn(n, M, R)
    BY <1>5, <2>2, FieldsKept
  <2> QED
    BY <2>1, <2>2, <2>3 DEF Closed
<1>7. Least(n, b, stack, cells, O, M)
  BY <1>1, <1>2, <1>4, LeastKept
<1>8. Shaped(n, M, request) = Shaped(mem, M, request)
  BY <1>4, ShapedKept
<1>9. Walked(O)'
  BY <1>1, <1>2, <1>3 DEF Walked
<1>10. Computing(O)'
  <2>1. /\ Closed(mem', heap'.begin, stack', cells', Marked(mem', O))
        /\ Least(mem', heap'.begin, stack', cells', O, Marked(mem', O))
        /\ cells' \in Seq(Refs(heap'.begin, Shaped(mem', Marked(mem', O), request')))
    BY <1>1, <1>2, <1>3, <1>6, <1>7, <1>8
  <2>2. Slides(mem', heap'.begin, {h \in Marked(mem', O) : h < scan'}, 0, live')
        /\ scan' \in O \cup {heap'.used}
    BY <1>3
  <2> QED
    BY <1>9, <2>1, <2>2 DEF Computing
<1>11. HeapOK' /\ StacksOK'
  BY <1>1, <1>3, StacksSame DEF HeapOK
<1>12. CursorsOK'
  <2>1. O \subseteq 0 .. heap.used - 1 /\ heap.used \in Nat
    BY <1>2, TilesFinite
  <2>2. scan' \in 0 .. heap.used
    BY <2>1
  <2>3. live' \in Nat
    BY DEF Slides
  <2>4. live' \in 0 .. heap.used
    BY <2>1, <2>2, <2>3
  <2> QED
    BY <1>3, <2>2, <2>4 DEF CursorsOK, markVars
<1> QED
  BY <1>10, <1>11, <1>12 DEF MCInv, Phases

(* Forward words of heaps whose objects have the same flags.               *)
LEMMA SameFlags ==
  ASSUME NEW m, NEW n, NEW O, NEW t, NEW p, Forwards(m, n, O, t, p)
  PROVE  Marked(n, O) = Marked(m, O) /\ Enqueued(n, O) = Enqueued(m, O)
  BY DEF Forwards, Marked, Enqueued

(* Objects, their new places and their sizes are numbers.                  *)
LEMMA PlacesOf ==
  ASSUME NEW m, NEW O, NEW from, NEW to, Tiles(m, O, from, to), NEW D, D \subseteq O, NEW b \in Int
  PROVE  Places(m, b, D)
<1>1. ASSUME NEW h \in D
      PROVE  h \in Nat /\ Dest(m, b, h) \in Int /\ SizeAt(m, h) \in Nat
  <2>1. h \in Nat /\ ObjectAt(m, h)
    BY DEF Tiles
  <2>2. m[h + 1].v \in Int
    BY <2>1 DEF ObjectAt, ForwardWords
  <2> QED
    BY <2>1, <2>2, ObjectSize DEF Dest
<1> QED
  BY <1>1 DEF Places

(* Compute keeps the invariant: live objects get places one behind the     *)
(* other.                                                                  *)
LEMMA ComputeStep ==
  ASSUME NEW O, MCInv, Computing(O), Compute
  PROVE  MCInv' /\ Computing(O)' /\ Kept(mem, mem', O)
<1>1. /\ phase = "compute" /\ phase' = "compute" /\ scan < heap.used
      /\ IF IsMarked(mem, Content(scan))
           THEN /\ mem' = SetForward(mem, scan, heap.begin + live)
                /\ live' = live + SizeAt(mem, scan)
           ELSE mem' = mem /\ live' = live
      /\ scan' = NextObject(mem, scan)
      /\ UNCHANGED <<bound, heap, mutatorVars, markVars>>
  BY DEF Compute
<1>2. HeapOK /\ CursorsOK /\ StacksOK
  BY DEF MCInv
<1>3. Computing(O)
  OBVIOUS
<1>4. PICK b, used, size, M, n : /\ b = heap.begin /\ used = heap.used /\ size = heap.size
                                 /\ M = Marked(mem, O) /\ n = mem'
  OBVIOUS
<1>5. b \in Nat /\ used \in Nat /\ size \in Nat /\ used <= size /\ Memory(mem, size)
  BY <1>2, <1>4, BoundNat DEF HeapOK
<1>6. PICK D : D = {h \in M : h < scan}
  OBVIOUS
<1>7. /\ Tiles(mem, O, 0, used) /\ scan \in O \cup {used} /\ live <= scan
      /\ Enqueued(mem, O) = {} /\ Slides(mem, b, D, 0, live)
  BY <1>3, <1>4, <1>6 DEF Computing, Walked
<1>8. scan \in O /\ M \subseteq O /\ D \subseteq O
  <2>1. scan # used
    BY <1>1, <1>4, <1>5
  <2> QED
    BY <1>4, <1>6, <1>7, <2>1 DEF Marked
<1>9. PICK next : next = NextObject(mem, scan)
  OBVIOUS
<1>10. /\ next \in O \cup {used} /\ next \in Nat /\ scan < next /\ scan \in Nat
       /\ next = scan + SizeAt(mem, scan) /\ SizeAt(mem, scan) \in Nat
       /\ {h \in M : h < next} = D \cup ({scan} \cap M)
  BY <1>6, <1>7, <1>8, <1>9, Passed
<1>11. live \in Nat
  BY <1>7 DEF Slides
<1>12. IsMarked(mem, Content(scan)) <=> scan \in M
  BY <1>4, <1>5, <1>8, <1>10, MarkedHere
<1>13. CASE scan \notin M
  <2>1. n = mem /\ live' = live /\ scan' = next
    BY <1>1, <1>4, <1>9, <1>12, <1>13
  <2>2. {h \in M : h < scan'} = D
    BY <1>10, <1>13, <2>1
  <2>3. live' <= scan'
    BY <1>7, <1>10, <1>11, <2>1
  <2>4. Kept(mem, n, O)
    BY <1>7, <2>1, KeptSame DEF Tiles
  <2>5. /\ Memory(n, size) /\ Tiles(n, O, 0, used) /\ Marked(n, O) = M /\ Enqueued(n, O) = {}
        /\ Slides(n, b, D, 0, live')
    BY <1>4, <1>5, <1>7, <2>1
  <2> QED
    BY <1>1, <1>2, <1>3, <1>4, <1>10, <2>1, <2>2, <2>3, <2>4, <2>5, ComputingStep
<1>14. CASE scan \in M
  <2>1. PICK p : p = b + live
    OBVIOUS
  <2>2. n = SetForward(mem, scan, p) /\ live' = live + SizeAt(mem, scan) /\ scan' = next /\ p \in Int
    BY <1>1, <1>4, <1>5, <1>9, <1>11, <1>12, <1>14, <2>1
  <2>3. Kept(mem, n, O) /\ Memory(n, size) /\ Tiles(n, O, 0, used) /\ Forwards(mem, n, O, scan, p)
    BY <1>5, <1>7, <1>8, <2>2, SetForwardEffect
  <2>4. Marked(n, O) = M /\ Enqueued(n, O) = {}
    BY <1>4, <1>7, <2>3, SameFlags
  <2>5. \A h \in O : SizeAt(n, h) = SizeAt(mem, h)
    BY <1>7, <2>3, AlikeObject DEF Kept, Tiles
  <2>6. Dest(n, b, scan) = live /\ \A h \in O : h # scan => Dest(n, b, h) = Dest(mem, b, h)
    BY <1>5, <1>8, <1>11, <2>1, <2>3 DEF Forwards, Dest
  <2>7. \A h \in D : h < scan /\ h # scan
    BY <1>6, <1>10
  <2>8. SamePlaces(mem, n, b, D)
    BY <1>8, <2>5, <2>6, <2>7 DEF SamePlaces
  <2>9. Puts(n, b, scan, live, live')
    BY <1>8, <1>10, <2>2, <2>5, <2>6 DEF Puts
  <2>10. Places(mem, b, D)
    BY <1>5, <1>7, <1>8, PlacesOf
  <2>11. Slides(n, b, D \cup {scan}, 0, live')
    BY <1>7, <1>10, <2>7, <2>8, <2>9, <2>10, SlidesGrow
  <2>12. {h \in M : h < scan'} = D \cup {scan}
    BY <1>10, <1>14, <2>2
  <2>13. live' <= scan'
    BY <1>7, <1>9, <1>10, <1>11, <2>2
  <2> QED
    BY <1>1, <1>2, <1>3, <1>4, <1>10, <2>2, <2>3, <2>4, <2>11, <2>12, <2>13, ComputingStep
<1> QED
  BY <1>13, <1>14

-----------------------------------------------------------------------------
(***************************************************************************)
(* Growing                                                                 *)
(***************************************************************************)

(* The larger of two numbers.                                              *)
LEMMA LargerFacts ==
  ASSUME NEW x \in Nat, NEW y \in Nat
  PROVE  Larger(x, y) \in Nat /\ x <= Larger(x, y) /\ y <= Larger(x, y)
  BY DEF Larger

(* What was asked for has a size.                                          *)
LEMMA RequestNat ==
  ASSUME StacksOK, phase # "run"
  PROVE  RequestSize \in Nat
<1>1. PICK t, l : t = request.type /\ l = request.len
  OBVIOUS
<1>2. t \in Types /\ l \in Nat /\ (t = "closure" => l > 0)
  BY <1>1 DEF StacksOK, RequestOK
<1>3. RawSize(t, l) \in Nat /\ FieldCount(t, l) \in Nat /\ Size(t, l) = 2 + RawSize(t, l) + FieldCount(t, l)
  BY <1>2, SizeFacts
<1>4. Size(t, l) \in Nat
  BY <1>3
<1> QED
  BY <1>1, <1>4 DEF RequestSize

Grown(m, n, size, large) ==
  n = [o \in 0 .. large - 1 |-> IF o < size THEN m[o] ELSE Ptr(0)]

(* More words behind those there are.                                      *)
LEMMA Extended ==
  ASSUME NEW m, NEW n, NEW O, NEW from, NEW to, Tiles(m, O, from, to),
         NEW size \in Nat, NEW large \in Nat, to <= size, size <= large, Memory(m, size),
         Grown(m, n, size, large)
  PROVE  /\ Kept(m, n, O) /\ Memory(n, large) /\ Tiles(n, O, from, to)
         /\ \A h \in O : n[h] = m[h] /\ n[h + 1] = m[h + 1]
<1>1. DOMAIN m = 0 .. size - 1 /\ \A o \in 0 .. size - 1 : m[o].kind \in Types \cup {"fwd", "int", "ptr"}
  BY DEF Memory
<1>2. DOMAIN n = 0 .. large - 1 /\ \A o \in 0 .. size - 1 : n[o] = m[o]
  BY DEF Grown
<1>3. Memory(n, large)
  <2>1. ASSUME NEW o \in 0 .. large - 1
        PROVE  n[o].kind \in Types \cup {"fwd", "int", "ptr"}
    <3>1. Ptr(0).kind = "ptr"
      BY DEF Ptr
    <3>2. CASE o < size
      <4>1. o \in 0 .. size - 1
        BY <3>2
      <4> QED
        BY <1>1, <1>2, <4>1
    <3>3. CASE ~(o < size)
      <4>1. n[o] = Ptr(0)
        BY <3>3 DEF Grown
      <4> QED
        BY <3>1, <4>1
    <3> QED
      BY <3>2, <3>3
  <2> QED
    BY <1>2, <2>1 DEF Memory
<1>4. SameWords(m, n, from, to)
  BY <1>1, <1>2 DEF SameWords
<1> QED
  BY <1>3, <1>4, WordsSame

(* Grow keeps the invariant: the objects are where they were in a heap     *)
(* that has room for the live ones and what was asked for.                 *)
LEMMA GrowStep ==
  ASSUME NEW O, MCInv, Computing(O), Grow
  PROVE  MCInv' /\ Updating(O)' /\ Kept(mem, mem', O) /\ SameAt(mem, mem', O)
<1>1. PICK large : large = Larger(NextHeapSize, heap.size)
  OBVIOUS
<1>2. /\ phase = "compute" /\ phase' = "update" /\ scan = heap.used
      /\ \E c \in (IF large = heap.size THEN {heap.begin} ELSE bound.bases) :
           heap' = [heap EXCEPT !.begin = c, !.size = large]
      /\ mem' = [o \in 0 .. large - 1 |-> IF o < heap.size THEN mem[o] ELSE Ptr(0)]
      /\ old' = [begin |-> heap.begin, used |-> heap.used] /\ scan' = 0
      /\ UNCHANGED <<bound, mutatorVars, markVars, live>>
  BY <1>1 DEF Grow
<1>3. HeapOK /\ CursorsOK /\ StacksOK
  BY DEF MCInv
<1>4. Computing(O)
  OBVIOUS
<1>5. PICK b, used, size, M, n, r : /\ b = heap.begin /\ used = heap.used /\ size = heap.size
                                    /\ M = Marked(mem, O) /\ n = mem' /\ r = RequestSize
  OBVIOUS
<1>6. b \in Nat /\ used \in Nat /\ size \in Nat /\ used <= size /\ Memory(mem, size)
  BY <1>3, <1>5, BoundNat DEF HeapOK
<1>7. /\ Tiles(mem, O, 0, used) /\ Cardinality(O) <= allocs
      /\ Enqueued(mem, O) = {} /\ Slides(mem, b, {h \in M : h < scan}, 0, live)
      /\ Closed(mem, b, stack, cells, M)
      /\ cells \in Seq(Refs(b, Shaped(mem, M, request)))
  BY <1>4, <1>5 DEF Computing, Walked
<1>8. M \subseteq O /\ \A h \in O : h \in Nat /\ h < used
  BY <1>5, <1>7, TilesFinite DEF Marked
<1>9. r \in Nat /\ live \in Nat
  BY <1>2, <1>3, <1>5, <1>7, RequestNat DEF Slides
<1>10. large \in Nat /\ size <= large /\ live + r <= large
  <2>1. PICK x : x = live * 2 + r
    OBVIOUS
  <2>2. x \in Nat /\ live + r <= x
    BY <1>9, <2>1
  <2>3. PICK y : y = Larger(x, MinimumCapacity)
    OBVIOUS
  <2>4. y \in Nat /\ x <= y
    BY <2>2, <2>3, LargerFacts DEF MinimumCapacity
  <2>5. large = Larger(y, size)
    BY <1>1, <1>5, <2>1, <2>3 DEF NextHeapSize
  <2>6. large \in Nat /\ y <= large /\ size <= large
    BY <1>6, <2>4, <2>5, LargerFacts
  <2> QED
    BY <1>9, <2>2, <2>4, <2>6
<1>11. PICK c : c \in Bases /\ heap' = [heap EXCEPT !.begin = c, !.size = large]
  <2>1. heap.begin \in Bases /\ bound.bases \subseteq Bases
    BY <1>3, CollectorAssumption DEF HeapOK, CollectorAssumption
  <2> QED
    BY <1>2, <2>1
<1>12. /\ heap'.begin = c /\ heap'.size = large /\ heap'.used = used
       /\ heap' \in [begin : Bases, size : Nat, used : Nat]
  <2>1. heap \in [begin : Bases, size : Nat, used : Nat]
    BY <1>3 DEF HeapOK
  <2> QED
    BY <1>5, <1>6, <1>10, <1>11, <2>1
<1>13. /\ Kept(mem, n, O) /\ Memory(n, large) /\ Tiles(n, O, 0, used)
       /\ \A h \in O : n[h] = mem[h] /\ n[h + 1] = mem[h + 1]
  <2>1. Grown(mem, n, size, large)
    BY <1>2, <1>5 DEF Grown
  <2> QED
    BY <1>6, <1>7, <1>10, <2>1, Extended
<1>14. Marked(n, O) = M /\ Enqueued(n, O) = {} /\ Shaped(n, M, request) = Shaped(mem, M, request)
  <2>1. Marked(n, O) = Marked(mem, O) /\ Enqueued(n, O) = Enqueued(mem, O)
    BY <1>13 DEF Marked, Enqueued
  <2> QED
    BY <1>5, <1>7, <1>8, <1>13, <2>1, ShapedKept
<1>15. /\ stack' = stack /\ cells' = cells /\ request' = request /\ allocs' = allocs
       /\ bound' = bound /\ live' = live /\ old'.begin = b /\ old'.used = used
  BY <1>2, <1>5 DEF mutatorVars
<1>16. FieldsIn(n, M, Refs(b, M)) /\ stack \in Seq(Refs(b, M))
  <2>1. PICK R : R = Refs(b, M)
    OBVIOUS
  <2>2. stack \in Seq(R) /\ FieldsIn(mem, M, R)
    BY <1>7, <2>1 DEF Closed
  <2>3. (\A h \in M : ObjectAt(mem, h)) /\ Kept(mem, n, M)
    BY <1>7, <1>8, <1>13 DEF Kept, Tiles
  <2>4. FieldsIn(n, M, R)
    BY <2>2, <2>3, FieldsKept
  <2> QED
    BY <2>1, <2>2, <2>4
<1>17. {h \in M : h < 0} = {} /\ {h \in M : h >= 0} = M /\ {h \in M : h < scan} = M
  BY <1>2, <1>5, <1>8
<1>18. Slides(n, b, M, 0, live)
  <2>1. \A h \in O : SizeAt(n, h) = SizeAt(mem, h) /\ Dest(n, b, h) = Dest(mem, b, h)
    BY <1>13 DEF SizeAt, Dest
  <2>2. SamePlaces(mem, n, b, M)
    BY <1>8, <2>1 DEF SamePlaces
  <2> QED
    BY <1>7, <1>17, <2>2, SlidesSame
<1>19. \A R : FieldsIn(n, {}, R)
  BY DEF FieldsIn
<1>20. Walked(O)'
  BY <1>5, <1>7, <1>12, <1>13, <1>15 DEF Walked
<1>21. Updating(O)'
  <2>1. RequestSize' = r
    BY <1>5, <1>15 DEF RequestSize
  <2>2. /\ stack' \in Seq(Refs(old'.begin, Marked(mem', O)))
        /\ cells' \in Seq(Refs(old'.begin, Shaped(mem', Marked(mem', O), request')))
    BY <1>5, <1>7, <1>14, <1>15, <1>16
  <2>3. FieldsIn(mem', {h \in Marked(mem', O) : h < scan'},
                 Refs(heap'.begin, Dests(mem', old'.begin, Marked(mem', O))))
    BY <1>2, <1>5, <1>14, <1>17, <1>19
  <2>4. FieldsIn(mem', {h \in Marked(mem', O) : h >= scan'}, Refs(old'.begin, Marked(mem', O)))
    BY <1>2, <1>5, <1>14, <1>15, <1>16, <1>17
  <2>5. /\ Slides(mem', old'.begin, Marked(mem', O), 0, live') /\ live' + RequestSize' <= heap'.size
        /\ Enqueued(mem', O) = {} /\ old'.begin \in Nat /\ old'.used = heap'.used
    BY <1>5, <1>6, <1>10, <1>12, <1>14, <1>15, <1>18, <2>1
  <2>6. scan' \in O \cup {heap'.used}
    BY <1>2, <1>7, <1>12 DEF Tiles
  <2> QED
    BY ONLY <1>20, <2>2, <2>3, <2>4, <2>5, <2>6 DEF Updating
<1>22. HeapOK'
  <2>1. bound' \in Bounds
    BY <1>3, <1>15 DEF HeapOK
  <2> QED
    BY <1>5, <1>6, <1>10, <1>12, <1>13, <2>1 DEF HeapOK
<1>23. StacksOK'
  BY <1>2, <1>3, StacksSame
<1>24. CursorsOK'
  <2>1. 0 \in 0 .. used /\ live \in 0 .. used
    BY <1>3, <1>5, <1>6 DEF CursorsOK
  <2> QED
    BY <1>2, <1>3, <1>5, <1>12, <1>15, <2>1 DEF CursorsOK, markVars
<1> QED
  BY <1>2, <1>5, <1>13, <1>21, <1>22, <1>23, <1>24 DEF MCInv, Phases, SameAt

-----------------------------------------------------------------------------
(***************************************************************************)
(* Updating references                                                     *)
(***************************************************************************)

(* What the invariant says while references are updated.                   *)
LEMMA UpdatingNow ==
  ASSUME MCInv, phase = "update"
  PROVE  HeapOK /\ CursorsOK /\ StacksOK /\ \E O : Updating(O)
  BY DEF MCInv, Phases

(* A word that leads to an object of C leads to its new place, fixed.      *)
LEMMA FixedRef ==
  ASSUME NEW O, NEW C, NEW b, NEW w, HeapOK, Tiles(mem, O, 0, heap.used),
         b \in Nat, old.begin = b, old.used = heap.used, C \subseteq O, w \in Refs(b, C)
  PROVE  /\ Fixed(w) \in Refs(heap.begin, Dests(mem, b, C))
         /\ Fixed(w).kind = w.kind /\ w.kind \in {"int", "ptr"}
<1>1. w.kind \in {"int", "ptr"} /\ w.v \in Int /\ (w.kind = "ptr" => w.v - b - 2 \in C)
  BY RefFacts
<1>2. CASE w.kind # "ptr"
  <2>1. Fixed(w) = w
    BY <1>2 DEF Fixed
  <2>2. w \in Refs(heap.begin, Dests(mem, b, C))
    BY <1>2, RefFacts
  <2> QED
    BY <1>1, <2>1, <2>2
<1>3. CASE w.kind = "ptr"
  <2>1. PICK h : h = w.v - b - 2
    OBVIOUS
  <2>2. h \in C /\ h \in O
    BY <1>1, <1>3, <2>1
  <2>3. h \in Nat /\ ObjectAt(mem, h) /\ NextObject(mem, h) <= heap.used /\ heap.used \in Nat
    BY <2>2 DEF Tiles
  <2>4. NextObject(mem, h) \in Nat /\ h + 2 <= NextObject(mem, h)
    BY <2>3, ObjectSize
  <2>5. b <= w.v /\ w.v <= b + heap.used
    BY <1>1, <2>1, <2>3, <2>4
  <2>6. Fixed(w) = Ptr(heap.begin + (mem[h + 1].v - b) + 2)
    BY <1>3, <2>1, <2>5 DEF Fixed, HeaderWords
  <2>7. PICK d, a : d = Dest(mem, b, h) /\ a = heap.begin + d + 2
    OBVIOUS
  <2>8. mem[h + 1].v \in Int /\ heap.begin \in Nat
    BY <2>3, BoundNat DEF ObjectAt, ForwardWords
  <2>9. d \in Int /\ a \in Int /\ a - heap.begin - 2 = d /\ d \in Dests(mem, b, C)
    BY <2>2, <2>7, <2>8 DEF Dest, Dests
  <2>10. Fixed(w) = Ptr(a)
    BY <2>6, <2>7 DEF Dest
  <2>11. Ptr(a) \in Refs(heap.begin, Dests(mem, b, C))
    BY <2>9, NewRefs
  <2> QED
    BY <1>3, <2>10, <2>11 DEF Ptr
<1> QED
  BY <1>2, <1>3

(* The content of an object are words, and no fields of another.           *)
LEMMA ContentApart ==
  ASSUME NEW m, NEW O, NEW from, NEW to, Tiles(m, O, from, to),
         NEW size \in Nat, to <= size, Memory(m, size),
         NEW h \in O, NEW o, o \in h + 2 .. NextObject(m, h) - 1
  PROVE  o \in DOMAIN m /\ \A g \in O : g # h => o \notin FieldsAt(m, g)
<1>1. ASSUME NEW g \in O
      PROVE  /\ g \in Nat /\ NextObject(m, g) \in Nat /\ g + 2 <= FirstField(m, g)
             /\ FirstField(m, g) \in Nat
             /\ \A k \in O : g < k => NextObject(m, g) <= k
  <2>1. g \in Nat /\ ObjectAt(m, g) /\ \A k \in O : g < k => NextObject(m, g) <= k
    BY DEF Tiles
  <2> QED
    BY <2>1, ObjectSize
<1>2. ASSUME NEW g \in O, o \in FieldsAt(m, g)
      PROVE  o \in Int /\ g + 2 <= o /\ o < NextObject(m, g)
  <2>1. o \in FirstField(m, g) .. NextObject(m, g) - 1
    BY <1>2 DEF FieldsAt
  <2> QED
    BY <1>1, <2>1
<1>3. o \in Int /\ h <= o /\ o < NextObject(m, h)
  BY <1>1
<1>4. o \in DOMAIN m
  BY <1>3, InHeap
<1>5. ASSUME NEW g \in O, g # h, o \in FieldsAt(m, g)
      PROVE  FALSE
  <2>1. CASE g < h
    BY <1>1, <1>2, <1>3, <1>5, <2>1
  <2>2. CASE h < g
    BY <1>1, <1>2, <1>3, <1>5, <2>2
  <2> QED
    BY <1>1, <1>5, <2>1, <2>2
<1> QED
  BY <1>4, <1>5

(* No word is a field of two objects, and every field is a word.           *)
LEMMA FieldsApart ==
  ASSUME NEW m, NEW O, NEW from, NEW to, Tiles(m, O, from, to),
         NEW size \in Nat, to <= size, Memory(m, size),
         NEW h \in O, NEW o, o \in FieldsAt(m, h)
  PROVE  o \in DOMAIN m /\ \A g \in O : g # h => o \notin FieldsAt(m, g)
<1>1. h \in Nat /\ ObjectAt(m, h)
  BY DEF Tiles
<1>2. FirstField(m, h) \in Nat /\ NextObject(m, h) \in Nat /\ h + 2 <= FirstField(m, h)
  BY <1>1, ObjectSize
<1>3. o \in FirstField(m, h) .. NextObject(m, h) - 1
  BY DEF FieldsAt
<1>4. o \in h + 2 .. NextObject(m, h) - 1
  BY <1>1, <1>2, <1>3
<1> QED
  BY <1>4, ContentApart

(* the fields of the object at s are brought up to date, all other content *)
(* is left                                                                 *)
FixedAt(m, n, O, s) ==
  /\ SameAt(m, n, O) /\ Kept(m, n, O \ {s}) /\ SameRaws(m, n, s)
  /\ \A o \in FieldsAt(m, s) : n[o] = Fixed(m[o])

(* UpdateObject keeps the invariant: the fields of one object more lead to *)
(* new places.                                                             *)
LEMMA UpdateObjectStep ==
  ASSUME NEW O, MCInv, Updating(O), UpdateObject
  PROVE  /\ MCInv' /\ Updating(O)'
         /\ IF scan \in Marked(mem, O) THEN FixedAt(mem, mem', O, scan) ELSE mem' = mem
<1>1. /\ phase = "update" /\ phase' = "update" /\ scan < heap.used
      /\ mem' = IF IsMarked(mem, Content(scan))
                  THEN [o \in DOMAIN mem |->
                          IF o \in FieldsAt(mem, scan) THEN Fixed(mem[o]) ELSE mem[o]]
                  ELSE mem
      /\ scan' = NextObject(mem, scan)
      /\ UNCHANGED <<bound, heap, mutatorVars, markVars, live, old>>
  BY DEF UpdateObject
<1>2. HeapOK /\ CursorsOK /\ StacksOK
  BY DEF MCInv
<1>3. Updating(O)
  OBVIOUS
<1>4. PICK b, c, used, size, M, n : /\ b = old.begin /\ c = heap.begin /\ used = heap.used
                                    /\ size = heap.size /\ M = Marked(mem, O) /\ n = mem'
  OBVIOUS
<1>5. c \in Nat /\ used \in Nat /\ size \in Nat /\ used <= size /\ Memory(mem, size)
  BY <1>2, <1>4, BoundNat DEF HeapOK
<1>6. PICK R, Q, A, B : /\ R = Refs(b, M) /\ Q = Refs(c, Dests(mem, b, M))
                        /\ A = {h \in M : h < scan} /\ B = {h \in M : h >= scan}
  OBVIOUS
<1>7. /\ Tiles(mem, O, 0, used) /\ Cardinality(O) <= allocs /\ Enqueued(mem, O) = {}
      /\ b \in Nat /\ old.used = used /\ scan \in O \cup {used}
      /\ stack \in Seq(R) /\ cells \in Seq(Refs(b, Shaped(mem, M, request)))
      /\ FieldsIn(mem, A, Q) /\ FieldsIn(mem, B, R)
      /\ Slides(mem, b, M, 0, live) /\ live + RequestSize <= size
  BY <1>3, <1>4, <1>6 DEF Updating, Walked
<1>8. scan \in O /\ M \subseteq O
  <2>1. scan # used
    BY <1>1, <1>4, <1>5
  <2> QED
    BY <1>4, <1>7, <2>1 DEF Marked
<1>9. PICK next : next = NextObject(mem, scan)
  OBVIOUS
<1>10. /\ next \in O \cup {used} /\ next \in Nat /\ scan < next /\ next <= used /\ scan \in Nat
       /\ {h \in M : h < next} = A \cup ({scan} \cap M)
       /\ {h \in M : h >= next} = B \ {scan}
  BY <1>6, <1>7, <1>8, <1>9, Passed
<1>11. IsMarked(mem, Content(scan)) <=> scan \in M
  BY <1>4, <1>5, <1>8, <1>10, MarkedHere
<1>12. /\ DOMAIN n = DOMAIN mem
       /\ \A o \in DOMAIN mem :
            n[o] = IF scan \in M /\ o \in FieldsAt(mem, scan) THEN Fixed(mem[o]) ELSE mem[o]
  BY <1>1, <1>4, <1>11
<1>13. /\ \A h \in O : n[h] = mem[h] /\ n[h + 1] = mem[h + 1]
       /\ \A h \in O : Alike(mem, n, h) /\ ObjectAt(mem, h)
       /\ Tiles(n, O, 0, used)
  <2>1. \A o \in DOMAIN mem : n[o] = mem[o] \/ \E g \in O : o \in FieldsAt(mem, g)
    BY <1>8, <1>12
  <2> QED
    BY <1>5, <1>7, <1>12, <2>1, FieldWrites
<1>14. ASSUME scan \in M, NEW o \in FieldsAt(mem, scan)
       PROVE  /\ o \in DOMAIN mem /\ n[o] = Fixed(mem[o]) /\ n[o] \in Q
              /\ n[o].kind \in {"int", "ptr"}
  <2>1. o \in DOMAIN mem
    BY <1>5, <1>7, <1>8, <1>14, FieldsApart
  <2>2. n[o] = Fixed(mem[o])
    BY <1>12, <1>14, <2>1
  <2>3. mem[o] \in R
    <3>1. scan \in B
      BY <1>6, <1>10, <1>14
    <3> QED
      BY <1>7, <1>14, <3>1 DEF FieldsIn
  <2>4. PICK w : w = mem[o]
    OBVIOUS
  <2>5. Fixed(w) \in Q /\ Fixed(w).kind = w.kind /\ w.kind \in {"int", "ptr"}
    BY <1>2, <1>4, <1>6, <1>7, <1>8, <2>3, <2>4, FixedRef
  <2> QED
    BY <2>1, <2>2, <2>4, <2>5
<1>15. ASSUME NEW h \in M, h # scan, NEW o \in FieldsAt(mem, h)
       PROVE  n[o] = mem[o]
  <2>1. o \in DOMAIN mem /\ o \notin FieldsAt(mem, scan)
    BY <1>5, <1>7, <1>8, <1>15, FieldsApart
  <2> QED
    BY <1>12, <2>1
<1>16. Memory(n, size)
  <2>1. DOMAIN mem = 0 .. size - 1 /\ \A o \in 0 .. size - 1 : mem[o].kind \in Types \cup {"fwd", "int", "ptr"}
    BY <1>5 DEF Memory
  <2>2. ASSUME NEW o \in 0 .. size - 1
        PROVE  n[o].kind \in Types \cup {"fwd", "int", "ptr"}
    <3>1. CASE scan \in M /\ o \in FieldsAt(mem, scan)
      BY <1>14, <3>1
    <3>2. CASE ~(scan \in M /\ o \in FieldsAt(mem, scan))
      BY <1>12, <2>1, <3>2
    <3> QED
      BY <3>1, <3>2
  <2> QED
    BY <1>12, <2>1, <2>2 DEF Memory
<1>17. /\ Marked(n, O) = M /\ Enqueued(n, O) = {} /\ Shaped(n, M, request) = Shaped(mem, M, request)
       /\ \A h \in O : FieldsAt(n, h) = FieldsAt(mem, h)
       /\ SamePlaces(mem, n, b, M)
  <2>1. Marked(n, O) = Marked(mem, O) /\ Enqueued(n, O) = Enqueued(mem, O)
    BY <1>13 DEF Marked, Enqueued
  <2>2. \A h \in O : SizeAt(n, h) = SizeAt(mem, h) /\ Dest(n, b, h) = Dest(mem, b, h)
    BY <1>13 DEF SizeAt, Dest
  <2>3. SamePlaces(mem, n, b, M)
    BY <1>8, <2>2 DEF SamePlaces
  <2>4. \A h \in O : FieldsAt(n, h) = FieldsAt(mem, h)
    BY <1>13, AlikeObject
  <2> QED
    BY <1>4, <1>7, <1>8, <1>13, <2>1, <2>3, <2>4, ShapedKept
<1>18. Slides(n, b, M, 0, live) /\ Dests(n, b, M) = Dests(mem, b, M)
  BY <1>7, <1>17, SlidesSame
<1>19. FieldsIn(n, {h \in M : h < next}, Q)
  <2>1. ASSUME NEW h \in A, NEW o \in FieldsAt(n, h)
        PROVE  n[o] \in Q
    <3>1. h \in M /\ h # scan /\ h \in O
      BY <1>6, <1>8, <1>10
    <3>2. o \in FieldsAt(mem, h)
      BY <1>17, <3>1
    <3> QED
      BY <1>7, <1>15, <3>1, <3>2 DEF FieldsIn
  <2>2. ASSUME NEW h \in {scan} \cap M, NEW o \in FieldsAt(n, h)
        PROVE  n[o] \in Q
    BY <1>8, <1>14, <1>17
  <2> QED
    BY <1>10, <2>1, <2>2 DEF FieldsIn
<1>20. FieldsIn(n, {h \in M : h >= next}, R)
  <2>1. ASSUME NEW h \in B \ {scan}, NEW o \in FieldsAt(n, h)
        PROVE  n[o] \in R
    <3>1. h \in M /\ h \in O
      BY <1>6, <1>8
    <3>2. o \in FieldsAt(mem, h)
      BY <1>17, <3>1
    <3> QED
      BY <1>7, <1>15, <3>1, <3>2 DEF FieldsIn
  <2> QED
    BY <1>10, <2>1 DEF FieldsIn
<1>21. /\ stack' = stack /\ cells' = cells /\ request' = request /\ allocs' = allocs
       /\ heap' = heap /\ bound' = bound /\ live' = live /\ old' = old /\ scan' = next
  BY <1>1, <1>9 DEF mutatorVars
<1>22. Walked(O)'
  BY <1>4, <1>7, <1>13, <1>21 DEF Walked
<1>23. Updating(O)'
  <2>1. RequestSize' = RequestSize
    BY <1>21 DEF RequestSize
  <2>2. /\ stack' \in Seq(Refs(old'.begin, Marked(mem', O)))
        /\ cells' \in Seq(Refs(old'.begin, Shaped(mem', Marked(mem', O), request')))
    BY <1>4, <1>6, <1>7, <1>17, <1>21
  <2>3. FieldsIn(mem', {h \in Marked(mem', O) : h < scan'},
                 Refs(heap'.begin, Dests(mem', old'.begin, Marked(mem', O))))
    BY <1>4, <1>6, <1>17, <1>18, <1>19, <1>21
  <2>4. FieldsIn(mem', {h \in Marked(mem', O) : h >= scan'}, Refs(old'.begin, Marked(mem', O)))
    BY <1>4, <1>6, <1>17, <1>20, <1>21
  <2>5. /\ Slides(mem', old'.begin, Marked(mem', O), 0, live') /\ live' + RequestSize' <= heap'.size
        /\ Enqueued(mem', O) = {} /\ old'.begin \in Nat /\ old'.used = heap'.used
    BY <1>4, <1>7, <1>17, <1>18, <1>21, <2>1
  <2>6. scan' \in O \cup {heap'.used}
    BY <1>4, <1>10, <1>21
  <2> QED
    BY ONLY <1>22, <2>2, <2>3, <2>4, <2>5, <2>6 DEF Updating
<1>24. HeapOK' /\ StacksOK'
  BY <1>1, <1>2, <1>4, <1>16, <1>21, StacksSame DEF HeapOK
<1>25. CursorsOK'
  <2>1. next \in 0 .. used
    BY <1>5, <1>10
  <2> QED
    BY <1>1, <1>2, <1>4, <1>21, <2>1 DEF CursorsOK, markVars
<1>26. ASSUME NEW h \in O, h # scan \/ scan \notin M, NEW o \in h + 2 .. NextObject(mem, h) - 1
       PROVE  n[o] = mem[o]
  <2>1. o \in DOMAIN mem /\ (h # scan => o \notin FieldsAt(mem, scan))
    BY <1>5, <1>7, <1>8, <1>26, ContentApart
  <2> QED
    BY <1>12, <1>26, <2>1
<1>27. ASSUME NEW h \in O
       PROVE  /\ h \in Nat /\ FirstField(mem, h) \in Nat /\ NextObject(mem, h) \in Nat
              /\ h + 2 <= FirstField(mem, h) /\ FirstField(mem, h) <= NextObject(mem, h)
  <2>1. h \in Nat /\ ObjectAt(mem, h)
    BY <1>7 DEF Tiles
  <2> QED
    BY <2>1, ObjectSize
<1>28. Kept(mem, n, O \ {scan})
  <2>1. ASSUME NEW h \in O \ {scan}
        PROVE  Alike(mem, n, h) /\ SameFields(mem, n, h) /\ SameRaws(mem, n, h)
    <3>1. /\ FieldsAt(mem, h) \subseteq h + 2 .. NextObject(mem, h) - 1
          /\ h + 2 .. FirstField(mem, h) - 1 \subseteq h + 2 .. NextObject(mem, h) - 1
      BY <1>27 DEF FieldsAt
    <3> QED
      BY <1>13, <1>26, <3>1 DEF SameFields, SameRaws
  <2> QED
    BY <2>1 DEF Kept
<1>29. SameRaws(mem, n, scan)
  <2>1. ASSUME NEW o \in scan + 2 .. FirstField(mem, scan) - 1
        PROVE  n[o] = mem[o]
    <3>1. o \in scan + 2 .. NextObject(mem, scan) - 1 /\ o \notin FieldsAt(mem, scan)
      BY <1>8, <1>27 DEF FieldsAt
    <3>2. o \in DOMAIN mem
      BY <1>5, <1>7, <1>8, <3>1, ContentApart
    <3> QED
      BY <1>12, <3>1, <3>2
  <2> QED
    BY <2>1 DEF SameRaws
<1>30. SameAt(mem, n, O)
  BY <1>13 DEF SameAt
<1>31. CASE scan \in M
  <2>1. FixedAt(mem, n, O, scan)
    BY <1>14, <1>28, <1>29, <1>30, <1>31 DEF FixedAt
  <2> QED
    BY <1>1, <1>4, <1>23, <1>24, <1>25, <1>31, <2>1 DEF MCInv, Phases
<1>32. CASE scan \notin M
  <2>1. mem' = mem
    BY <1>1, <1>11, <1>32
  <2> QED
    BY <1>1, <1>4, <1>23, <1>24, <1>25, <1>32, <2>1 DEF MCInv, Phases
<1> QED
  BY <1>31, <1>32

FixedAll(s, t) == t = [i \in DOMAIN s |-> Fixed(s[i])]

(* A sequence of references, all of them updated.                          *)
LEMMA FixedSeq ==
  ASSUME NEW O, NEW C, NEW b, NEW s, NEW t, HeapOK, Tiles(mem, O, 0, heap.used),
         b \in Nat, old.begin = b, old.used = heap.used, C \subseteq O,
         s \in Seq(Refs(b, C)), FixedAll(s, t)
  PROVE  /\ t \in Seq(Refs(heap.begin, Dests(mem, b, C))) /\ Len(t) = Len(s) /\ Len(s) \in Nat
         /\ \A i \in 1 .. Len(s) : t[i].kind = s[i].kind
<1>1. PICK k : k = Len(s)
  OBVIOUS
<1>2. PICK Q : Q = Refs(heap.begin, Dests(mem, b, C))
  OBVIOUS
<1>3. k \in Nat /\ DOMAIN s = 1 .. k /\ \A i \in 1 .. k : s[i] \in Refs(b, C)
  BY <1>1, LenProperties, ElementOfSeq
<1>4. t = [i \in 1 .. k |-> Fixed(s[i])]
  BY <1>3 DEF FixedAll
<1>5. \A i \in 1 .. k : t[i] \in Q /\ t[i].kind = s[i].kind
  <2>1. ASSUME NEW i \in 1 .. k
        PROVE  t[i] \in Q /\ t[i].kind = s[i].kind
    <3>1. PICK w : w = s[i]
      OBVIOUS
    <3>2. w \in Refs(b, C)
      BY <1>3, <3>1
    <3>3. Fixed(w) \in Q /\ Fixed(w).kind = w.kind
      BY <1>2, <3>2, FixedRef
    <3>4. t[i] = Fixed(w)
      BY <1>4, <3>1
    <3> QED
      BY <3>1, <3>3, <3>4
  <2> QED
    BY <2>1
<1>6. t = [i \in 1 .. k |-> t[i]]
  BY <1>4
<1>7. t \in Seq(Q) /\ Len(t) = k
  BY <1>3, <1>5, <1>6, SeqByPositions
<1> QED
  BY <1>1, <1>2, <1>3, <1>5, <1>7

(* UpdateRoots keeps the invariant: every root leads to a new place.       *)
LEMMA UpdateRootsStep ==
  ASSUME NEW O, MCInv, Updating(O), UpdateRoots
  PROVE  MCInv' /\ Relocating({}, O, 0)'
<1>1. /\ phase = "update" /\ phase' = "relocate" /\ scan = heap.used /\ scan' = 0
      /\ stack' = [i \in DOMAIN stack |-> Fixed(stack[i])]
      /\ cells' = [i \in DOMAIN cells |-> Fixed(cells[i])]
      /\ UNCHANGED <<bound, heap, mem, request, allocs, graph, markVars, live, old>>
  BY DEF UpdateRoots
<1>2. HeapOK /\ CursorsOK /\ StacksOK
  BY DEF MCInv
<1>3. Updating(O)
  OBVIOUS
<1>4. PICK b, c, used, M, s, e : /\ b = old.begin /\ c = heap.begin /\ used = heap.used
                                 /\ M = Marked(mem, O) /\ s = stack' /\ e = cells'
  OBVIOUS
<1>5. PICK S : S = Shaped(mem, M, request)
  OBVIOUS
<1>6. /\ Tiles(mem, O, 0, used) /\ Cardinality(O) <= allocs /\ Enqueued(mem, O) = {}
      /\ b \in Nat /\ old.used = used
      /\ stack \in Seq(Refs(b, M)) /\ cells \in Seq(Refs(b, S))
      /\ FieldsIn(mem, {h \in M : h < scan}, Refs(c, Dests(mem, b, M)))
      /\ Slides(mem, b, M, 0, live) /\ live + RequestSize <= heap.size
  BY <1>3, <1>4, <1>5 DEF Updating, Walked
<1>7. M \subseteq O /\ S \subseteq O /\ {h \in M : h < scan} = M
  <2>1. \A h \in O : h < used
    BY <1>6, TilesFinite
  <2> QED
    BY <1>1, <1>4, <1>5, <2>1 DEF Marked, Shaped
<1>8. /\ s \in Seq(Refs(c, Dests(mem, b, M))) /\ Len(s) = Len(stack) /\ Len(stack) \in Nat
  <2>1. FixedAll(stack, s)
    BY <1>1, <1>4 DEF FixedAll
  <2> QED
    BY <1>2, <1>4, <1>6, <1>7, <2>1, FixedSeq
<1>9. /\ e \in Seq(Refs(c, Dests(mem, b, S))) /\ Len(e) = Len(cells) /\ Len(cells) \in Nat
      /\ \A i \in 1 .. Len(cells) : e[i].kind = cells[i].kind
  <2>1. FixedAll(cells, e)
    BY <1>1, <1>4 DEF FixedAll
  <2> QED
    BY <1>2, <1>4, <1>6, <1>7, <2>1, FixedSeq
<1>10. Tiles(mem, {}, 0, 0)
  BY DEF Tiles
<1>11. Cardinality({}) + Cardinality(O) <= allocs
  <2>1. Cardinality({}) = 0 /\ Cardinality(O) \in Nat
    BY <1>6, TilesFinite, FS_EmptySet
  <2> QED
    BY <1>6, <2>1
<1>12. PICK all : all = {} \cup Dests(mem, b, M)
  OBVIOUS
<1>13. all = Dests(mem, b, M) /\ {} \cup M = M
  BY <1>12
<1>14. PICK own : own = Shaped(mem, {}, request) \cup Dests(mem, b, S)
  OBVIOUS
<1>15. own = Dests(mem, b, S)
  BY <1>14 DEF Shaped
<1>16. /\ heap' = heap /\ bound' = bound /\ mem' = mem /\ request' = request /\ allocs' = allocs
       /\ old' = old /\ live' = live
  BY <1>1
<1>17. Relocating({}, O, 0)'
  <2>1. RequestSize' = RequestSize
    BY <1>16 DEF RequestSize
  <2>2. /\ Tiles(mem', {}, 0, 0) /\ Tiles(mem', O, scan', heap'.used) /\ 0 <= scan'
        /\ Cardinality({}) + Cardinality(O) <= allocs' /\ old'.begin \in Nat
    BY <1>1, <1>4, <1>6, <1>10, <1>11, <1>16
  <2>3. Marked(mem', {}) = {} /\ Enqueued(mem', {}) = {} /\ Enqueued(mem', O) = {}
    BY <1>6, <1>16 DEF Marked, Enqueued
  <2>4. /\ stack' \in Seq(Refs(heap'.begin, {} \cup Dests(mem', old'.begin, Marked(mem', O))))
        /\ FieldsIn(mem', {} \cup Marked(mem', O),
                    Refs(heap'.begin, {} \cup Dests(mem', old'.begin, Marked(mem', O))))
    BY <1>4, <1>6, <1>7, <1>8, <1>12, <1>13, <1>16
  <2>5. cells' \in Seq(Refs(heap'.begin, Shaped(mem', {}, request')
                              \cup Dests(mem', old'.begin, Shaped(mem', Marked(mem', O), request'))))
    BY <1>4, <1>5, <1>9, <1>14, <1>15, <1>16
  <2>6. /\ Slides(mem', old'.begin, Marked(mem', O), 0, live')
        /\ live' + RequestSize' <= heap'.size
    BY <1>4, <1>6, <1>16, <2>1
  <2> QED
    BY ONLY <2>2, <2>3, <2>4, <2>5, <2>6 DEF Relocating
<1>18. HeapOK'
  BY <1>2, <1>16 DEF HeapOK
<1>19. CursorsOK'
  <2>1. 0 \in 0 .. used
    BY <1>2, <1>4, BoundNat
  <2> QED
    BY <1>1, <1>2, <1>4, <1>8, <1>9, <1>16, <2>1 DEF CursorsOK, markVars
<1>20. StacksOK'
  <2>1. cells = << >> <=> e = << >>
    <3>1. \A z : z \in Seq(Refs(c, Dests(mem, b, S))) \/ z \in Seq(Refs(b, S)) =>
             (z = << >> <=> Len(z) = 0)
      BY EmptySeq
    <3> QED
      BY <1>6, <1>9, <3>1
  <2>2. Popped' = Popped
    BY <1>4, <1>16, <2>1 DEF Popped
  <2>3. RequestOK'
    BY <1>1, <1>2, <1>4, <1>8, <1>16, <2>2 DEF StacksOK, RequestOK
  <2> QED
    BY <1>1, <1>2, <1>4, <1>8, <1>9, <1>16, <2>3 DEF StacksOK
<1> QED
  BY <1>1, <1>17, <1>18, <1>19, <1>20 DEF MCInv, Phases

-----------------------------------------------------------------------------
(***************************************************************************)
(* Sliding                                                                 *)
(***************************************************************************)

(* unmark_object keeps the address and the enqueued flag.                  *)
LEMMA ForwardUnmarked ==
  ASSUME NEW w \in ForwardWords, NEW u, u = [w EXCEPT !.marked = FALSE]
  PROVE  u \in ForwardWords /\ u.v = w.v /\ ~u.marked /\ (u.enqueued <=> w.enqueued)
  BY DEF ForwardWords

(* The first object is taken away.                                         *)
LEMMA TilesRest ==
  ASSUME NEW m, NEW O, NEW from, NEW to, Tiles(m, O, from, to), from \in O
  PROVE  /\ Tiles(m, O \ {from}, NextObject(m, from), to)
         /\ \A h \in O : h # from => from < h /\ NextObject(m, from) <= h
<1>1. PICK e : e = NextObject(m, from)
  OBVIOUS
<1>2. /\ from \in Nat /\ to \in Nat
      /\ \A h \in O : /\ h \in Nat /\ from <= h /\ ObjectAt(m, h)
                      /\ NextObject(m, h) <= to /\ NextObject(m, h) \in O \cup {to}
      /\ \A g, h \in O : g < h => NextObject(m, g) <= h
      /\ \A h \in O \cup {to} : h = from \/ \E g \in O : h = NextObject(m, g)
  BY DEF Tiles
<1>3. \A h \in O : NextObject(m, h) \in Nat /\ h < NextObject(m, h)
  BY <1>2, ObjectSize
<1>4. e \in Nat /\ from < e /\ e <= to /\ e \in O \cup {to} /\ e # from
  BY <1>1, <1>2, <1>3
<1>5. \A h \in O : h # from => from < h /\ e <= h
  BY <1>1, <1>2
<1>6. PICK R : R = O \ {from}
  OBVIOUS
<1>7. e \in R \cup {to}
  BY <1>4, <1>6
<1>8. \A h \in R : /\ h \in Nat /\ e <= h /\ ObjectAt(m, h)
                   /\ NextObject(m, h) <= to /\ NextObject(m, h) \in R \cup {to}
  <2>1. \A h \in R : NextObject(m, h) # from
    BY <1>2, <1>3, <1>6
  <2> QED
    BY <1>2, <1>5, <1>6, <2>1
<1>9. \A g, h \in R : g < h => NextObject(m, g) <= h
  BY <1>2, <1>6
<1>10. \A h \in R \cup {to} : h = e \/ \E g \in R : h = NextObject(m, g)
  <2>1. ASSUME NEW h \in R \cup {to}
        PROVE  h = e \/ \E g \in R : h = NextObject(m, g)
    <3>1. h # from /\ h \in O \cup {to}
      BY <1>2, <1>4, <1>6
    <3>2. PICK g \in O : h = NextObject(m, g)
      BY <1>2, <3>1
    <3> QED
      BY <1>1, <1>6, <3>2
  <2> QED
    BY <2>1
<1>11. Tiles(m, R, e, to)
  BY <1>2, <1>4, <1>7, <1>8, <1>9, <1>10 DEF Tiles
<1> QED
  BY <1>1, <1>5, <1>6, <1>11

(* An object of z words at s is copied to where t is, and is unmarked.     *)
Moves(m, n, t, s, z) ==
  /\ DOMAIN n = DOMAIN m
  /\ n[t] = m[s]
  /\ n[t + 1] \in ForwardWords /\ ~n[t + 1].marked /\ (n[t + 1].enqueued <=> m[s + 1].enqueued)
  /\ \A i \in 2 .. z - 1 : n[t + i] = m[s + i]
  /\ \A o \in DOMAIN m : o < t \/ o >= t + z => n[o] = m[o]

(* memmove and unmark_object: the words of the object, one by one, and all *)
(* others. The new place may overlap the old one.                          *)
LEMMA MovedEffect ==
  ASSUME NEW size, NEW s, NEW t, NEW z,
         s \in Nat, t \in Nat, z \in Nat, z >= 2, size \in Nat, t <= s, s + z <= size,
         Memory(mem, size), ObjectAt(mem, s), Dest(mem, old.begin, s) = t, SizeAt(mem, s) = z
  PROVE  Moves(mem, Moved(s), t, s, z) /\ Memory(Moved(s), size)
<1>1. DOMAIN mem = 0 .. size - 1 /\ \A o \in 0 .. size - 1 : mem[o].kind \in Types \cup {"fwd", "int", "ptr"}
  BY DEF Memory
<1>2. PICK c : c = [o \in DOMAIN mem |-> IF o \in t .. t + z - 1 THEN mem[o - t + s] ELSE mem[o]]
  OBVIOUS
<1>3. PICK n : n = [c EXCEPT ![t + 1].marked = FALSE]
  OBVIOUS
<1>4. Moved(s) = n
  BY <1>2, <1>3 DEF Moved, Dest
<1>5. /\ DOMAIN c = DOMAIN mem
      /\ \A i \in 0 .. z - 1 : t + i \in DOMAIN mem /\ s + i \in DOMAIN mem /\ c[t + i] = mem[s + i]
      /\ \A o \in DOMAIN mem : o < t \/ o >= t + z => c[o] = mem[o]
  <2>1. ASSUME NEW i \in 0 .. z - 1
        PROVE  t + i \in DOMAIN mem /\ s + i \in DOMAIN mem /\ c[t + i] = mem[s + i]
    <3>1. PICK o : o = t + i
      OBVIOUS
    <3>2. o \in 0 .. size - 1 /\ s + i \in 0 .. size - 1 /\ o \in t .. t + z - 1 /\ o - t + s = s + i
      BY <3>1
    <3>3. c[o] = mem[s + i]
      BY <1>1, <1>2, <3>2
    <3> QED
      BY <1>1, <3>1, <3>2, <3>3
  <2>2. DOMAIN c = DOMAIN mem
    BY <1>2
  <2>3. \A o \in DOMAIN mem : o < t \/ o >= t + z => c[o] = mem[o]
    BY <1>1, <1>2
  <2> QED
    BY <2>1, <2>2, <2>3
<1>6. PICK u : u = [c[t + 1] EXCEPT !.marked = FALSE]
  OBVIOUS
<1>7. t + 1 \in DOMAIN c /\ c[t + 1] = mem[s + 1] /\ mem[s + 1] \in ForwardWords
  <2>1. 1 \in 0 .. z - 1
    OBVIOUS
  <2> QED
    BY <1>5, <2>1 DEF ObjectAt
<1>8. u \in ForwardWords /\ ~u.marked /\ (u.enqueued <=> mem[s + 1].enqueued)
  BY <1>6, <1>7, ForwardUnmarked
<1>9. n = [c EXCEPT ![t + 1] = u]
  BY <1>3, <1>6
<1>10. DOMAIN n = DOMAIN mem /\ n[t + 1] = u /\ \A o \in DOMAIN mem : o # t + 1 => n[o] = c[o]
  BY <1>5, <1>7, <1>9
<1>11. n[t] = mem[s]
  <2>1. 0 \in 0 .. z - 1 /\ t + 0 = t /\ s + 0 = s /\ t # t + 1
    OBVIOUS
  <2>2. t \in DOMAIN mem /\ c[t] = mem[s]
    BY <1>5, <2>1
  <2> QED
    BY <1>10, <2>1, <2>2
<1>12. ASSUME NEW i \in 2 .. z - 1
       PROVE  n[t + i] = mem[s + i]
  <2>1. i \in 0 .. z - 1 /\ t + i # t + 1
    OBVIOUS
  <2> QED
    BY <1>5, <1>10, <2>1
<1>13. ASSUME NEW o \in DOMAIN mem, o < t \/ o >= t + z
       PROVE  n[o] = mem[o]
  <2>1. o # t + 1
    BY <1>1, <1>13
  <2> QED
    BY <1>5, <1>10, <1>13, <2>1
<1>14. Moves(mem, n, t, s, z)
  BY <1>8, <1>10, <1>11, <1>12, <1>13 DEF Moves
<1>15. Memory(n, size)
  <2>1. ASSUME NEW o \in 0 .. size - 1
        PROVE  n[o].kind \in Types \cup {"fwd", "int", "ptr"}
    <3>1. CASE o = t + 1
      BY <1>8, <1>10, <3>1 DEF ForwardWords
    <3>2. CASE o # t + 1 /\ o \in t .. t + z - 1
      <4>1. o - t + s \in 0 .. size - 1
        BY <3>2
      <4>2. n[o] = mem[o - t + s]
        BY <1>1, <1>2, <1>10, <3>2
      <4> QED
        BY <1>1, <4>1, <4>2
    <3>3. CASE o # t + 1 /\ o \notin t .. t + z - 1
      <4>1. n[o] = mem[o]
        BY <1>1, <1>2, <1>10, <3>3
      <4> QED
        BY <1>1, <4>1
    <3> QED
      BY <3>1, <3>2, <3>3
  <2> QED
    BY <1>1, <1>10, <2>1 DEF Memory
<1> QED
  BY <1>4, <1>14, <1>15

(* s is the first of D, E are the others                                   *)
Leads(D, s, E) == s \in D /\ E = D \ {s} /\ \A h \in E : s < h

Steps(m, s, from, next) == SizeAt(m, s) >= 2 /\ next = from + SizeAt(m, s)

(* The first of the objects that slide is gone.                            *)
LEMMA SlidesRest ==
  ASSUME NEW m, NEW b, NEW D, NEW E, NEW from, NEW to, NEW s, NEW e,
         Slides(m, b, D, from, to), Places(m, b, D), Leads(D, s, E), Steps(m, s, from, e)
  PROVE  Dest(m, b, s) = from /\ Slides(m, b, E, e, to)
<1>1. PICK X, Y, d, z : X = Dests(m, b, D) /\ Y = Dests(m, b, E) /\ d = Dest(m, b, s) /\ z = SizeAt(m, s)
  OBVIOUS
<1>s. s \in D /\ E = D \ {s} /\ (\A h \in E : s < h) /\ z >= 2 /\ e = from + z
  BY <1>1 DEF Leads, Steps
<1>2. /\ from \in Nat /\ to \in Nat /\ from <= to /\ (from = to \/ from \in X)
      /\ \A h \in D : /\ from <= Dest(m, b, h) /\ Dest(m, b, h) + SizeAt(m, h) <= to
                      /\ Dest(m, b, h) + SizeAt(m, h) \in X \cup {to}
      /\ \A g, h \in D : g < h => Dest(m, b, g) + SizeAt(m, g) <= Dest(m, b, h)
  BY <1>1 DEF Slides
<1>3. /\ z \in Nat /\ z >= 2 /\ d \in Int
      /\ \A h \in D : Dest(m, b, h) \in Int /\ SizeAt(m, h) \in Nat
      /\ \A h \in E : d + z <= Dest(m, b, h)
  BY <1>1, <1>2, <1>s DEF Places
<1>4. d = from
  <2>1. from # to /\ from <= d
    BY <1>1, <1>2, <1>3, <1>s
  <2>2. PICK g \in D : from = Dest(m, b, g)
    BY <1>1, <1>2, <2>1 DEF Dests
  <2>3. g = s
    BY <1>2, <1>3, <1>s, <2>1, <2>2
  <2> QED
    BY <1>1, <2>2, <2>3
<1>5. X = Y \cup {from}
  <2>1. D = E \cup {s}
    BY <1>s
  <2> QED
    BY <1>1, <1>4, <2>1 DEF Dests
<1>7. e \in Nat /\ from < e /\ e <= to /\ e \in X \cup {to}
  <2>1. d + z <= to /\ d + z \in X \cup {to}
    BY <1>1, <1>2, <1>s
  <2> QED
    BY <1>2, <1>3, <1>4, <1>s, <2>1
<1>8. e = to \/ e \in Y
  BY <1>5, <1>7
<1>9. ASSUME NEW h \in E
      PROVE  /\ e <= Dest(m, b, h) /\ Dest(m, b, h) + SizeAt(m, h) <= to
             /\ Dest(m, b, h) + SizeAt(m, h) \in Y \cup {to}
  <2>1. PICK k, y : k = Dest(m, b, h) /\ y = SizeAt(m, h)
    OBVIOUS
  <2>2. k \in Int /\ y \in Nat /\ e <= k /\ k + y <= to /\ k + y \in X \cup {to}
    BY <1>2, <1>3, <1>4, <1>s, <2>1
  <2>3. k + y # from
    BY <1>2, <1>7, <2>2
  <2> QED
    BY <1>5, <2>1, <2>2, <2>3
<1>10. Slides(m, b, E, e, to)
  <2>1. \A g, h \in E : g < h => Dest(m, b, g) + SizeAt(m, g) <= Dest(m, b, h)
    BY <1>2, <1>s
  <2> QED
    BY <1>1, <1>2, <1>7, <1>8, <1>9, <2>1 DEF Slides
<1> QED
  BY <1>1, <1>4, <1>10

(* The copy is an object like the original, unmarked, with its fields.     *)
LEMMA MovedObject ==
  ASSUME NEW m, NEW n, NEW s, NEW t, NEW z,
         s \in Nat, t \in Nat, Moves(m, n, t, s, z), ObjectAt(m, s), SizeAt(m, s) = z
  PROVE  /\ ObjectAt(n, t) /\ NextObject(n, t) = t + z /\ n[t] = m[s]
         /\ ~n[t + 1].marked /\ (n[t + 1].enqueued <=> m[s + 1].enqueued)
         /\ \A R : (\A o \in FieldsAt(m, s) : m[o] \in R) => \A o \in FieldsAt(n, t) : n[o] \in R
<1>1. /\ n[t] = m[s] /\ n[t + 1] \in ForwardWords
      /\ ~n[t + 1].marked /\ (n[t + 1].enqueued <=> m[s + 1].enqueued)
      /\ \A i \in 2 .. z - 1 : n[t + i] = m[s + i]
  BY DEF Moves
<1>2. ObjectAt(n, t)
  BY <1>1 DEF ObjectAt
<1>3. PICK raw : raw = RawSize(m[s].kind, m[s].v)
  OBVIOUS
<1>4. /\ z \in Nat /\ raw \in Nat /\ FirstField(m, s) = s + 2 + raw /\ NextObject(m, s) = s + z
  BY <1>3, ObjectSize
<1>5. SizeAt(n, t) = z /\ raw = RawSize(n[t].kind, n[t].v)
  BY <1>1, <1>3 DEF SizeAt
<1>6. FirstField(n, t) = t + 2 + raw /\ NextObject(n, t) = t + z
  BY <1>2, <1>5, ObjectSize
<1>7. ASSUME NEW R, \A o \in FieldsAt(m, s) : m[o] \in R, NEW o \in FieldsAt(n, t)
      PROVE  n[o] \in R
  <2>1. o \in t + 2 + raw .. t + z - 1
    BY <1>4, <1>6, <1>7 DEF FieldsAt
  <2>2. PICK i : i = o - t
    OBVIOUS
  <2>3. i \in 2 .. z - 1 /\ o = t + i /\ 2 + raw <= i
    BY <1>4, <2>1, <2>2
  <2>4. s + i \in s + 2 + raw .. s + z - 1
    BY <1>4, <2>3
  <2>5. s + i \in FieldsAt(m, s)
    BY <1>4, <2>4 DEF FieldsAt
  <2> QED
    BY <1>1, <1>7, <2>3, <2>5
<1> QED
  BY <1>1, <1>2, <1>6, <1>7

(* What the invariant says while objects slide.                            *)
LEMMA RelocatingNow ==
  ASSUME MCInv, phase = "relocate"
  PROVE  HeapOK /\ CursorsOK /\ StacksOK /\ \E P, O, to : Relocating(P, O, to)
  BY DEF MCInv, Phases

(* The invariant, from what it says of the objects that have moved and     *)
(* those that have not.                                                    *)
LEMMA RelocatingStep ==
  ASSUME HeapOK, CursorsOK, StacksOK, phase = "relocate", phase' = "relocate",
         UNCHANGED <<bound, heap, mutatorVars, markVars, live, old>>,
         Memory(mem', heap.size), scan' \in 0 .. heap.used,
         \E P, O, to : Relocating(P, O, to)'
  PROVE  MCInv'
<1>1. /\ stack' = stack /\ cells' = cells /\ request' = request /\ allocs' = allocs
      /\ heap' = heap /\ bound' = bound /\ live' = live
  BY DEF mutatorVars
<1>2. HeapOK' /\ StacksOK'
  BY <1>1, StacksSame DEF HeapOK
<1>3. CursorsOK'
  BY <1>1 DEF CursorsOK, markVars
<1> QED
  BY <1>2, <1>3 DEF MCInv, Phases

Lands(m, n, b, s, t) == Dest(m, b, s) = t /\ n[t] = m[s]

(* the offsets where objects will be in the end, those like r being `own'  *)
Reached(m, b, P, M, r, all, own) ==
  /\ all = P \cup Dests(m, b, M)
  /\ own = Shaped(m, P, r) \cup Dests(m, b, Shaped(m, M, r))

Shifts(P, Q, M, E, s, t) == s \in M /\ t \notin P /\ Q = P \cup {t} /\ E = M \ {s}

(* The objects that have moved and those that have not, when one moves.    *)
LEMMA PlacesKept ==
  ASSUME NEW m, NEW n, NEW b, NEW P, NEW Q, NEW M, NEW E, NEW s, NEW t, NEW r,
         NEW all, NEW own, Reached(m, b, P, M, r, all, own),
         Shifts(P, Q, M, E, s, t), SameAt(m, n, P), SameAt(m, n, E), Lands(m, n, b, s, t)
  PROVE  Reached(n, b, Q, E, r, all, own)
<1>1. /\ \A h \in P \cup E : n[h] = m[h] /\ n[h + 1] = m[h + 1]
      /\ Dest(m, b, s) = t /\ n[t] = m[s]
      /\ s \in M /\ t \notin P /\ Q = P \cup {t} /\ E = M \ {s}
  BY DEF SameAt, Lands, Shifts
<1>2. \A h \in E : Dest(n, b, h) = Dest(m, b, h)
  BY <1>1 DEF Dest
<1>3. Q \cup Dests(n, b, E) = P \cup Dests(m, b, M)
  BY <1>1, <1>2 DEF Dests
<1>4. PICK S : S = Shaped(m, M, r)
  OBVIOUS
<1>5. Shaped(n, E, r) = S \ {s} /\ S \subseteq M
  BY <1>1, <1>4 DEF Shaped
<1>6. Shaped(n, Q, r) = Shaped(m, P, r) \cup (IF s \in S THEN {t} ELSE {})
  BY <1>1, <1>4 DEF Shaped
<1>7. Dests(m, b, S) = Dests(n, b, S \ {s}) \cup (IF s \in S THEN {t} ELSE {})
  BY <1>1, <1>2, <1>5 DEF Dests
<1> QED
  BY <1>3, <1>4, <1>5, <1>6, <1>7 DEF Reached

(* the object at s has moved to t, those of P and O are as they were       *)
MovedTo(m, n, P, O, b, s, t) ==
  /\ Kept(m, n, P) /\ SameAt(m, n, P) /\ Kept(m, n, O \ {s}) /\ SameAt(m, n, O \ {s})
  /\ Dest(m, b, s) = t /\ Moves(m, n, t, s, SizeAt(m, s))

(* Relocate keeps the invariant: no object that is still to move is        *)
(* overwritten.                                                            *)
LEMMA RelocateStep ==
  ASSUME NEW P, NEW O, NEW to, MCInv, Relocating(P, O, to), Relocate
  PROVE  /\ MCInv'
         /\ IF scan \in Marked(mem, O)
              THEN /\ \E s, next : /\ s = scan /\ next = to + SizeAt(mem, s)
                                   /\ Relocating(P \cup {to}, O \ {s}, next)'
                   /\ MovedTo(mem, mem', P, O, old.begin, scan, to)
              ELSE mem' = mem /\ \E s : s = scan /\ Relocating(P, O \ {s}, to)'
<1>1. /\ phase = "relocate" /\ phase' = "relocate" /\ scan < heap.used
      /\ mem' = IF IsMarked(mem, Content(scan)) THEN Moved(scan) ELSE mem
      /\ scan' = NextObject(mem, scan)
      /\ UNCHANGED <<bound, heap, mutatorVars, markVars, live, old>>
  BY DEF Relocate
<1>2. HeapOK /\ CursorsOK /\ StacksOK
  BY DEF MCInv
<1>3. Relocating(P, O, to)
  OBVIOUS
<1>4. PICK b, c, used, size, M, n : /\ b = old.begin /\ c = heap.begin /\ used = heap.used
                                    /\ size = heap.size /\ M = Marked(mem, O) /\ n = mem'
  OBVIOUS
<1>5. c \in Nat /\ used \in Nat /\ size \in Nat /\ used <= size /\ Memory(mem, size)
  BY <1>2, <1>4, BoundNat DEF HeapOK
<1>6. PICK all, own, S : /\ all = P \cup Dests(mem, b, M) /\ S = Shaped(mem, M, request)
                         /\ own = Shaped(mem, P, request) \cup Dests(mem, b, S)
  OBVIOUS
<1>7. /\ Tiles(mem, P, 0, to) /\ Tiles(mem, O, scan, used) /\ to <= scan
      /\ Cardinality(P) + Cardinality(O) <= allocs
      /\ Marked(mem, P) = {} /\ Enqueued(mem, P) = {} /\ Enqueued(mem, O) = {}
      /\ b \in Nat /\ stack \in Seq(Refs(c, all)) /\ cells \in Seq(Refs(c, own))
      /\ FieldsIn(mem, P \cup M, Refs(c, all))
      /\ Slides(mem, b, M, to, live) /\ live + RequestSize <= size
  BY <1>3, <1>4, <1>6 DEF Relocating
<1>8. scan \in O /\ M \subseteq O /\ scan \in Nat /\ to \in Nat
  <2>1. scan # used
    BY <1>1, <1>4, <1>5
  <2> QED
    BY <1>4, <1>7, <2>1 DEF Marked, Tiles
<1>9. PICK next, rest : next = NextObject(mem, scan) /\ rest = O \ {scan}
  OBVIOUS
<1>10. /\ next \in O \cup {used} /\ next \in Nat /\ scan < next /\ next <= used
       /\ next = scan + SizeAt(mem, scan) /\ SizeAt(mem, scan) \in Nat
  BY <1>7, <1>8, <1>9, Passed
<1>11. /\ Tiles(mem, rest, next, used)
       /\ \A h \in O : h # scan => scan < h /\ next <= h
  BY <1>7, <1>8, <1>9, TilesRest
<1>12. /\ Cardinality(P) \in Nat /\ Cardinality(O) \in Nat /\ allocs \in Nat
       /\ Cardinality(rest) = Cardinality(O) - 1 /\ IsFiniteSet(P) /\ to \notin P
       /\ \A h \in P : h \in Nat /\ h < to
  <2>1. IsFiniteSet(O) /\ Cardinality(O) \in Nat
    BY <1>7, TilesFinite
  <2>2. Cardinality(rest) = Cardinality(O) - 1
    BY <1>8, <1>9, <2>1, FS_RemoveElement
  <2>3. IsFiniteSet(P) /\ Cardinality(P) \in Nat /\ to \notin P /\ \A h \in P : h \in Nat /\ h < to
    BY <1>7, TilesFinite
  <2> QED
    BY <1>2, <2>1, <2>2, <2>3 DEF StacksOK
<1>13. IsMarked(mem, Content(scan)) <=> scan \in M
  BY <1>4, <1>5, <1>8, MarkedHere
<1>14. /\ stack' = stack /\ cells' = cells /\ request' = request /\ allocs' = allocs
       /\ heap' = heap /\ bound' = bound /\ live' = live /\ old' = old /\ scan' = next
       /\ RequestSize' = RequestSize
  BY <1>1, <1>9 DEF mutatorVars, RequestSize
<1>15. scan' \in 0 .. used
  BY <1>5, <1>10, <1>14
<1>16. CASE scan \notin M
  <2>1. n = mem
    BY <1>1, <1>4, <1>13, <1>16
  <2>2. Marked(mem, rest) = M /\ Enqueued(mem, rest) = {}
    BY <1>4, <1>7, <1>9, <1>16 DEF Marked, Enqueued
  <2>3. to <= next /\ Cardinality(P) + Cardinality(rest) <= allocs
    BY <1>7, <1>8, <1>10, <1>12
  <2>4. Relocating(P, rest, to)'
    <3>1. /\ Tiles(mem', P, 0, to) /\ Tiles(mem', rest, scan', heap'.used) /\ to <= scan'
          /\ Cardinality(P) + Cardinality(rest) <= allocs'
          /\ Marked(mem', P) = {} /\ Enqueued(mem', P) = {} /\ Enqueued(mem', rest) = {}
          /\ old'.begin \in Nat
      BY <1>4, <1>7, <1>11, <1>14, <2>1, <2>2, <2>3
    <3>2. /\ stack' \in Seq(Refs(heap'.begin, P \cup Dests(mem', old'.begin, Marked(mem', rest))))
          /\ FieldsIn(mem', P \cup Marked(mem', rest),
                      Refs(heap'.begin, P \cup Dests(mem', old'.begin, Marked(mem', rest))))
      BY <1>4, <1>6, <1>7, <1>14, <2>1, <2>2
    <3>3. cells' \in Seq(Refs(heap'.begin, Shaped(mem', P, request')
                     \cup Dests(mem', old'.begin, Shaped(mem', Marked(mem', rest), request'))))
      BY <1>4, <1>6, <1>7, <1>14, <2>1, <2>2
    <3>4. /\ Slides(mem', old'.begin, Marked(mem', rest), to, live')
          /\ live' + RequestSize' <= heap'.size
      BY <1>4, <1>7, <1>14, <2>1, <2>2
    <3> QED
      BY ONLY <3>1, <3>2, <3>3, <3>4 DEF Relocating
  <2>5. Memory(mem', heap.size)
    BY <1>4, <1>5, <2>1
  <2>6. MCInv'
    BY <1>1, <1>2, <1>4, <1>15, <2>4, <2>5, RelocatingStep
  <2>7. PICK s : s = scan
    OBVIOUS
  <2>8. Relocating(P, O \ {s}, to)'
    BY <1>9, <2>4, <2>7
  <2> QED
    BY <1>4, <1>16, <2>1, <2>6, <2>7, <2>8
<1>17. CASE scan \in M
  <2>1. n = Moved(scan)
    BY <1>1, <1>4, <1>13, <1>17
  <2>2. PICK z, far : z = SizeAt(mem, scan) /\ far = to + z
    OBVIOUS
  <2>3. ObjectAt(mem, scan) /\ z \in Nat /\ z >= 2 /\ next = scan + z
    BY <1>7, <1>8, <1>10, <2>2, ObjectSize DEF Tiles
  <2>4. far \in Nat /\ far <= next /\ scan + z <= size /\ to < far /\ to <= scan
    <3>1. to <= scan /\ next <= used /\ used <= size /\ used \in Nat /\ size \in Nat
      BY <1>5, <1>7, <1>10
    <3> QED
      BY ONLY <3>1, <1>8, <1>10, <2>2, <2>3
  <2>5. PICK left : left = M \ {scan}
    OBVIOUS
  <2>6. /\ Dest(mem, b, scan) = to
        /\ Slides(mem, b, left, far, live)
    <3>1. Places(mem, b, M)
      <4>1. b \in Int
        BY <1>7
      <4> QED
        BY <1>7, <1>8, <4>1, PlacesOf
    <3>2. Leads(M, scan, left)
      BY <1>8, <1>11, <1>17, <2>5 DEF Leads
    <3>3. Steps(mem, scan, to, far)
      BY <2>2, <2>3 DEF Steps
    <3>4. Slides(mem, b, M, to, live)
      BY <1>7
    <3> QED
      BY ONLY <3>1, <3>2, <3>3, <3>4, SlidesRest
  <2>7. Moves(mem, n, to, scan, z) /\ Memory(n, size)
    <3>1. Dest(mem, old.begin, scan) = to /\ SizeAt(mem, scan) = z
      BY <1>4, <2>2, <2>6
    <3> QED
      BY <1>5, <1>7, <1>8, <2>1, <2>3, <2>4, <3>1, MovedEffect
  <2>8. /\ ObjectAt(n, to) /\ NextObject(n, to) = far /\ n[to] = mem[scan]
        /\ ~n[to + 1].marked /\ (n[to + 1].enqueued <=> mem[scan + 1].enqueued)
        /\ \A R : (\A o \in FieldsAt(mem, scan) : mem[o] \in R) => \A o \in FieldsAt(n, to) : n[o] \in R
    BY <1>8, <2>2, <2>3, <2>7, MovedObject
  <2>9. SameWords(mem, n, 0, to) /\ SameWords(mem, n, next, used)
    <3>1. DOMAIN mem = 0 .. size - 1 /\ \A o \in DOMAIN mem : o < to \/ o >= far => n[o] = mem[o]
      BY <1>5, <2>2, <2>7 DEF Moves, Memory
    <3>2. \A o \in DOMAIN mem : next <= o => o >= far
      BY <1>10, <2>4, <3>1
    <3> QED
      BY <3>1, <3>2 DEF SameWords
  <2>10. /\ Kept(mem, n, P) /\ Tiles(n, P, 0, to)
         /\ \A h \in P : n[h] = mem[h] /\ n[h + 1] = mem[h + 1]
    <3>1. to <= size
      BY <1>5, <1>8, <1>10, <2>4
    <3> QED
      BY <1>5, <1>7, <2>9, <3>1, WordsSame
  <2>11. /\ Kept(mem, n, rest) /\ Tiles(n, rest, next, used)
         /\ \A h \in rest : n[h] = mem[h] /\ n[h + 1] = mem[h + 1]
    <3>1. Tiles(mem, rest, next, used) /\ SameWords(mem, n, next, used)
      BY <1>11, <2>9
    <3>2. size \in Nat /\ used <= size /\ Memory(mem, size)
      BY <1>5
    <3> QED
      BY ONLY <3>1, <3>2, WordsSame
  <2>12. left \subseteq rest /\ left \subseteq M
    BY <1>8, <1>9, <2>5
  <2>13. PICK moved : moved = P \cup {to}
    OBVIOUS
  <2>14. Tiles(n, moved, 0, far)
    <3>1. \A h \in P : Alike(mem, n, h)
      BY <2>10 DEF Kept
    <3> QED
      BY <1>7, <2>8, <2>13, <3>1, TilesExtended
  <2>15. Marked(n, rest) = left /\ Enqueued(n, rest) = {}
    BY <1>4, <1>7, <1>9, <2>5, <2>11 DEF Marked, Enqueued
  <2>16. Marked(n, moved) = {} /\ Enqueued(n, moved) = {}
    <3>1. ~mem[scan + 1].enqueued
      BY <1>7, <1>8 DEF Enqueued
    <3>2. \A h \in P : ~n[h + 1].marked /\ ~n[h + 1].enqueued
      BY <1>7, <2>10 DEF Marked, Enqueued
    <3> QED
      BY <2>8, <2>13, <3>1, <3>2 DEF Marked, Enqueued
  <2>17. Cardinality(moved) + Cardinality(rest) <= allocs
    <3>1. Cardinality(moved) = Cardinality(P) + 1
      BY <1>12, <2>13, FS_AddElement
    <3> QED
      BY <1>7, <1>12, <3>1
  <2>18. /\ moved \cup Dests(n, b, left) = all
         /\ Shaped(n, moved, request) \cup Dests(n, b, Shaped(n, left, request)) = own
    <3>1. SameAt(mem, n, P) /\ SameAt(mem, n, left)
      BY <2>10, <2>11, <2>12 DEF SameAt
    <3>2. Lands(mem, n, b, scan, to) /\ Shifts(P, moved, M, left, scan, to)
      BY <1>12, <1>17, <2>5, <2>6, <2>8, <2>13 DEF Lands, Shifts
    <3>3. Reached(mem, b, P, M, request, all, own)
      BY <1>6 DEF Reached
    <3>4. Reached(n, b, moved, left, request, all, own)
      BY ONLY <3>1, <3>2, <3>3, PlacesKept
    <3> QED
      BY <3>4 DEF Reached
  <2>19. FieldsIn(n, moved \cup left, Refs(c, all))
    <3>1. PICK R : R = Refs(c, all)
      OBVIOUS
    <3>2. \A h \in P \cup M : \A o \in FieldsAt(mem, h) : mem[o] \in R
      BY <1>7, <3>1 DEF FieldsIn
    <3>3. \A o \in FieldsAt(n, to) : n[o] \in R
      BY <1>17, <2>8, <3>2
    <3>4. ASSUME NEW h \in P \cup left
          PROVE  \A o \in FieldsAt(n, h) : n[o] \in R
      <4>1. ObjectAt(mem, h) /\ Alike(mem, n, h) /\ SameFields(mem, n, h)
        BY <1>7, <1>11, <2>10, <2>11, <2>12 DEF Kept, Tiles
      <4>2. FieldsAt(n, h) = FieldsAt(mem, h)
        BY <4>1, AlikeObject
      <4> QED
        BY <2>12, <3>2, <4>1, <4>2 DEF SameFields
    <3> QED
      BY <2>13, <3>1, <3>3, <3>4 DEF FieldsIn
  <2>20. Slides(n, b, left, far, live)
    <3>1. SamePlaces(mem, n, b, left)
      BY <2>11, <2>12 DEF SamePlaces, Dest, SizeAt
    <3> QED
      BY <2>6, <3>1, SlidesSame
  <2>21. Relocating(moved, rest, far)'
    <3>1. /\ Tiles(mem', moved, 0, far) /\ Tiles(mem', rest, scan', heap'.used) /\ far <= scan'
          /\ Cardinality(moved) + Cardinality(rest) <= allocs'
          /\ Marked(mem', moved) = {} /\ Enqueued(mem', moved) = {} /\ Enqueued(mem', rest) = {}
          /\ old'.begin \in Nat
      BY <1>4, <1>7, <1>14, <2>4, <2>11, <2>14, <2>15, <2>16, <2>17
    <3>2. /\ stack' \in Seq(Refs(heap'.begin, moved \cup Dests(mem', old'.begin, Marked(mem', rest))))
          /\ FieldsIn(mem', moved \cup Marked(mem', rest),
                      Refs(heap'.begin, moved \cup Dests(mem', old'.begin, Marked(mem', rest))))
      BY <1>4, <1>7, <1>14, <2>15, <2>18, <2>19
    <3>3. cells' \in Seq(Refs(heap'.begin, Shaped(mem', moved, request')
                     \cup Dests(mem', old'.begin, Shaped(mem', Marked(mem', rest), request'))))
      BY <1>4, <1>7, <1>14, <2>15, <2>18
    <3>4. /\ Slides(mem', old'.begin, Marked(mem', rest), far, live')
          /\ live' + RequestSize' <= heap'.size
      BY <1>4, <1>7, <1>14, <2>15, <2>20
    <3> QED
      BY ONLY <3>1, <3>2, <3>3, <3>4 DEF Relocating
  <2>22. Memory(mem', heap.size)
    BY <1>4, <2>7
  <2>23. MCInv'
    BY <1>1, <1>2, <1>4, <1>15, <2>21, <2>22, RelocatingStep
  <2>24. MovedTo(mem, n, P, O, b, scan, to)
    BY <1>9, <2>2, <2>6, <2>7, <2>10, <2>11 DEF MovedTo, SameAt
  <2>25. PICK s : s = scan
    OBVIOUS
  <2>26. Relocating(P \cup {to}, O \ {s}, far)'
    BY <1>9, <2>13, <2>21, <2>25
  <2> QED
    BY <1>4, <1>17, <2>2, <2>23, <2>24, <2>25, <2>26
<1> QED
  BY <1>16, <1>17

(* RelocateDone keeps the invariant: the objects that moved are the heap.  *)
LEMMA RelocateDoneStep ==
  ASSUME NEW P, NEW O, NEW to, MCInv, Relocating(P, O, to), RelocateDone
  PROVE  MCInv' /\ Quiet(P)' /\ O = {}
<1>1. /\ phase = "relocate" /\ phase' = "retry" /\ scan = heap.used
      /\ heap' = [heap EXCEPT !.used = live]
      /\ scan' = 0 /\ live' = 0 /\ root' = 0
      /\ qhead' = 0 /\ qtail' = 0 /\ field' = 0 /\ fieldEnd' = 0
      /\ UNCHANGED <<bound, mem, mutatorVars>>
  BY DEF RelocateDone
<1>2. HeapOK /\ CursorsOK /\ StacksOK
  BY DEF MCInv
<1>3. Relocating(P, O, to)
  OBVIOUS
<1>4. PICK b, c, used, size, M : /\ b = old.begin /\ c = heap.begin /\ used = heap.used
                                 /\ size = heap.size /\ M = Marked(mem, O)
  OBVIOUS
<1>5. c \in Nat /\ used \in Nat /\ size \in Nat /\ used <= size /\ Memory(mem, size)
  BY <1>2, <1>4, BoundNat DEF HeapOK
<1>6. /\ Tiles(mem, P, 0, to) /\ Tiles(mem, O, used, used)
      /\ Cardinality(P) + Cardinality(O) <= allocs
      /\ Marked(mem, P) = {} /\ Enqueued(mem, P) = {}
      /\ stack \in Seq(Refs(c, P \cup Dests(mem, b, M)))
      /\ cells \in Seq(Refs(c, Shaped(mem, P, request) \cup Dests(mem, b, Shaped(mem, M, request))))
      /\ FieldsIn(mem, P \cup M, Refs(c, P \cup Dests(mem, b, M)))
      /\ Slides(mem, b, M, to, live) /\ live + RequestSize <= size
  BY <1>1, <1>3, <1>4 DEF Relocating
<1>7. O = {}
  <2>1. O \subseteq used .. used - 1
    BY <1>6, TilesFinite
  <2> QED
    BY <1>5, <2>1
<1>8. M = {} /\ Dests(mem, b, M) = {} /\ Dests(mem, b, Shaped(mem, M, request)) = {}
  <2>1. M = {}
    BY <1>4, <1>7 DEF Marked
  <2> QED
    BY <2>1 DEF Dests, Shaped
<1>9. live = to /\ live \in Nat
  BY <1>6, <1>8 DEF Slides
<1>10. /\ stack \in Seq(Refs(c, P)) /\ cells \in Seq(Refs(c, Shaped(mem, P, request)))
       /\ FieldsIn(mem, P, Refs(c, P))
  <2>1. P \cup {} = P /\ Shaped(mem, P, request) \cup {} = Shaped(mem, P, request)
    OBVIOUS
  <2> QED
    BY <1>6, <1>8, <2>1
<1>11. /\ heap' = [heap EXCEPT !.used = live] /\ heap'.begin = c /\ heap'.used = to /\ heap'.size = size
       /\ heap' \in [begin : Bases, size : Nat, used : Nat]
  <2>1. heap \in [begin : Bases, size : Nat, used : Nat]
    BY <1>2 DEF HeapOK
  <2> QED
    BY <1>1, <1>4, <1>9, <2>1
<1>12. /\ stack' = stack /\ cells' = cells /\ request' = request /\ allocs' = allocs
       /\ bound' = bound /\ mem' = mem /\ RequestSize' = RequestSize
  BY <1>1 DEF mutatorVars, RequestSize
<1>13. Cardinality(P) <= allocs
  <2>1. Cardinality(P) \in Nat /\ Cardinality(O) \in Nat /\ allocs \in Nat
    BY <1>2, <1>6, TilesFinite DEF StacksOK
  <2> QED
    BY <1>6, <2>1
<1>14. RequestSize \in Nat /\ live + RequestSize <= size /\ live <= size
  <2>1. RequestSize \in Nat
    BY <1>1, <1>2, RequestNat
  <2> QED
    BY <1>5, <1>6, <1>9, <2>1
<1>15. Quiet(P)'
  <2>1. Walked(P)'
    BY <1>6, <1>11, <1>12, <1>13 DEF Walked
  <2>2. /\ Marked(mem', P) = {} /\ Enqueued(mem', P) = {}
        /\ FieldsIn(mem', P, Refs(heap'.begin, P))
        /\ stack' \in Seq(Refs(heap'.begin, P))
        /\ cells' \in Seq(Refs(heap'.begin, Shaped(mem', P, request')))
    BY <1>6, <1>10, <1>11, <1>12
  <2>3. heap'.used + RequestSize' <= heap'.size
    BY <1>9, <1>11, <1>12, <1>14
  <2> QED
    BY <1>1, <2>1, <2>2, <2>3 DEF Quiet
<1>16. HeapOK' /\ StacksOK'
  <2>1. HeapOK'
    BY <1>2, <1>5, <1>9, <1>11, <1>12, <1>14 DEF HeapOK
  <2>2. StacksOK'
    BY <1>1, <1>2, StacksSame
  <2> QED
    BY <2>1, <2>2
<1>17. CursorsOK'
  <2>1. 0 \in 0 .. to /\ to \in Nat
    BY <1>9
  <2>2. stack \in Seq(Refs(c, P)) /\ cells \in Seq(Refs(c, Shaped(mem, P, request)))
    BY <1>10
  <2>3. Len(stack) \in Nat /\ Len(cells) \in Nat
    BY <2>2, LenProperties
  <2>4. 0 \in 0 .. Len(stack) + Len(cells)
    BY <2>3
  <2> QED
    BY <1>1, <1>11, <1>12, <2>1, <2>4 DEF CursorsOK
<1> QED
  BY <1>1, <1>7, <1>15, <1>16, <1>17 DEF MCInv, Phases

-----------------------------------------------------------------------------
(***************************************************************************)
(* The invariant holds                                                     *)
(***************************************************************************)

(* The process that exits leaves everything as it is.                      *)
LEMMA GrowFailsStep ==
  ASSUME MCInv, GrowFails
  PROVE  MCInv'
<1>1. /\ phase = "compute" /\ phase' = "exited" /\ UNCHANGED <<bound, heap, mem>>
      /\ UNCHANGED <<stack, cells, request, allocs, root, qhead, qtail, field, fieldEnd, scan, live>>
  BY DEF GrowFails, mutatorVars, collectorVars, markVars
<1>2. PICK O : Computing(O)
  BY <1>1, ComputingNow
<1>3. Computing(O)'
  BY <1>1, <1>2 DEF Computing, Walked
<1>4. HeapOK' /\ CursorsOK'
  BY <1>1 DEF MCInv, HeapOK, CursorsOK
<1>5. StacksOK'
  BY <1>1 DEF MCInv, StacksOK, RequestOK, Popped
<1> QED
  BY <1>1, <1>3, <1>4, <1>5 DEF MCInv, Phases

(* Initially the invariant holds: the heap is empty.                       *)
LEMMA MCInit ==
  ASSUME Init
  PROVE  MCInv
<1>1. /\ bound \in Bounds
      /\ heap = [begin |-> FirstBase, size |-> 4, used |-> 0]
      /\ mem = [o \in 0 .. 3 |-> Ptr(0)]
      /\ stack = << >> /\ cells = << >> /\ phase = "run" /\ request = NoRequest
      /\ root = 0 /\ qhead = 0 /\ qtail = 0 /\ field = 0 /\ fieldEnd = 0
      /\ scan = 0 /\ live = 0 /\ allocs = 0
  BY DEF Init, MinimumCapacity
<1>2. FirstBase \in Bases /\ MaxStack \in Nat
  BY CollectorAssumption DEF CollectorAssumption
<1>3. /\ heap.begin = FirstBase /\ heap.size = 4 /\ heap.used = 0
      /\ heap \in [begin : Bases, size : Nat, used : Nat]
  BY <1>1, <1>2
<1>4. HeapOK
  <2>1. DOMAIN mem = 0 .. 3 /\ \A o \in 0 .. 3 : mem[o].kind = "ptr"
    BY <1>1 DEF Ptr
  <2>2. Memory(mem, 4)
    BY <2>1 DEF Memory
  <2> QED
    BY <1>1, <1>3, <2>2 DEF HeapOK
<1>5. Len(stack) = 0 /\ Len(cells) = 0
  BY <1>1, EmptySeq
<1>6. CursorsOK
  BY <1>1, <1>3, <1>5 DEF CursorsOK
<1>7. StacksOK
  BY <1>1, <1>2, <1>5 DEF StacksOK
<1>8. Quiet({})
  <2>1. Tiles(mem, {}, 0, 0) /\ Marked(mem, {}) = {} /\ Enqueued(mem, {}) = {}
    BY DEF Tiles, Marked, Enqueued
  <2>2. Cardinality({}) = 0
    BY FS_EmptySet
  <2>3. Walked({})
    BY <1>1, <1>3, <2>1, <2>2 DEF Walked
  <2>4. \A S : << >> \in Seq(S)
    BY EmptySeq
  <2>5. FieldsIn(mem, {}, Refs(heap.begin, {}))
    BY DEF FieldsIn
  <2> QED
    BY <1>1, <2>1, <2>3, <2>4, <2>5 DEF Quiet
<1> QED
  BY <1>1, <1>4, <1>6, <1>7, <1>8 DEF MCInv, Phases

(* Every step keeps the invariant.                                         *)
LEMMA MCNext ==
  ASSUME MCInv, [Next]_vars
  PROVE  MCInv'
<1>1. CASE Mutate
  <2>1. phase = "run"
    BY <1>1 DEF Mutate, Const, Load, Drop, Elem, Assign, New, Clone, Ask
  <2>2. PICK O : Quiet(O)
    BY <2>1, QuietNow
  <2> QED
    BY <1>1, <2>2, ConstStep, LoadStep, DropStep, ElemStep, AssignStep, NewStep, CloneStep DEF Mutate
<1>2. CASE Allocate
  <2>1. PICK O : Quiet(O)
    BY <1>2, QuietNow DEF Allocate, AllocateObject
  <2> QED
    BY <1>2, <2>1, AllocateStep DEF Allocate
<1>3. CASE Collector
  <2>1. CASE Collect
    BY <2>1, QuietNow, CollectStep DEF Collect
  <2>2. CASE MarkRoot
    BY <2>2, MarkingNow, MarkRootStep DEF MarkRoot
  <2>3. CASE MarkStep
    BY <2>3, MarkingNow, MarkStepStep DEF MarkStep
  <2>4. CASE MarkField
    BY <2>4, MarkingNow, MarkFieldStep DEF MarkField
  <2>5. CASE MarkDone
    BY <2>5, MarkingNow, MarkDoneStep DEF MarkDone
  <2>6. CASE Compute
    BY <2>6, ComputingNow, ComputeStep DEF Compute
  <2>7. CASE Grow
    BY <2>7, ComputingNow, GrowStep DEF Grow
  <2>12. CASE GrowFails
    BY <2>12, GrowFailsStep
  <2>8. CASE UpdateObject
    BY <2>8, UpdatingNow, UpdateObjectStep DEF UpdateObject
  <2>9. CASE UpdateRoots
    BY <2>9, UpdatingNow, UpdateRootsStep DEF UpdateRoots
  <2>10. CASE Relocate
    BY <2>10, RelocatingNow, RelocateStep DEF Relocate
  <2>11. CASE RelocateDone
    BY <2>11, RelocatingNow, RelocateDoneStep DEF RelocateDone
  <2> QED
    BY <1>3, <2>1, <2>2, <2>3, <2>4, <2>5, <2>6, <2>7, <2>8, <2>9, <2>10, <2>11,
       <2>12 DEF Collector
<1>4. CASE UNCHANGED vars
  <2>1. /\ bound' = bound /\ heap' = heap /\ mem' = mem /\ phase' = phase /\ stack' = stack
        /\ cells' = cells /\ request' = request /\ allocs' = allocs
        /\ root' = root /\ qhead' = qhead /\ qtail' = qtail /\ field' = field
        /\ fieldEnd' = fieldEnd /\ scan' = scan /\ live' = live /\ old' = old
    BY <1>4 DEF vars, programVars, collectorVars, markVars
  <2>2. HeapOK' <=> HeapOK
    BY <2>1 DEF HeapOK
  <2>3. CursorsOK' <=> CursorsOK
    BY <2>1 DEF CursorsOK
  <2>4. StacksOK' <=> StacksOK
    BY <2>1 DEF StacksOK, RequestOK, Popped
  <2>5. Phases' <=> Phases
    <3>1. \A O : Quiet(O)' <=> Quiet(O)
      BY <2>1 DEF Quiet, Walked, RequestSize
    <3>2. \A O : Marking(O)' <=> Marking(O)
      BY <2>1 DEF Marking, Walked, Roots
    <3>3. \A O : Computing(O)' <=> Computing(O)
      BY <2>1 DEF Computing, Walked
    <3>4. \A O : Updating(O)' <=> Updating(O)
      BY <2>1 DEF Updating, Walked, RequestSize
    <3>5. \A P, O, to : Relocating(P, O, to)' <=> Relocating(P, O, to)
      BY <2>1 DEF Relocating, RequestSize
    <3> QED
      BY <2>1, <3>1, <3>2, <3>3, <3>4, <3>5 DEF Phases
  <2> QED
    BY <2>2, <2>3, <2>4, <2>5 DEF MCInv
<1> QED
  BY <1>1, <1>2, <1>3, <1>4 DEF Next

(* The invariant of heap and collector holds for every program, every      *)
(* bound on its stack, all sizes of objects and all places the heap may    *)
(* move to.                                                                *)
THEOREM CollectorInvariant == Spec => []MCInv
<1>1. Init => MCInv
  BY MCInit
<1>2. MCInv /\ [Next]_vars => MCInv'
  BY MCNext
<1> QED
  BY <1>1, <1>2, PTL DEF Spec

-----------------------------------------------------------------------------
(***************************************************************************)
(* Walking the heap                                                        *)
(***************************************************************************)

(* The headers a walk meets, as an iteration.                              *)
Walks(H, n, h) ==
  H = [k \in 0 .. n |->
         IF k = 0 THEN {h}
         ELSE UNION {{o} \cup (IF IsHeader(o) THEN {NextObject(mem, o)} ELSE {}) : o \in H[k - 1]}]

(* From the first object on, the headers met are those of the objects.     *)
LEMMA HeadersMet ==
  ASSUME NEW O, NEW from, Tiles(mem, O, from, heap.used), Cardinality(O) <= allocs,
         allocs \in Nat
  PROVE  /\ HeadersFrom(from) = O \cup {heap.used}
         /\ \A h \in O : IsHeader(h) /\ mem[h + 1].kind = "fwd" /\ h # heap.used
<1>1. PICK used, n : used = heap.used /\ n = allocs
  OBVIOUS
<1>n. n \in Nat
  BY <1>1
<1>t. /\ \A h \in O : NextObject(mem, h) <= used
      /\ \A h \in O \cup {used} : h = from \/ \E g \in O : h = NextObject(mem, g)
      /\ from \in O \cup {used}
  BY <1>1 DEF Tiles
<1>2. /\ used \in Nat /\ used \notin O /\ IsFiniteSet(O) /\ Cardinality(O) \in Nat
      /\ from \in O \cup {used}
      /\ \A h \in O : h \in Nat /\ ObjectAt(mem, h) /\ NextObject(mem, h) \in O \cup {used}
                      /\ NextObject(mem, h) <= used
      /\ \A h \in O \cup {used} : h = from \/ \E g \in O : h = NextObject(mem, g)
  BY <1>1, <1>t, TilesFinite
<1>3. \A h \in O : NextObject(mem, h) \in Nat /\ h + 2 <= NextObject(mem, h)
  BY <1>2, ObjectSize
<1>4. \A h \in O : IsHeader(h) /\ mem[h + 1].kind = "fwd"
  BY <1>1, <1>2, <1>3 DEF IsHeader, ObjectAt, ForwardWords
<1>5. ~IsHeader(used)
  BY <1>1, <1>2 DEF IsHeader
<1>6. PICK U : U = O \cup {used}
  OBVIOUS
<1>7. PICK F : F = [Z \in SUBSET U |->
                      UNION {{o} \cup (IF IsHeader(o) THEN {NextObject(mem, o)} ELSE {}) : o \in Z}]
  OBVIOUS
<1>8. \A Z \in SUBSET U :
         F[Z] = UNION {{o} \cup (IF IsHeader(o) THEN {NextObject(mem, o)} ELSE {}) : o \in Z}
  BY <1>7
<1>9. IsFiniteSet(U) /\ Cardinality(U) = Cardinality(O) + 1
  BY <1>2, <1>6, FS_AddElement
<1>10. WidensIn(F, U)
  <2>1. ASSUME NEW Z \in SUBSET U
        PROVE  F[Z] \in SUBSET U /\ Z \subseteq F[Z]
    <3>1. \A o \in Z : IsHeader(o) => NextObject(mem, o) \in U
      BY <1>2, <1>5, <1>6
    <3> QED
      BY <1>8, <3>1
  <2> QED
    BY <1>9, <2>1 DEF WidensIn
<1>11. PICK R : Iterates(R, n, {from}, F)
  BY <1>1, IteratesExists
<1>12. /\ \A k \in 0 .. n : {from} \subseteq R[k] /\ R[k] \subseteq U
       /\ F[R[n]] = R[n]
  <2>1. {from} \subseteq U /\ n \in Nat
    BY <1>1, <1>2, <1>6
  <2>2. Cardinality({from}) = 1
    BY FS_Singleton
  <2>3. Cardinality(U) <= Cardinality({from}) + n
    BY <1>1, <1>2, <1>9, <2>2
  <2>4. PICK A : A = {from}
    OBVIOUS
  <2>5. A \subseteq U /\ Iterates(R, n, A, F) /\ Cardinality(U) <= Cardinality(A) + n
    BY <1>11, <2>1, <2>3, <2>4
  <2>6. (\A k \in 0 .. n : A \subseteq R[k] /\ R[k] \subseteq U) /\ F[R[n]] = R[n]
    BY <1>10, <2>1, <2>5, IterationSettles
  <2> QED
    BY <2>4, <2>6
<1>13. R[0] = {from} /\ \A k \in 1 .. n : R[k] = F[R[k - 1]]
  <2>1. \A k \in 1 .. n : k \in 0 .. n /\ k # 0
    BY <1>n
  <2>2. 0 \in 0 .. n
    BY <1>n
  <2> QED
    BY <1>11, <2>1, <2>2 DEF Iterates
<1>14. Walks(R, n, from)
  <2>1. ASSUME NEW k \in 1 .. n
        PROVE  R[k] = UNION {{o} \cup (IF IsHeader(o) THEN {NextObject(mem, o)} ELSE {}) : o \in R[k - 1]}
    <3>1. k - 1 \in 0 .. n
      BY <1>1
    <3>2. R[k - 1] \in SUBSET U
      BY <1>12, <3>1
    <3> QED
      BY <1>8, <1>13, <3>2
  <2>2. R = [k \in 0 .. n |-> IF k = 0 THEN {from} ELSE F[R[k - 1]]]
    BY <1>11 DEF Iterates
  <2>3. ASSUME NEW k \in 0 .. n
        PROVE  R[k] = IF k = 0 THEN {from}
                      ELSE UNION {{o} \cup (IF IsHeader(o) THEN {NextObject(mem, o)} ELSE {}) : o \in R[k - 1]}
    <3>1. k = 0 \/ k \in 1 .. n
      BY <1>1
    <3> QED
      BY <1>13, <2>1, <3>1
  <2>4. R = [k \in 0 .. n |-> R[k]]
    BY <2>2
  <2> QED
    BY <2>3, <2>4 DEF Walks
<1>15. PICK H : HeadersFrom(from) = H[n] /\ Walks(H, n, from)
  <2>1. Walks(CHOOSE H : Walks(H, n, from), n, from)
    BY <1>14, Zenon
  <2>2. HeadersFrom(from) = (CHOOSE H : Walks(H, n, from))[n]
    BY <1>1, Zenon DEF HeadersFrom, Walks
  <2> QED
    BY <2>1, <2>2
<1>16. H[n] = R[n]
  <2>0. 0 \in 0 .. n /\ \A k \in 1 .. n : k \in 0 .. n /\ k # 0
    BY <1>n
  <2>1. /\ H[0] = {from}
        /\ \A k \in 1 .. n :
             H[k] = UNION {{o} \cup (IF IsHeader(o) THEN {NextObject(mem, o)} ELSE {}) : o \in H[k - 1]}
    BY <1>15, <2>0 DEF Walks
  <2>2. /\ R[0] = {from}
        /\ \A k \in 1 .. n :
             R[k] = UNION {{o} \cup (IF IsHeader(o) THEN {NextObject(mem, o)} ELSE {}) : o \in R[k - 1]}
    BY <1>14, <2>0 DEF Walks
  <2>3. \A k \in 1 .. n : H[k - 1] = R[k - 1] => H[k] = R[k]
    BY <2>1, <2>2
  <2>4. H[0] = R[0] /\ n \in Nat
    BY <1>1, <2>1, <2>2
  <2> QED
    BY <2>3, <2>4, SameIteration
<1>17. PICK Z : Z = R[n]
  OBVIOUS
<1>18. Z \subseteq U /\ from \in Z /\ \A h \in Z : h \in O => NextObject(mem, h) \in Z
  <2>1. n \in 0 .. n
    BY <1>1
  <2>2. Z \subseteq U /\ from \in Z /\ F[Z] = Z
    BY <1>12, <1>17, <2>1
  <2>3. Z = UNION {{o} \cup (IF IsHeader(o) THEN {NextObject(mem, o)} ELSE {}) : o \in Z}
    BY <1>8, <2>2
  <2> QED
    BY <1>4, <2>2, <2>3
<1>19. Z = U
  <2>1. SUFFICES ASSUME U \ Z # {}
                 PROVE  FALSE
    BY <1>18
  <2>2. U \ Z \in SUBSET Nat
    BY <1>2, <1>6
  <2>3. PICK h \in U \ Z : \A k \in U \ Z : h <= k
    BY <2>1, <2>2, LeastNat
  <2>4. PICK g \in O : h = NextObject(mem, g)
    BY <1>2, <1>6, <1>18, <2>3
  <2>5. g \in Nat /\ g < h /\ g \in U
    BY <1>2, <1>3, <1>6, <2>4
  <2>6. g \in Z
    BY <1>2, <1>3, <2>3, <2>4, <2>5
  <2> QED
    BY <1>18, <2>3, <2>4, <2>6
<1> QED
  BY <1>1, <1>2, <1>4, <1>6, <1>15, <1>16, <1>17, <1>19

(* The objects of each phase, in common.                                   *)
LEMMA WalkedNow ==
  ASSUME MCInv
  PROVE  /\ phase # "relocate" => \E O : Walked(O)
         /\ allocs \in Nat
<1>1. allocs \in Nat
  BY DEF MCInv, StacksOK
<1>2. ASSUME phase # "relocate"
      PROVE  \E O : Walked(O)
  BY <1>2 DEF MCInv, Phases, Quiet, Marking, Computing, Updating
<1> QED
  BY <1>1, <1>2

(* The walk over the heap meets the objects that fill it.                  *)
LEMMA ObjectsAre ==
  ASSUME NEW O, Walked(O), allocs \in Nat
  PROVE  Objects = O /\ HeadersFrom(0) = O \cup {heap.used} /\ heap.used \notin O
<1>1. /\ HeadersFrom(0) = O \cup {heap.used}
      /\ \A h \in O : h # heap.used
  BY HeadersMet DEF Walked
<1> QED
  BY <1>1 DEF Objects

(* There are as many roots as words on the stack and extra roots.          *)
LEMMA RootsLength ==
  ASSUME MCInv
  PROVE  Len(Roots) = Len(stack) + Len(cells)
<1>1. ASSUME NEW S, NEW T, stack \in Seq(S), cells \in Seq(T)
      PROVE  Len(Roots) = Len(stack) + Len(cells)
  <2>1. PICK U : U = S \cup T
    OBVIOUS
  <2>2. S \subseteq U /\ T \subseteq U
    BY <2>1
  <2>3. stack \in Seq(U) /\ cells \in Seq(U)
    BY <1>1, <2>2, SeqGrow
  <2> QED
    BY <2>3, RootsSeq
<1>2. CASE \E O : Quiet(O)
  BY <1>1, <1>2 DEF Quiet
<1>3. CASE \E O : Marking(O)
  BY <1>1, <1>3 DEF Marking
<1>4. CASE \E O : Computing(O)
  BY <1>1, <1>4 DEF Computing, Closed
<1>5. CASE \E O : Updating(O)
  BY <1>1, <1>5 DEF Updating
<1>6. CASE \E P, O, to : Relocating(P, O, to)
  BY <1>1, <1>6 DEF Relocating
<1> QED
  BY <1>2, <1>3, <1>4, <1>5, <1>6 DEF MCInv, Phases

-----------------------------------------------------------------------------
(***************************************************************************)
(* What the invariant says                                                 *)
(***************************************************************************)

(* The invariant says that the words and offsets are of their types.       *)
LEMMA TypeHolds ==
  ASSUME MCInv
  PROVE  HeapTypeOK
<1>1. HeapOK /\ CursorsOK /\ StacksOK
  BY DEF MCInv
<1>2. /\ heap.begin \in Bases /\ 0 <= heap.used /\ heap.used <= heap.size
  BY <1>1 DEF HeapOK
<1>3. /\ DOMAIN mem = 0 .. heap.size - 1
      /\ \A o \in DOMAIN mem : mem[o].kind \in Types \cup {"fwd", "int", "ptr"}
  BY <1>1 DEF HeapOK, Memory
<1>4. /\ {qhead, qtail, field, fieldEnd, scan, live} \subseteq 0 .. heap.used
      /\ root \in 0 .. Len(Roots)
  BY <1>1, RootsLength DEF CursorsOK
<1>5. Len(stack) <= MaxStack
  BY <1>1 DEF StacksOK
<1> QED
  BY <1>2, <1>3, <1>4, <1>5 DEF HeapTypeOK

(* The invariant says that the heap can be walked.                         *)
LEMMA WalkableHolds ==
  ASSUME MCInv
  PROVE  HeapWalkable
<1>1. allocs \in Nat
  BY WalkedNow
<1>2. CASE phase # "relocate"
  <2>1. PICK O : Walked(O)
    BY <1>2, WalkedNow
  <2>2. /\ HeadersFrom(0) = O \cup {heap.used}
        /\ \A h \in O : IsHeader(h) /\ mem[h + 1].kind = "fwd" /\ h # heap.used
    BY <1>1, <2>1, HeadersMet DEF Walked
  <2> QED
    BY <1>2, <2>2 DEF HeapWalkable
<1>3. CASE phase = "relocate"
  <2>1. PICK P, O, to : Relocating(P, O, to)
    BY <1>3 DEF MCInv, Phases
  <2>2. Tiles(mem, P, 0, to) /\ Tiles(mem, O, scan, heap.used) /\ Cardinality(P) + Cardinality(O) <= allocs
    BY <2>1 DEF Relocating
  <2>3. Cardinality(P) \in Nat /\ Cardinality(O) \in Nat
    BY <2>2, TilesFinite
  <2>4. Cardinality(O) <= allocs
    BY <1>1, <2>2, <2>3
  <2>5. /\ HeadersFrom(scan) = O \cup {heap.used}
        /\ \A h \in O : IsHeader(h) /\ mem[h + 1].kind = "fwd" /\ h # heap.used
    BY <1>1, <2>2, <2>4, HeadersMet
  <2> QED
    BY <1>3, <2>5 DEF HeapWalkable
<1> QED
  BY <1>2, <1>3

(* The invariant says that the queue is in order.                          *)
LEMMA QueueHolds ==
  ASSUME MCInv
  PROVE  QueueInvariant
<1> SUFFICES ASSUME phase = "mark"
             PROVE  /\ \A s, t \in Slots : mem[s + 1].v = mem[t + 1].v => s = t
                    /\ {mem[s + 1].v : s \in Slots}
                         = {Content(h) : h \in {x \in Objects : mem[x + 1].enqueued}}
                    /\ \A h \in Objects : ~(mem[h + 1].enqueued /\ mem[h + 1].marked)
                    /\ Cardinality({h \in Objects : h >= qtail})
                         >= Cardinality({h \in Objects : ~mem[h + 1].enqueued /\ ~mem[h + 1].marked})
  BY DEF QueueInvariant
<1>1. PICK O : Marking(O)
  BY MarkingNow
<1>2. Objects = O
  <2>1. Walked(O) /\ allocs \in Nat
    BY <1>1, WalkedNow DEF Marking
  <2> QED
    BY <2>1, ObjectsAre
<1>3. QueueOf(mem, heap.begin, O, heap.used, qhead, qtail)
  BY <1>1 DEF Marking
<1>4. Slots = {h \in O : qhead <= h /\ h < qtail}
  BY <1>2 DEF Slots
<1>5. /\ \A s, t \in Slots : mem[s + 1].v = mem[t + 1].v => s = t
      /\ {mem[s + 1].v : s \in Slots} = {heap.begin + h + HeaderWords : h \in Enqueued(mem, O)}
      /\ Marked(mem, O) \cap Enqueued(mem, O) = {}
      /\ Cardinality({h \in O : h >= qtail}) >= Cardinality(O \ Seen(mem, O))
  BY <1>3, <1>4 DEF QueueOf
<1>6. {x \in Objects : mem[x + 1].enqueued} = Enqueued(mem, O)
  BY <1>2 DEF Enqueued
<1>7. {heap.begin + h + HeaderWords : h \in Enqueued(mem, O)} = {Content(h) : h \in Enqueued(mem, O)}
  BY DEF Content
<1>8. \A h \in Objects : ~(mem[h + 1].enqueued /\ mem[h + 1].marked)
  BY <1>2, <1>5 DEF Marked, Enqueued
<1>9. O \ Seen(mem, O) = {h \in Objects : ~mem[h + 1].enqueued /\ ~mem[h + 1].marked}
  BY <1>2 DEF Seen, Marked, Enqueued
<1> QED
  BY <1>2, <1>5, <1>6, <1>7, <1>8, <1>9

(* The invariant says that the interpreter sees no flags.                  *)
LEMMA FlagsHold ==
  ASSUME MCInv
  PROVE  FlagsClear
<1> SUFFICES ASSUME phase \in {"run", "alloc", "retry"}
             PROVE  \A h \in Objects : ~mem[h + 1].marked /\ ~mem[h + 1].enqueued
  BY DEF FlagsClear
<1>1. PICK O : Quiet(O)
  BY QuietNow
<1>2. Walked(O) /\ Marked(mem, O) = {} /\ Enqueued(mem, O) = {} /\ allocs \in Nat
  BY <1>1, WalkedNow DEF Quiet
<1>3. Objects = O
  BY <1>2, ObjectsAre
<1> QED
  BY <1>2, <1>3 DEF Marked, Enqueued

(* Every word of the heap stays of a known kind, and no offset leaves the  *)
(* heap: neither mark's queue nor memmove writes outside of it.            *)
THEOREM TypeIsKept == Spec => []HeapTypeOK
<1>1. MCInv => HeapTypeOK
  BY TypeHolds
<1> QED
  BY <1>1, CollectorInvariant, PTL

(* The heap can be walked from object to object at any time, also while    *)
(* objects slide over each other.                                          *)
THEOREM HeapIsWalkable == Spec => []HeapWalkable
<1>1. MCInv => HeapWalkable
  BY WalkableHolds
<1> QED
  BY <1>1, CollectorInvariant, PTL

(* mark's queue, kept in the forward words of the objects themselves,      *)
(* holds each enqueued object once and never runs out of slots, whatever   *)
(* the graph.                                                              *)
THEOREM QueueIsSound == Spec => []QueueInvariant
<1>1. MCInv => QueueInvariant
  BY QueueHolds
<1> QED
  BY <1>1, CollectorInvariant, PTL

-----------------------------------------------------------------------------
(***************************************************************************)
(* References lead to objects                                              *)
(***************************************************************************)

(* What the words of a sequence are, its elements are.                     *)
LEMMA ElementsIn ==
  ASSUME NEW S, NEW s \in Seq(S), NEW w \in ToSet(s)
  PROVE  w \in S
  BY DEF ToSet

(* The invariant says that no word of the interpreter's dangles.           *)
LEMMA DanglingHolds ==
  ASSUME MCInv
  PROVE  NoDangling
<1> SUFFICES ASSUME phase \in {"run", "alloc", "retry"},
                    NEW w \in ToSet(stack) \cup ToSet(cells)
                                \cup {mem[o] : o \in UNION {FieldsAt(mem, h) : h \in Objects}},
                    w.kind = "ptr"
             PROVE  HeaderOf(w.v) \in Objects
  BY DEF NoDangling
<1>1. PICK O : Quiet(O)
  BY QuietNow
<1>2. Objects = O
  BY <1>1, WalkedNow, ObjectsAre DEF Quiet
<1>3. CASE w \in ToSet(stack)
  <2>1. w \in Refs(heap.begin, O)
    BY <1>1, <1>3, ElementsIn DEF Quiet
  <2> QED
    BY <1>2, <2>1, TargetOf
<1>4. CASE w \in ToSet(cells)
  <2>1. w \in Refs(heap.begin, Shaped(mem, O, request))
    BY <1>1, <1>4, ElementsIn DEF Quiet
  <2>2. Shaped(mem, O, request) \subseteq O
    BY DEF Shaped
  <2>3. w \in Refs(heap.begin, O)
    BY <2>1, <2>2, RefsGrow
  <2> QED
    BY <1>2, <2>3, TargetOf
<1>5. CASE w \in {mem[o] : o \in UNION {FieldsAt(mem, h) : h \in O}}
  <2>1. PICK h \in O : \E o \in FieldsAt(mem, h) : w = mem[o]
    BY <1>5
  <2>2. w \in Refs(heap.begin, O)
    BY <1>1, <2>1 DEF Quiet, FieldsIn
  <2> QED
    BY <1>2, <2>2, TargetOf
<1> QED
  BY <1>2, <1>3, <1>4, <1>5

(* The invariant says that a second attempt to allocate succeeds.          *)
LEMMA RoomHolds ==
  ASSUME MCInv
  PROVE  RetryFits
  BY QuietNow DEF Quiet, RetryFits, Fits

(* What a collection leaves, for every program, every graph and every      *)
(* place the heap may move to: no flag makes the next collection skip an   *)
(* object; what the stack, the extra roots and the fields of objects hold  *)
(* leads to objects; and the second attempt of gc_alloc is never NULL,     *)
(* whatever was live and whatever was asked for.                           *)
THEOREM HeapStaysIntact == Spec => []HeapIntact
<1>1. MCInv => HeapIntact
  BY FlagsHold, DanglingHolds, RoomHolds DEF HeapIntact
<1> QED
  BY <1>1, CollectorInvariant, PTL

-----------------------------------------------------------------------------
(***************************************************************************)
(* What is marked can be reached                                           *)
(***************************************************************************)

(* the heap at b, of words m, filled by the objects of O                   *)
Stocked(hp, b, m, O) ==
  /\ hp.begin = b /\ b \in Nat /\ hp.used \in Nat /\ hp.size \in Nat /\ hp.used <= hp.size
  /\ Tiles(m, O, 0, hp.used) /\ Memory(m, hp.size)

FieldWords(hp, m, p) == {m[o] : o \in FieldsAt(m, p - hp.begin - HeaderWords)}

(* C holds what the words and its own objects lead to                      *)
Encloses(m, b, words, C) == words \subseteq Refs(b, C) /\ FieldsIn(m, C, Refs(b, C))

(* What words lead to, as an iteration.                                    *)
Reaches(R, hp, m, n, words) ==
  R = [k \in 0 .. n |->
         IF k = 0 THEN PointersIn(hp, m, words)
         ELSE UNION {{p} \cup PointersIn(hp, m, FieldWords(hp, m, p)) : p \in R[k - 1]}]

(* References to objects are seen as such by the model's graph, and no     *)
(* others are.                                                             *)
LEMMA PointedAre ==
  ASSUME NEW hp, NEW b, NEW m, NEW O, Stocked(hp, b, m, O), NEW C, C \subseteq O,
         NEW words, words \subseteq Refs(b, C)
  PROVE  /\ \A w \in words : w.kind = "ptr" => w.v \in PointersIn(hp, m, words)
         /\ PointersIn(hp, m, words) \subseteq {b + h + 2 : h \in C}
<1>0. b = hp.begin
  BY DEF Stocked
<1>1. PICK used : b = hp.begin /\ used = hp.used
  BY <1>0
<1>2. b \in Nat /\ used \in Nat /\ Tiles(m, O, 0, used) /\ Memory(m, hp.size)
      /\ hp.size \in Nat /\ used <= hp.size
  BY <1>1 DEF Stocked
<1>3. ASSUME NEW w \in words, w.kind = "ptr"
      PROVE  w.v \in PointersIn(hp, m, words)
  <2>1. PICK h : h = w.v - b - 2
    OBVIOUS
  <2>2. w \in Refs(b, C)
    BY <1>1
  <2>3. w.v \in Int /\ h \in C
    BY <1>3, <2>1, <2>2, RefFacts
  <2>4. h \in O /\ h \in Nat /\ ObjectAt(m, h) /\ NextObject(m, h) <= used
    BY <1>2, <2>3 DEF Tiles
  <2>5. NextObject(m, h) \in Nat /\ h + 2 <= NextObject(m, h)
    BY <2>4, ObjectSize
  <2>6. PointsInto(hp, w)
    BY <1>1, <1>2, <1>3, <2>1, <2>3, <2>4, <2>5 DEF PointsInto
  <2>7. h \in DOMAIN m
    BY <1>2, <2>4, InHeap
  <2>8. IsObject(hp, m, w.v)
    BY <1>1, <2>1, <2>4, <2>7 DEF IsObject, HeaderWords, ObjectAt
  <2> QED
    BY <2>6, <2>8 DEF PointersIn
<1>4. ASSUME NEW p \in PointersIn(hp, m, words)
      PROVE  p \in {b + h + 2 : h \in C}
  <2>1. PICK w \in words : PointsInto(hp, w) /\ p = w.v
    BY DEF PointersIn
  <2>2. w.kind = "ptr" /\ w \in Refs(b, C)
    BY <1>1, <2>1 DEF PointsInto
  <2>3. PICK h : h = p - b - 2
    OBVIOUS
  <2>4. p \in Int /\ h \in C
    BY <2>1, <2>2, <2>3, RefFacts
  <2>5. p = b + h + 2
    BY <1>2, <2>3, <2>4
  <2> QED
    BY <1>1, <2>4, <2>5
<1> QED
  BY <1>3, <1>4

(* The fields of the object with a content.                                *)
LEMMA FieldWordsOf ==
  ASSUME NEW hp, NEW b, NEW m, NEW O, Stocked(hp, b, m, O), NEW h \in O
  PROVE  FieldWords(hp, m, b + h + 2) = {m[o] : o \in FieldsAt(m, h)}
<1>1. PICK p : p = b + h + 2
  OBVIOUS
<1>2. p - hp.begin - HeaderWords = h
  BY <1>1 DEF HeaderWords, Stocked, Tiles
<1>3. FieldsAt(m, p - hp.begin - HeaderWords) = FieldsAt(m, h)
  BY <1>2
<1>4. FieldWords(hp, m, p) = {m[o] : o \in FieldsAt(m, h)}
  BY <1>3, Zenon DEF FieldWords
<1> QED
  BY <1>1, <1>4

(* What the model's graph is drawn of: what the words lead to is a closed  *)
(* set of objects, and in every other that is closed.                      *)
LEMMA ReachEncloses ==
  ASSUME NEW hp, NEW b, NEW m, NEW O, Stocked(hp, b, m, O), NEW M, M \subseteq O,
         NEW words, Encloses(m, b, words, M),
         NEW n \in Nat, Cardinality(O) <= n
  PROVE  \E D : /\ D \subseteq M /\ Encloses(m, b, words, D)
                /\ Reach(hp, m, words, n) = {b + h + 2 : h \in D}
<1>4. PICK U : U = {b + h + 2 : h \in M}
  OBVIOUS
<1>5. Tiles(m, O, 0, hp.used) /\ hp.used \in Nat /\ b \in Nat
  BY DEF Stocked
<1>7. IsFiniteSet(O) /\ \A h \in O : h \in Nat
  BY <1>5, TilesFinite
<1>10. words \subseteq Refs(b, M) /\ FieldsIn(m, M, Refs(b, M))
  BY <1>4 DEF Encloses
<1>11. PICK A : A = PointersIn(hp, m, words)
  OBVIOUS
<1>12. A \subseteq U
  BY <1>4, <1>10, <1>11, PointedAre
<1>13. ASSUME NEW h \in M
       PROVE  /\ FieldWords(hp, m, b + h + 2) = {m[o] : o \in FieldsAt(m, h)}
              /\ FieldWords(hp, m, b + h + 2) \subseteq Refs(b, M)
              /\ PointersIn(hp, m, FieldWords(hp, m, b + h + 2)) \subseteq U
  <2>1. FieldWords(hp, m, b + h + 2) = {m[o] : o \in FieldsAt(m, h)}
    BY FieldWordsOf
  <2>2. FieldWords(hp, m, b + h + 2) \subseteq Refs(b, M)
    BY <1>10, <2>1 DEF FieldsIn
  <2>3. PICK W : W = FieldWords(hp, m, b + h + 2)
    OBVIOUS
  <2>4. W \subseteq Refs(b, M)
    BY <2>2, <2>3
  <2>5. PointersIn(hp, m, W) \subseteq {b + g + 2 : g \in M}
    BY <2>4, PointedAre
  <2> QED
    BY <1>4, <2>1, <2>2, <2>3, <2>5
<1>14. PICK F : F = [Z \in SUBSET U |-> UNION {{p} \cup PointersIn(hp, m, FieldWords(hp, m, p)) : p \in Z}]
  OBVIOUS
<1>15. \A Z \in SUBSET U : F[Z] = UNION {{p} \cup PointersIn(hp, m, FieldWords(hp, m, p)) : p \in Z}
  BY <1>14
<1>16. IsFiniteSet(U) /\ Cardinality(U) <= n
  <2>1. IsFiniteSet(M) /\ Cardinality(M) <= Cardinality(O) /\ Cardinality(M) \in Nat /\ Cardinality(O) \in Nat
    BY <1>7, FS_Subset, FS_CardinalityType
  <2>2. IsFiniteSet(U) /\ Cardinality(U) <= Cardinality(M)
    <3>1. PICK f : f = [h \in M |-> b + h + 2]
      OBVIOUS
    <3>2. f \in Surjection(M, U)
      BY <1>4, <3>1 DEF Surjection
    <3> QED
      BY <2>1, <3>2, FS_Surjection
  <2>3. Cardinality(U) \in Nat
    BY <2>2, FS_CardinalityType
  <2> QED
    BY <2>1, <2>2, <2>3
<1>17. WidensIn(F, U)
  <2>1. ASSUME NEW Z \in SUBSET U
        PROVE  F[Z] \in SUBSET U /\ Z \subseteq F[Z]
    <3>1. \A p \in Z : PointersIn(hp, m, FieldWords(hp, m, p)) \subseteq U
      BY <1>4, <1>13
    <3> QED
      BY <1>15, <3>1
  <2> QED
    BY <1>16, <2>1 DEF WidensIn
<1>18. PICK R : Iterates(R, n, A, F)
  BY IteratesExists
<1>19. (\A k \in 0 .. n : A \subseteq R[k] /\ R[k] \subseteq U) /\ F[R[n]] = R[n]
  <2>1. IsFiniteSet(A)
    BY <1>12, <1>16, FS_Subset
  <2>2. Cardinality(A) \in Nat /\ Cardinality(U) \in Nat
    BY <1>16, <2>1, FS_CardinalityType
  <2>3. Cardinality(U) <= Cardinality(A) + n
    BY <1>16, <2>2
  <2> QED
    BY <1>12, <1>17, <1>18, <2>3, IterationSettles
<1>20. /\ 0 \in 0 .. n /\ n \in 0 .. n
       /\ \A k \in 1 .. n : k \in 0 .. n /\ k # 0 /\ k - 1 \in 0 .. n
       /\ \A k \in 0 .. n : k = 0 \/ k \in 1 .. n
  OBVIOUS
<1>21. /\ R[0] = A
       /\ \A k \in 1 .. n : R[k] = UNION {{p} \cup PointersIn(hp, m, FieldWords(hp, m, p)) : p \in R[k - 1]}
  <2>1. R[0] = A /\ \A k \in 1 .. n : R[k] = F[R[k - 1]]
    BY <1>18, <1>20 DEF Iterates
  <2> QED
    BY <1>15, <1>19, <1>20, <2>1
<1>22. Reaches(R, hp, m, n, words)
  <2>1. R = [k \in 0 .. n |-> R[k]]
    BY <1>18 DEF Iterates
  <2>2. \A k \in 0 .. n :
           R[k] = IF k = 0 THEN PointersIn(hp, m, words)
                  ELSE UNION {{p} \cup PointersIn(hp, m, FieldWords(hp, m, p)) : p \in R[k - 1]}
    BY <1>11, <1>20, <1>21
  <2> QED
    BY <2>1, <2>2 DEF Reaches
<1>23. PICK H : Reach(hp, m, words, n) = H[n] /\ Reaches(H, hp, m, n, words)
  <2>1. Reaches(CHOOSE H : Reaches(H, hp, m, n, words), hp, m, n, words)
    BY <1>22, Zenon
  <2>2. Reach(hp, m, words, n) = (CHOOSE H : Reaches(H, hp, m, n, words))[n]
    BY Zenon DEF Reach, Reaches, FieldWords
  <2> QED
    BY <2>1, <2>2
<1>24. H[n] = R[n]
  <2>1. /\ H[0] = A
        /\ \A k \in 1 .. n :
             H[k] = UNION {{p} \cup PointersIn(hp, m, FieldWords(hp, m, p)) : p \in H[k - 1]}
    BY <1>11, <1>20, <1>23 DEF Reaches
  <2>2. \A k \in 1 .. n : H[k - 1] = R[k - 1] => H[k] = R[k]
    BY <1>21, <2>1
  <2>3. n \in Nat /\ H[0] = R[0]
    BY <1>21, <2>1
  <2> QED
    BY ONLY <2>2, <2>3, SameIteration
<1>25. PICK Z : Z = R[n]
  OBVIOUS
<1>26. /\ Z \subseteq U /\ A \subseteq Z
       /\ \A p \in Z : PointersIn(hp, m, FieldWords(hp, m, p)) \subseteq Z
  <2>1. Z \in SUBSET U /\ A \subseteq Z /\ F[Z] = Z
    BY <1>19, <1>20, <1>25
  <2>2. Z = UNION {{p} \cup PointersIn(hp, m, FieldWords(hp, m, p)) : p \in Z}
    BY <1>15, <2>1
  <2> QED
    BY <2>1, <2>2
<1>27. PICK C : C = {h \in M : b + h + 2 \in Z}
  OBVIOUS
<1>28. ASSUME NEW W, W \subseteq Refs(b, M), PointersIn(hp, m, W) \subseteq Z
       PROVE  W \subseteq Refs(b, C)
  <2>1. ASSUME NEW w \in W
        PROVE  w \in Refs(b, C)
    <3>1. w \in Refs(b, M)
      BY <1>28
    <3>2. CASE w.kind # "ptr"
      BY <3>1, <3>2, RefFacts
    <3>3. CASE w.kind = "ptr"
      <4>1. PICK h : h = w.v - b - 2
        OBVIOUS
      <4>2. h \in M /\ w.v \in Int
        BY <3>1, <3>3, <4>1, RefFacts
      <4>3. w.v \in Z
        BY <1>4, <1>28, <3>3, PointedAre
      <4>4. b + h + 2 = w.v
        BY <1>5, <4>1, <4>2
      <4>5. h \in C
        BY <1>27, <4>2, <4>3, <4>4
      <4> QED
        BY <3>1, <4>1, <4>5, RefFacts
    <3> QED
      BY <3>2, <3>3
  <2> QED
    BY <2>1
<1>29. words \subseteq Refs(b, C)
  BY <1>10, <1>11, <1>26, <1>28
<1>30. FieldsIn(m, C, Refs(b, C))
  <2>1. ASSUME NEW h \in C
        PROVE  \A o \in FieldsAt(m, h) : m[o] \in Refs(b, C)
    <3>1. PICK W : W = FieldWords(hp, m, b + h + 2)
      OBVIOUS
    <3>2. W = {m[o] : o \in FieldsAt(m, h)} /\ W \subseteq Refs(b, M)
      BY <1>13, <1>27, <3>1
    <3>3. PointersIn(hp, m, W) \subseteq Z
      BY <1>26, <1>27, <3>1
    <3>4. W \subseteq Refs(b, C)
      BY <1>28, <3>2, <3>3
    <3> QED
      BY <3>2, <3>4
  <2> QED
    BY <2>1 DEF FieldsIn
<1>31. Z = {b + h + 2 : h \in C}
  BY <1>4, <1>26, <1>27
<1>32. C \subseteq M /\ Encloses(m, b, words, C)
  BY <1>27, <1>29, <1>30 DEF Encloses
<1> QED
  BY <1>4, <1>23, <1>24, <1>25, <1>31, <1>32

(* A set is closed when it holds what the roots, as a set, lead to.        *)
LEMMA ClosedEncloses ==
  ASSUME NEW m, NEW b, NEW s, NEW c, NEW S, s \in Seq(S), c \in Seq(S), NEW C
  PROVE  Closed(m, b, s, c, C) <=> Encloses(m, b, ToSet(s) \cup ToSet(c), C)
<1>1. /\ Len(s) \in Nat /\ DOMAIN s = 1 .. Len(s) /\ s = [i \in 1 .. Len(s) |-> s[i]]
      /\ Len(c) \in Nat /\ DOMAIN c = 1 .. Len(c) /\ c = [i \in 1 .. Len(c) |-> c[i]]
  BY LenProperties
<1>2. PICK T : T = Refs(b, C)
  OBVIOUS
<1>3. ASSUME ToSet(s) \cup ToSet(c) \subseteq T
      PROVE  s \in Seq(T) /\ c \in Seq(T)
  <2>1. (\A i \in 1 .. Len(s) : s[i] \in T) /\ (\A i \in 1 .. Len(c) : c[i] \in T)
    BY <1>1, <1>3 DEF ToSet
  <2> QED
    BY <1>1, <2>1, SeqByPositions
<1>4. ASSUME s \in Seq(T), c \in Seq(T)
      PROVE  ToSet(s) \cup ToSet(c) \subseteq T
  <2>1. (\A i \in 1 .. Len(s) : s[i] \in T) /\ (\A i \in 1 .. Len(c) : c[i] \in T)
    BY <1>4, ElementOfSeq
  <2> QED
    BY <1>1, <2>1 DEF ToSet
<1> QED
  BY <1>2, <1>3, <1>4 DEF Closed, Encloses

(* The invariant says that the marked objects are the reachable ones: they *)
(* have all that they lead to, and no smaller set has.                     *)
LEMMA ReachHolds ==
  ASSUME MCInv
  PROVE  MarksReachable
<1>1. PICK words, n : words = ToSet(stack) \cup ToSet(cells) /\ n = allocs
  OBVIOUS
<1> SUFFICES ASSUME phase = "compute"
             PROVE  {Content(h) : h \in {x \in Objects : mem[x + 1].marked}} = Reach(heap, mem, words, n)
  BY <1>1 DEF MarksReachable
<1>2. HeapOK /\ CursorsOK /\ StacksOK /\ \E O : Computing(O)
  BY ComputingNow
<1>3. PICK O : Computing(O)
  BY <1>2
<1>4. PICK M, b : M = Marked(mem, O) /\ b = heap.begin
  OBVIOUS
<1>5. /\ Walked(O) /\ Tiles(mem, O, 0, heap.used) /\ Cardinality(O) <= n
      /\ Closed(mem, b, stack, cells, M) /\ Least(mem, b, stack, cells, O, M)
  BY <1>1, <1>3, <1>4 DEF Computing, Walked
<1>6. n \in Nat /\ b \in Nat /\ Stocked(heap, b, mem, O)
  BY <1>1, <1>2, <1>4, <1>5, BoundNat DEF StacksOK, HeapOK, Stocked
<1>7. M \subseteq O
  BY <1>4 DEF Marked
<1>8. {x \in Objects : mem[x + 1].marked} = M
  <2>1. Objects = O
    BY <1>1, <1>5, <1>6, ObjectsAre
  <2> QED
    BY <1>4, <2>1 DEF Marked
<1>9. \A C : Closed(mem, b, stack, cells, C) <=> Encloses(mem, b, words, C)
  BY <1>1, <1>5, ClosedEncloses DEF Closed
<1>10. PICK D : /\ D \subseteq M /\ Encloses(mem, b, words, D)
                /\ Reach(heap, mem, words, n) = {b + h + 2 : h \in D}
  <2>1. Encloses(mem, b, words, M)
    BY <1>5, <1>9
  <2> QED
    BY <1>5, <1>6, <1>7, <2>1, ReachEncloses
<1>11. M = D
  BY <1>5, <1>7, <1>9, <1>10 DEF Least
<1> QED
  BY <1>4, <1>8, <1>10, <1>11 DEF Content, HeaderWords

(* When marking ends, the marked objects are exactly those the stack and   *)
(* the extra roots lead to, in heaps and graphs of every size.             *)
THEOREM MarkingIsExact == Spec => []MarksReachable
<1>1. MCInv => MarksReachable
  BY ReachHolds
<1> QED
  BY <1>1, CollectorInvariant, PTL
=============================================================================
