--------------------------- MODULE StackVMProofs ---------------------------
(***************************************************************************)
(* What the interpreter's stack guarantees, for arrays, functions and      *)
(* programs of every size, up to the first END that is off by a word: the  *)
(* layout of the frames, their headers, and the words a collection can     *)
(* make stale; and that its words implement the stack of frames a Lama     *)
(* program expects.                                                        *)
(***************************************************************************)
EXTENDS StackVM, BasicFacts

(* No local 0 was read before it was assigned.                             *)
Fresh == "unset" \notin risks

(* A stale word that is scanned is the one below a base,                   *)
StaleAtBases ==
  Fresh =>
    \A a \in Scanned : mem[a] = Stale => \E k \in DOMAIN shape : a = shape[k].base - 1

(* ... and none that was assigned as local 0.                              *)
StoredFresh ==
  Fresh => \A k \in DOMAIN shape : shape[k].stored => mem[shape[k].base - 1] # Stale

(* The invariant, and what it is until an END is off by a word.            *)
WholeInv == VMTypeOK /\ HeadersIntact /\ LayoutInv /\ StaleAtBases /\ StoredFresh

VMInv == WholeInv /\ status # "shifted"

(* The ways an execution ends but that one.                                *)
Statuses == {"running", "ended", "error", "corrupt"}

-----------------------------------------------------------------------------
(***************************************************************************)
(* What the invariant says of the words                                    *)
(***************************************************************************)

(* The bounds of a behaviour are numbers.                                  *)
LEMMA SizeFacts ==
  ASSUME bound \in Bounds
  PROVE  /\ Size \in Nat /\ StackBegin \in Nat /\ 0 < StackBegin /\ StackBegin < Size
         /\ NGlobal \in Nat /\ StackBegin = Size - NGlobal
         /\ bound.ops \in Nat /\ bound.frames \in Nat /\ bound.captures \in Nat
         /\ bound.fns \subseteq Shapes
<1>1. /\ bound.size \in Nat /\ bound.size > NGlobal /\ NGlobal \in Nat \ {0}
      /\ bound.ops \in Nat /\ bound.frames \in Nat /\ bound.captures \in Nat
      /\ bound.fns \subseteq Shapes
  BY StackAssumption
<1> QED
  BY <1>1 DEF Size, StackBegin

(* A record of a frame holds numbers.                                      *)
LEMMA RecordFacts ==
  ASSUME NEW r \in FrameRecords
  PROVE  /\ r.fn \in Shapes /\ r.fn.nargs \in Nat /\ r.fn.nlocals \in Nat
         /\ r.taken \in Nat /\ r.taken <= 1 /\ r.ops \in Nat /\ r.base \in Nat
         /\ r.stored \in BOOLEAN
<1>1. r.fn \in Shapes /\ r.taken \in 0 .. 1 /\ r.ops \in Nat /\ r.base \in Nat
        /\ r.stored \in BOOLEAN
  BY DEF FrameRecords
<1>2. r.fn.nargs \in Nat /\ r.fn.nlocals \in Nat
  BY <1>1, StackAssumption
<1> QED
  BY <1>1, <1>2

(* ... and keeps doing so when its operands change in number.              *)
LEMMA OpsChanged ==
  ASSUME NEW r \in FrameRecords, NEW o \in Nat
  PROVE  LET s == [r EXCEPT !.ops = o]
         IN  /\ s \in FrameRecords /\ s.fn = r.fn /\ s.taken = r.taken /\ s.base = r.base
             /\ s.stored = r.stored /\ s.ops = o
  BY DEF FrameRecords

BaseOf(k) == shape[k].base

(* The places of one frame, in order.                                      *)
LEMMA PlaceFacts ==
  ASSUME HistoryTypes, NEW k \in DOMAIN shape
  PROVE  /\ shape[k] \in FrameRecords
         /\ BaseOf(k) \in Nat /\ Ceiling(k) \in Nat /\ OpsBegin(k) \in Int
         /\ BaseOf(k) + 2 <= Ceiling(k)
         /\ OpsBegin(k) + 2 <= BaseOf(k) /\ OpsBegin(k) + shape[k].fn.nlocals + 2 = BaseOf(k)
<1> DEFINE r == shape[k]
<1>1. r \in FrameRecords
  BY ElementOfSeq, LenProperties DEF HistoryTypes
<1> HIDE DEF r
<1>2. /\ r.fn.nargs \in Nat /\ r.fn.nlocals \in Nat
      /\ r.taken \in Nat /\ r.base \in Nat
  BY <1>1, RecordFacts
<1> DEFINE a == r.fn.nargs
           l == r.fn.nlocals
           t == r.taken
           b == r.base
<1>3. /\ BaseOf(k) = b /\ Ceiling(k) = b + 2 + a + t /\ OpsBegin(k) = b - 2 - l
      /\ shape[k].fn.nlocals = l
  BY DEF BaseOf, Ceiling, OpsBegin, r
<1> HIDE DEF a, l, t, b
<1>4. a \in Nat /\ l \in Nat /\ t \in Nat /\ b \in Nat
  BY <1>2 DEF a, l, t, b
<1>5. shape[k] \in FrameRecords
  BY <1>1 DEF r
<1> QED
  BY <1>3, <1>4, <1>5

(* Where the frames are.                                                   *)
LEMMA FrameFacts ==
  ASSUME VMInv, shape # << >>
  PROVE  /\ Len(shape) \in Nat /\ 1 <= Len(shape) /\ DOMAIN shape = 1 .. Len(shape)
         /\ This = shape[Len(shape)] /\ This \in FrameRecords
         /\ BaseOf(1) = StackBegin - 1
         /\ \A k \in 1 .. Len(shape) :
              /\ shape[k] \in FrameRecords
              /\ BaseOf(k) \in Nat /\ Ceiling(k) \in Nat /\ OpsBegin(k) \in Nat
              /\ BaseOf(k) + 2 <= Ceiling(k)
              /\ OpsBegin(k) + 2 <= BaseOf(k) /\ OpsBegin(k) + shape[k].fn.nlocals + 2 = BaseOf(k)
              /\ top <= OpsBegin(k)
              /\ BaseOf(k) <= StackBegin - 1
              /\ k > 1 => Ceiling(k) <= StackBegin - 3
         /\ \A i, k \in 1 .. Len(shape) : i < k => Ceiling(k) <= OpsBegin(i)
<1> DEFINE n == Len(shape)
<1>2. HistoryTypes
  BY DEF VMInv, WholeInv, LayoutInv
<1>0. n \in Nat /\ 1 <= n
  <2>1. n \in Nat \ {0}
    BY <1>2, LastSeq DEF HistoryTypes
  <2> QED
    BY <2>1
<1>1. n \in Nat /\ 1 <= n /\ DOMAIN shape = 1 .. n /\ This = shape[n]
  <2>1. DOMAIN shape = 1 .. n /\ This = shape[n]
    BY <1>2, LastSeq DEF HistoryTypes, This
  <2> QED
    BY <1>0, <2>1
<1>3. \A i, k \in 1 .. n : i < k => Ceiling(k) <= OpsBegin(i)
  BY <1>1 DEF VMInv, WholeInv, LayoutInv, FramesApart
<1>4. BaseOf(1) = StackBegin - 1
  BY DEF VMInv, WholeInv, LayoutInv, FramesApart, BaseOf
<1>5. top \in Nat /\ StackBegin \in Nat
  BY SizeFacts DEF VMInv, WholeInv, VMTypeOK
<1>6. n \in DOMAIN shape /\ 1 \in DOMAIN shape
  BY <1>1
<1>7. top <= OpsBegin(n) /\ OpsBegin(n) \in Int
  <2> DEFINE o == shape[n].ops
  <2>1. OpsEnd(n) - 1 + o = OpsBegin(n)
    BY <1>1, <1>6 DEF VMInv, WholeInv, LayoutInv, FramesApart
  <2>2. OpsEnd(n) \in {top + 1, top + 2}
    BY <1>1 DEF OpsEnd
  <2>3. o \in Nat
    BY <1>2, <1>6, PlaceFacts, RecordFacts
  <2> HIDE DEF o
  <2> QED
    BY <1>5, <2>1, <2>2, <2>3
<1>8. ASSUME NEW k \in 1 .. n
      PROVE  /\ shape[k] \in FrameRecords
             /\ BaseOf(k) \in Nat /\ Ceiling(k) \in Nat /\ OpsBegin(k) \in Nat
             /\ BaseOf(k) + 2 <= Ceiling(k)
             /\ OpsBegin(k) + 2 <= BaseOf(k) /\ OpsBegin(k) + shape[k].fn.nlocals + 2 = BaseOf(k)
             /\ top <= OpsBegin(k)
             /\ BaseOf(k) <= StackBegin - 1
             /\ k > 1 => Ceiling(k) <= StackBegin - 3
  <2>1. /\ shape[k] \in FrameRecords
        /\ BaseOf(k) \in Nat /\ Ceiling(k) \in Nat /\ OpsBegin(k) \in Int
        /\ BaseOf(k) + 2 <= Ceiling(k)
        /\ OpsBegin(k) + 2 <= BaseOf(k) /\ OpsBegin(k) + shape[k].fn.nlocals + 2 = BaseOf(k)
    BY <1>1, <1>2, PlaceFacts
  <2>2. /\ OpsBegin(1) \in Int /\ OpsBegin(1) + 2 <= BaseOf(1)
        /\ Ceiling(n) \in Nat /\ BaseOf(n) + 2 <= Ceiling(n) /\ OpsBegin(n) + 2 <= BaseOf(n)
        /\ BaseOf(n) \in Nat
    BY <1>2, <1>6, PlaceFacts
  <2>3. k > 1 => Ceiling(k) <= OpsBegin(1)
    BY <1>1, <1>3
  <2>4. k < n => Ceiling(n) <= OpsBegin(k)
    BY <1>1, <1>3
  <2>5. k = 1 \/ k > 1
    BY <1>1
  <2>6. k = n \/ k < n
    BY <1>0
  <2>7. top <= OpsBegin(k)
    BY <1>5, <1>7, <2>1, <2>2, <2>4, <2>6, SMTT(30)
  <2>8. BaseOf(k) <= StackBegin - 1 /\ (k > 1 => Ceiling(k) <= StackBegin - 3)
    BY <1>4, <1>5, <2>1, <2>2, <2>3, <2>5, SMTT(30)
  <2> QED
    BY <1>5, <2>1, <2>7, <2>8
<1>9. This \in FrameRecords
  BY <1>1, <1>8
<1> QED
  BY <1>1, <1>3, <1>4, <1>8, <1>9

(* The place of the newest frame, as a number.                             *)
LEMMA Newest ==
  ASSUME VMInv, shape # << >>
  PROVE  \E n \in Nat : /\ n = Len(shape) /\ 1 <= n /\ n \in 1 .. n /\ DOMAIN shape = 1 .. n
                        /\ n \in DOMAIN shape
<1>1. Len(shape) \in Nat /\ 1 <= Len(shape) /\ DOMAIN shape = 1 .. Len(shape)
  BY FrameFacts
<1>2. Len(shape) \in 1 .. Len(shape)
  BY <1>1
<1> QED
  BY <1>1, <1>2, Zenon

(* The operands of the newest frame, between two instructions and after a  *)
(* call has pushed its return address.                                     *)
LEMMA ThisFacts ==
  ASSUME VMInv, shape # << >>
  PROVE  /\ This.ops \in Nat /\ base \in Nat /\ top \in Nat /\ nargs \in Nat
         /\ base = This.base /\ nargs = This.fn.nargs /\ base = BaseOf(Len(shape))
         /\ OpsBegin(Len(shape)) = base - 2 - This.fn.nlocals
         /\ Ceiling(Len(shape)) = base + 2 + nargs + This.taken
         /\ callee = NoCallee => top + This.ops = OpsBegin(Len(shape))
         /\ callee # NoCallee =>
              /\ callee.fn \in Shapes /\ callee.fn.nargs \in Nat
              /\ callee.fn.nlocals \in Nat
              /\ callee.taken \in Nat /\ callee.taken <= 1
              /\ top + 1 + This.ops = OpsBegin(Len(shape))
              /\ callee.fn.nargs + callee.taken <= This.ops
<1> DEFINE n == Len(shape)
           o == This.ops
<1>1. n \in DOMAIN shape /\ This = shape[n] /\ n \in Nat /\ o \in Nat /\ OpsBegin(n) \in Nat
  BY FrameFacts, RecordFacts
<1>2. base = This.base /\ nargs = This.fn.nargs
  BY DEF VMInv, WholeInv, HeadersIntact
<1>3. /\ OpsEnd(n) - 1 + o = OpsBegin(n) /\ base = BaseOf(n)
      /\ OpsBegin(n) = base - 2 - This.fn.nlocals
      /\ Ceiling(n) = base + 2 + nargs + This.taken
  BY <1>1, <1>2 DEF VMInv, WholeInv, LayoutInv, FramesApart, OpsBegin, BaseOf, Ceiling
<1>4. OpsEnd(n) = IF callee = NoCallee THEN top + 1 ELSE top + 2
  BY <1>1 DEF OpsEnd
<1>5. top \in Nat /\ base \in Nat /\ nargs \in Nat
  BY SizeFacts DEF VMInv, WholeInv, VMTypeOK
<1>6. ASSUME callee # NoCallee
      PROVE  /\ callee.fn \in Shapes /\ callee.fn.nargs \in Nat
             /\ callee.fn.nlocals \in Nat
             /\ callee.taken \in Nat /\ callee.taken <= 1
             /\ callee.fn.nargs + callee.taken <= This.ops
  <2>1. callee.fn \in Shapes /\ callee.taken \in 0 .. 1
    BY <1>6 DEF VMInv, WholeInv, LayoutInv, HistoryTypes
  <2>2. callee.fn.nargs \in Nat /\ callee.fn.nlocals \in Nat
    BY <2>1, StackAssumption
  <2>3. callee.fn.nargs + callee.taken <= This.ops
    BY <1>6 DEF VMInv, WholeInv, LayoutInv, FramesApart
  <2> QED
    BY <2>1, <2>2, <2>3
<1> HIDE DEF o
<1>7. /\ callee = NoCallee => top + o = OpsBegin(n)
      /\ callee # NoCallee => top + 1 + o = OpsBegin(n)
  BY <1>1, <1>3, <1>4, <1>5
<1> QED
  BY <1>1, <1>2, <1>3, <1>5, <1>6, <1>7 DEF o

(* While an instruction runs there is a frame, and it is no call's.        *)
LEMMA ExecutingFacts ==
  ASSUME VMInv, Executing
  PROVE  shape # << >> /\ callee = NoCallee
  BY DEF VMInv, WholeInv, LayoutInv, LayoutAtStart, Executing

(* The words above the top.                                                *)
LEMMA AboveTop ==
  ASSUME NEW t \in Nat, NEW z \in Nat
  PROVE  \A a \in t + 1 .. z - 1 : a \in 0 .. z - 1 /\ a > t
  OBVIOUS

-----------------------------------------------------------------------------
(***************************************************************************)
(* Steps that keep the frames                                              *)
(***************************************************************************)

(* The flag may only change where it is not the newest frame's own.        *)
Kept ==
  /\ UNCHANGED <<bound, mem, top, base, nargs, callee, shape, risks>>
  /\ inClosure' \in BOOLEAN
  /\ shape = << >> \/ "nested" \notin risks => inClosure' = inClosure

(* How execution ended is no part of the layout.                           *)
LEMMA StatusKeepsInv ==
  ASSUME VMInv, Kept, status' \in Statuses
  PROVE  VMInv'
<1>1. /\ Size' = Size /\ StackBegin' = StackBegin /\ This' = This /\ Scanned' = Scanned
      /\ \A k : OpsEnd(k)' = OpsEnd(k) /\ OpsBegin(k)' = OpsBegin(k) /\ Ceiling(k)' = Ceiling(k)
  BY DEF Kept, Size, StackBegin, This, Scanned, OpsEnd, OpsBegin, Ceiling
<1>2. VMTypeOK'
  BY <1>1 DEF Kept, VMInv, WholeInv, VMTypeOK, Words, Statuses
<1>3. HeadersIntact' /\ StaleAtBases'
  BY <1>1 DEF Kept, VMInv, WholeInv, HeadersIntact, StaleAtBases, Fresh
<1>4. HistoryTypes' /\ LayoutAtStart' /\ StoredFresh'
  BY <1>1 DEF Kept, VMInv, WholeInv, LayoutInv, HistoryTypes, LayoutAtStart, StoredFresh, Fresh,
              FrameRecords, NoCallee
<1>5. status' # "shifted" /\ status # "shifted"
  BY DEF Statuses, VMInv
<1>6. FramesApart'
  BY <1>1, <1>5 DEF Kept, VMInv, WholeInv, LayoutInv, FramesApart, NoCallee
<1>7. FlagOfNewest'
  BY <1>1, <1>5 DEF Kept, VMInv, WholeInv, LayoutInv, FlagOfNewest, NoCallee
<1> QED
  BY <1>2, <1>3, <1>4, <1>5, <1>6, <1>7 DEF VMInv, WholeInv, LayoutInv

(* A step takes note of what it risks.                                     *)
RisksGrow == risks \subseteq risks' /\ risks' \subseteq {"unset", "nested"}

(* What keeps the flag that of the newest frame, or of the call under way. *)
FlagStep ==
  "nested" \notin risks' =>
    /\ callee' # NoCallee => This.taken = 0
    /\ inClosure' = IF callee' = NoCallee THEN This.taken = 1 ELSE callee'.taken = 1

(* A step that changes of the frames only how many operands the newest has *)
(* and whether its local 0 is assigned, and writes only below its locals or*)
(* to them.                                                                *)
LEMMA FramesKept ==
  ASSUME VMInv, shape # << >>,
         UNCHANGED <<bound, base, nargs>>,
         NEW s \in FrameRecords, s.fn = This.fn, s.taken = This.taken, s.base = This.base,
         shape' = WithThis(s),
         callee' \in {NoCallee} \cup [fn : Shapes, taken : 0 .. 1],
         callee' # NoCallee => s.ops >= callee'.fn.nargs + callee'.taken,
         RisksGrow, FlagStep, inClosure' \in BOOLEAN,
         top' \in Nat,
         (IF callee' = NoCallee THEN top' ELSE top' + 1) + s.ops = OpsBegin(Len(shape)),
         mem' \in [0 .. Size - 1 -> Words],
         \A a \in 0 .. Size - 1 : a > OpsBegin(Len(shape)) =>
           mem'[a] = mem[a] \/ (base - This.fn.nlocals <= a /\ a <= base - 1),
         Fresh' /\ s.stored => mem'[base - 1] # Stale,
         Fresh' => \A a \in 0 .. Size - 1 :
                     a > top' /\ mem'[a] = Stale => a > top /\ mem[a] = Stale,
         status' \in Statuses
  PROVE  VMInv'
<1>0. PICK n \in Nat : n = Len(shape) /\ 1 <= n
  BY FrameFacts
<1>1. /\ n \in Nat /\ 1 <= n /\ DOMAIN shape = 1 .. n /\ n \in 1 .. n /\ 1 \in 1 .. n
      /\ This = shape[n] /\ shape \in Seq(FrameRecords)
  BY <1>0, FrameFacts DEF VMInv, WholeInv, LayoutInv, HistoryTypes
<1>2. /\ shape' \in Seq(FrameRecords) /\ shape' # << >> /\ Len(shape') = n
      /\ DOMAIN shape' = 1 .. n /\ \A k \in 1 .. n - 1 : shape'[k] = shape[k]
      /\ shape'[n] = s /\ This' = s
  <2>1. /\ shape' \in Seq(FrameRecords) /\ shape' # << >> /\ Len(shape') = n
        /\ DOMAIN shape' = DOMAIN shape /\ \A k \in 1 .. n - 1 : shape'[k] = shape[k]
        /\ shape'[n] = s /\ Last(shape') = s
    BY <1>0, <1>1, ReplaceLast DEF WithThis
  <2> QED
    BY <1>1, <2>1 DEF This
<1>3. ASSUME NEW k \in 1 .. n
      PROVE  /\ shape'[k].fn = shape[k].fn /\ shape'[k].taken = shape[k].taken
             /\ shape'[k].base = shape[k].base
             /\ Ceiling(k)' = Ceiling(k) /\ OpsBegin(k)' = OpsBegin(k)
             /\ BaseOf(k)' = BaseOf(k)
  <2>1. CASE k = n
    BY <1>1, <1>2, <2>1 DEF Ceiling, OpsBegin, BaseOf
  <2>2. CASE k # n
    <3>1. k \in 1 .. n - 1
      BY <1>0, <2>2
    <3>2. shape'[k] = shape[k]
      BY <1>2, <3>1
    <3> QED
      BY <3>2 DEF Ceiling, OpsBegin, BaseOf
  <2> QED
    BY <2>1, <2>2
<1>4. /\ Size' = Size /\ StackBegin' = StackBegin /\ NoCallee' = NoCallee
      /\ FrameRecords' = FrameRecords /\ Words' = Words
  BY DEF Size, StackBegin, NoCallee, FrameRecords, Words
<1>5. /\ Size \in Nat /\ StackBegin \in Nat /\ StackBegin < Size /\ 0 < StackBegin
      /\ top \in Nat /\ base \in Nat /\ nargs \in Nat /\ bound \in Bounds
  BY SizeFacts DEF VMInv, WholeInv, VMTypeOK
<1>6. \A k \in 1 .. n :
        /\ BaseOf(k) \in Nat /\ Ceiling(k) \in Nat /\ OpsBegin(k) \in Nat
        /\ BaseOf(k) + 2 <= Ceiling(k) /\ OpsBegin(k) + 2 <= BaseOf(k)
        /\ OpsBegin(k) + shape[k].fn.nlocals + 2 = BaseOf(k)
        /\ BaseOf(k) <= StackBegin - 1 /\ top <= OpsBegin(k)
  BY <1>0, FrameFacts
<1>7. s.ops \in Nat /\ s.stored \in BOOLEAN /\ base = BaseOf(n) /\ base = This.base
        /\ nargs = This.fn.nargs
  BY <1>0, RecordFacts, ThisFacts
<1>8. top' <= OpsBegin(n)
  <2> DEFINE o == s.ops
             f == OpsBegin(n)
  <2>1. f \in Nat /\ o \in Nat
    BY <1>1, <1>6, <1>7, Zenon
  <2>2. PICK t \in Nat : t = top'
    OBVIOUS
  <2>3. t + o = f \/ t + 1 + o = f
    BY <1>0, <2>2
  <2> HIDE DEF o, f
  <2>4. t <= f
    BY <2>1, <2>3
  <2> QED
    BY <2>2, <2>4 DEF f
<1>9. \A i, k \in 1 .. n : i < k => Ceiling(k) <= OpsBegin(i)
  BY <1>0, FrameFacts
<1>10. HistoryTypes' /\ LayoutAtStart'
  BY <1>2, <1>4 DEF HistoryTypes, LayoutAtStart
<1>11. FramesApart'
  <2>1. shape'[1].base = StackBegin - 1 /\ shape'[1].taken = 0
    BY <1>1, <1>3 DEF VMInv, WholeInv, LayoutInv, FramesApart
  <2>2. ASSUME NEW k \in 1 .. n
        PROVE  OpsEnd(k)' - 1 + shape'[k].ops = OpsBegin(k)
    <3>1. CASE k = n
      <4>1. OpsEnd(n)' = IF callee' = NoCallee THEN top' + 1 ELSE top' + 2
        <5>1. ~(n < Len(shape'))
          BY <1>0, <1>2
        <5> QED
          BY <1>4, <5>1, Zenon DEF OpsEnd
      <4>2. OpsBegin(n) \in Nat /\ shape'[k].ops = s.ops /\ OpsBegin(Len(shape)) = OpsBegin(k)
        BY <1>0, <1>1, <1>2, <1>6, <3>1
      <4> QED
        BY <1>7, <3>1, <4>1, <4>2
    <3>2. CASE k # n
      <4>1. k \in 1 .. n - 1 /\ k + 1 \in 1 .. n /\ k < n
        BY <1>0, <3>2
      <4>2. shape'[k] = shape[k]
        BY <1>2, <4>1
      <4>3. OpsEnd(k) - 1 + shape[k].ops = OpsBegin(k)
        BY <1>1 DEF VMInv, WholeInv, LayoutInv, FramesApart
      <4>4. OpsEnd(k)' = OpsEnd(k)
        <5>1. /\ shape'[k + 1].fn = shape[k + 1].fn
              /\ shape'[k + 1].taken = shape[k + 1].taken
              /\ shape'[k + 1].base = shape[k + 1].base
          BY <1>3, <4>1
        <5> QED
          BY <1>0, <1>2, <4>1, <5>1, Zenon DEF OpsEnd
      <4> QED
        BY <4>2, <4>3, <4>4
    <3> QED
      BY <3>1, <3>2
  <2>3. This'.ops = s.ops
    BY <1>2
  <2>4. \A i, k \in 1 .. n : i < k => Ceiling(k)' <= OpsBegin(i)'
    BY <1>3, <1>9
  <2>5. \A k \in 1 .. n : OpsEnd(k)' - 1 + shape'[k].ops = OpsBegin(k)'
    BY <1>3, <2>2
  <2> QED
    BY <1>2, <1>4, <2>1, <2>3, <2>4, <2>5 DEF FramesApart
<1>12. FlagOfNewest'
  <2>1. "nested" \notin risks' => "nested" \notin risks
    BY DEF RisksGrow
  <2>2. "nested" \notin risks => \A k \in 1 .. n - 1 : shape[k].taken = 0
    BY <1>0, <1>1 DEF VMInv, WholeInv, LayoutInv, FlagOfNewest
  <2>3. "nested" \notin risks => \A k \in 1 .. n - 1 : shape'[k].taken = 0
    BY <1>2, <2>2
  <2>4. This'.taken = This.taken /\ status' # "shifted"
    BY <1>2 DEF Statuses
  <2> QED
    BY <1>2, <1>4, <2>1, <2>3, <2>4 DEF FlagOfNewest, FlagStep
<1>13. ASSUME NEW k \in 1 .. n
       PROVE  /\ BaseOf(k) \in 0 .. Size - 1 /\ BaseOf(k) + 1 \in 0 .. Size - 1
              /\ BaseOf(k) - 1 \in 0 .. Size - 1
              /\ mem'[BaseOf(k)] = mem[BaseOf(k)] /\ mem'[BaseOf(k) + 1] = mem[BaseOf(k) + 1]
              /\ k # n => mem'[BaseOf(k) - 1] = mem[BaseOf(k) - 1]
  <2> DEFINE b == BaseOf(k)
             f == OpsBegin(n)
  <2>1. /\ b \in Nat /\ b <= StackBegin - 1 /\ 2 <= b
    BY <1>5, <1>6
  <2>2. f \in Nat /\ f + 2 <= base /\ base \in Nat
    BY <1>1, <1>6, <1>7
  <2>3. k = n \/ Ceiling(n) <= OpsBegin(k)
    BY <1>0, <1>9
  <2>4. k = n \/ base + 4 <= b
    <3>1. /\ base + 2 <= Ceiling(n) /\ Ceiling(n) \in Nat
          /\ OpsBegin(k) + 2 <= b /\ OpsBegin(k) \in Nat
      BY <1>1, <1>6, <1>7
    <3> QED
      BY <2>1, <2>2, <2>3, <3>1
  <2>5. k = n => b = base
    BY <1>7
  <2> HIDE DEF b, f
  <2>6. /\ b \in 0 .. Size - 1 /\ b + 1 \in 0 .. Size - 1 /\ b - 1 \in 0 .. Size - 1
        /\ b > f /\ b + 1 > f /\ b > base - 1 /\ b + 1 > base - 1
        /\ k # n => b - 1 > f /\ b - 1 > base - 1
    BY <1>5, <2>1, <2>2, <2>4, <2>5
  <2>7. \A a \in 0 .. Size - 1 : a > f /\ a > base - 1 => mem'[a] = mem[a]
    BY <1>0, <2>2 DEF f
  <2>8. /\ mem'[b] = mem[b] /\ mem'[b + 1] = mem[b + 1]
        /\ k # n => mem'[b - 1] = mem[b - 1]
    BY <2>6, <2>7
  <2> QED
    BY <2>6, <2>8 DEF b
<1>14. HeadersIntact'
  <2>1. ASSUME NEW k \in 2 .. n
        PROVE  /\ mem'[shape'[k].base] = Word("base", shape'[k - 1].base)
               /\ mem'[shape'[k].base + 1] = Word("nargs", shape'[k - 1].fn.nargs)
    <3>1. k \in 1 .. n /\ k - 1 \in 1 .. n
      BY <1>0
    <3>2. /\ shape'[k].base = BaseOf(k) /\ shape'[k - 1].base = shape[k - 1].base
          /\ shape'[k - 1].fn = shape[k - 1].fn /\ shape[k].base = BaseOf(k)
      BY <1>3, <3>1 DEF BaseOf
    <3>3. /\ mem[shape[k].base] = Word("base", shape[k - 1].base)
          /\ mem[shape[k].base + 1] = Word("nargs", shape[k - 1].fn.nargs)
      BY <1>0 DEF VMInv, WholeInv, HeadersIntact
    <3> QED
      BY <1>13, <3>1, <3>2, <3>3
  <2>2. base' = s.base /\ nargs' = s.fn.nargs
    BY <1>7
  <2> QED
    BY <1>2, <2>1, <2>2 DEF HeadersIntact
<1>15. StoredFresh'
  <2>1. ASSUME Fresh', NEW k \in 1 .. n, shape'[k].stored
        PROVE  mem'[shape'[k].base - 1] # Stale
    <3>1. CASE k = n
      BY <1>2, <1>7, <2>1, <3>1
    <3>2. CASE k # n
      <4>1. k \in 1 .. n - 1
        BY <1>0, <3>2
      <4>2. shape'[k] = shape[k] /\ k \in DOMAIN shape
        BY <1>1, <1>2, <4>1
      <4>3. Fresh
        BY <2>1 DEF Fresh, RisksGrow
      <4>4. mem[shape[k].base - 1] # Stale
        BY <2>1, <4>2, <4>3 DEF VMInv, WholeInv, StoredFresh
      <4> QED
        BY <1>13, <3>2, <4>2, <4>4 DEF BaseOf
    <3> QED
      BY <3>1, <3>2
  <2> QED
    BY <1>2, <2>1 DEF StoredFresh, Fresh, Stale, Word
<1>16. StaleAtBases'
  <2>1. ASSUME Fresh', NEW a \in Scanned', mem'[a] = Stale
        PROVE  \E k \in 1 .. n : a = shape'[k].base - 1
    <3>1. a \in 0 .. Size - 1 /\ a > top'
      <4>1. Scanned' = top' + 1 .. Size - 1
        BY <1>4 DEF Scanned
      <4>2. a \in top' + 1 .. Size - 1
        BY <2>1, <4>1
      <4> QED
        BY <1>5, <4>2, AboveTop
    <3>2. a > top /\ mem[a] = Stale
      BY <2>1, <3>1
    <3>3. a \in Scanned /\ Fresh
      BY <1>5, <2>1, <3>1, <3>2 DEF Scanned, Fresh, RisksGrow
    <3>4. PICK k \in DOMAIN shape : a = shape[k].base - 1
      BY <3>2, <3>3 DEF VMInv, WholeInv, StaleAtBases
    <3> QED
      BY <1>1, <1>3, <3>4
  <2> QED
    BY <1>2, <2>1 DEF StaleAtBases, Fresh, Stale, Word
<1>17. VMTypeOK'
  <2>1. top' \in 0 .. StackBegin /\ base' \in 0 .. StackBegin
    <3>1. /\ OpsBegin(n) \in Nat /\ OpsBegin(n) + 2 <= BaseOf(n) /\ BaseOf(n) <= StackBegin - 1
          /\ BaseOf(n) \in Nat
      BY <1>1, <1>6
    <3> QED
      BY <1>5, <1>7, <1>8, <3>1
  <2>2. status' \in Statuses \cup {"shifted"} /\ risks' \subseteq {"unset", "nested"}
    BY DEF RisksGrow
  <2>3. \A k \in DOMAIN shape' : shape'[k].ops \in Nat
    BY <1>2, RecordFacts, ElementOfSeq
  <2> QED
    BY <1>4, <1>5, <2>1, <2>2, <2>3 DEF VMTypeOK, Statuses
<1>18. status' # "shifted"
  BY DEF Statuses
<1> QED
  BY <1>10, <1>11, <1>12, <1>14, <1>15, <1>16, <1>17, <1>18 DEF VMInv, WholeInv, LayoutInv

-----------------------------------------------------------------------------
(***************************************************************************)
(* The instructions of one frame                                           *)
(***************************************************************************)

(* The step of an instruction that leaves one operand more, writes no word *)
(* above it, and leaves no pointer to where an object was while no unset   *)
(* local was read.                                                         *)
PushStep ==
  /\ Executing /\ top > 0 /\ top' = top - 1
  /\ shape' = WithThis([This EXCEPT !.ops = @ + 1])
  /\ risks' \in {risks, risks \cup {"unset"}}
  /\ mem' \in [0 .. Size - 1 -> Words]
  /\ \A a \in 0 .. Size - 1 : a > top => mem'[a] = mem[a]
  /\ Fresh' => mem'[top] # Stale
  /\ UNCHANGED <<bound, base, nargs, inClosure, status, callee>>

LEMMA PushStepKeepsInv ==
  ASSUME VMInv, PushStep
  PROVE  VMInv'
<1> DEFINE s == [This EXCEPT !.ops = @ + 1]
<1>1. shape # << >> /\ callee = NoCallee /\ status = "running"
  BY ExecutingFacts DEF PushStep, Executing
<1>2. /\ top > 0 /\ top' = top - 1 /\ shape' = WithThis(s)
      /\ mem' \in [0 .. Size - 1 -> Words]
      /\ \A a \in 0 .. Size - 1 : a > top => mem'[a] = mem[a]
      /\ Fresh' => mem'[top] # Stale
      /\ UNCHANGED <<bound, base, nargs, inClosure, status, callee>>
  BY DEF PushStep
<1>3. /\ s \in FrameRecords /\ s.fn = This.fn /\ s.taken = This.taken /\ s.base = This.base
      /\ s.stored = This.stored /\ s.ops = This.ops + 1
  <2>1. This \in FrameRecords /\ This.ops + 1 \in Nat
    BY <1>1, FrameFacts, ThisFacts
  <2> QED
    BY <2>1, OpsChanged
<1>4. PICK n \in Nat : n = Len(shape) /\ 1 <= n /\ n \in 1 .. n /\ n \in DOMAIN shape
  BY <1>1, Newest, Zenon
<1>5. /\ top \in Nat /\ This.ops \in Nat /\ base \in Nat /\ base = This.base
      /\ top + This.ops = OpsBegin(n) /\ OpsBegin(n) \in Nat /\ OpsBegin(n) + 2 <= base
      /\ base <= StackBegin - 1 /\ This = shape[n]
  BY <1>1, <1>4, ThisFacts, FrameFacts
<1>6. StackBegin \in Nat /\ Size \in Nat /\ StackBegin < Size
  BY SizeFacts DEF VMInv, WholeInv, VMTypeOK
<1> HIDE DEF s
<1>7. RisksGrow /\ (Fresh' => Fresh)
  BY DEF RisksGrow, Fresh, PushStep, VMInv, WholeInv, VMTypeOK
<1>8. \A a \in 0 .. Size - 1 : a > OpsBegin(n) => mem'[a] = mem[a]
  BY <1>2, <1>5
<1>9. Fresh' /\ s.stored => mem'[base - 1] # Stale
  <2>1. base - 1 \in 0 .. Size - 1 /\ base - 1 > OpsBegin(n)
    BY <1>5, <1>6
  <2>2. Fresh /\ This.stored => mem[base - 1] # Stale
    BY <1>4, <1>5 DEF VMInv, WholeInv, StoredFresh
  <2> QED
    BY <1>3, <1>7, <1>8, <2>1, <2>2
<1>10. Fresh' => \A a \in 0 .. Size - 1 :
                   a > top' /\ mem'[a] = Stale => a > top /\ mem[a] = Stale
  <2>1. ASSUME NEW a \in 0 .. Size - 1, a > top'
        PROVE  a = top \/ a > top
    BY <1>2, <1>5, <2>1
  <2> QED
    BY <1>2, <2>1
<1>11. (IF callee' = NoCallee THEN top' ELSE top' + 1) + s.ops = OpsBegin(Len(shape))
  BY <1>1, <1>2, <1>3, <1>4, <1>5
<1>12. FlagStep
  BY <1>1, <1>2, <1>7 DEF FlagStep, RisksGrow, VMInv, WholeInv, LayoutInv, FlagOfNewest
<1>13. /\ callee' = NoCallee /\ top' \in Nat /\ inClosure' \in BOOLEAN /\ status' \in Statuses
  BY <1>1, <1>2, <1>5 DEF VMInv, WholeInv, VMTypeOK, Statuses
<1>14. \A a \in 0 .. Size - 1 : a > OpsBegin(Len(shape)) =>
         mem'[a] = mem[a] \/ (base - This.fn.nlocals <= a /\ a <= base - 1)
  BY <1>4, <1>8
<1> QED
  BY <1>1, <1>2, <1>3, <1>7, <1>9, <1>10, <1>11, <1>12, <1>13, <1>14, FramesKept

(* Where an instruction of the newest frame finds its registers.           *)
LEMMA RegisterFacts ==
  ASSUME VMInv, Executing
  PROVE  /\ shape # << >> /\ callee = NoCallee /\ status = "running"
         /\ top \in Nat /\ base \in Nat /\ nargs \in Nat /\ This.ops \in Nat
         /\ StackBegin \in Nat /\ Size \in Nat /\ StackBegin < Size /\ 0 < StackBegin
         /\ mem \in [0 .. Size - 1 -> Words] /\ inClosure \in BOOLEAN
         /\ \E n \in Nat :
              /\ n = Len(shape) /\ 1 <= n /\ n \in 1 .. n /\ DOMAIN shape = 1 .. n
              /\ n \in DOMAIN shape
              /\ This = shape[n] /\ base = BaseOf(n) /\ base = This.base /\ nargs = This.fn.nargs
              /\ top + This.ops = OpsBegin(n) /\ OpsBegin(n) \in Nat /\ OpsBegin(n) + 2 <= base
              /\ OpsBegin(n) + This.fn.nlocals + 2 = base
              /\ base <= StackBegin - 1 /\ top <= OpsBegin(n)
<1>1. shape # << >> /\ callee = NoCallee /\ status = "running"
  BY ExecutingFacts DEF Executing
<1>2. PICK n \in Nat : /\ n = Len(shape) /\ 1 <= n /\ n \in 1 .. n /\ DOMAIN shape = 1 .. n
                       /\ n \in DOMAIN shape
  BY <1>1, Newest, Zenon
<1>3. /\ This.ops \in Nat /\ base \in Nat /\ top \in Nat /\ nargs \in Nat
      /\ base = This.base /\ nargs = This.fn.nargs /\ base = BaseOf(n)
      /\ top + This.ops = OpsBegin(n)
  BY <1>1, <1>2, ThisFacts
<1>4. /\ OpsBegin(n) \in Nat /\ OpsBegin(n) + 2 <= BaseOf(n) /\ BaseOf(n) <= StackBegin - 1
      /\ top <= OpsBegin(n) /\ This = shape[n]
      /\ OpsBegin(n) + shape[n].fn.nlocals + 2 = BaseOf(n)
  BY <1>1, <1>2, FrameFacts
<1>5. /\ StackBegin \in Nat /\ Size \in Nat /\ StackBegin < Size /\ 0 < StackBegin
      /\ mem \in [0 .. Size - 1 -> Words] /\ inClosure \in BOOLEAN
  BY SizeFacts DEF VMInv, WholeInv, VMTypeOK
<1> QED
  BY <1>1, <1>2, <1>3, <1>4, <1>5

(* A word that is scanned and below no base.                               *)
Apart(a) == a \in Scanned /\ \A k \in DOMAIN shape : a # shape[k].base - 1

LEMMA ApartFresh ==
  ASSUME VMInv, NEW a, Apart(a)
  PROVE  mem[a] \in Words /\ (Fresh => mem[a] # Stale)
<1>1. mem \in [0 .. Size - 1 -> Words] /\ top \in Nat /\ Size \in Nat
  BY SizeFacts DEF VMInv, WholeInv, VMTypeOK
<1>2. a \in 0 .. Size - 1
  BY <1>1 DEF Apart, Scanned
<1> QED
  BY <1>1, <1>2 DEF Apart, VMInv, WholeInv, StaleAtBases

(* What the running function can read is a word, and no pointer to where an*)
(* object was but for a local 0 that was not assigned.                     *)
LEMMA ArgumentApart ==
  ASSUME VMInv, Executing, NEW k \in ArgIndices
  PROVE  Apart(ArgAddress(k))
<1>1. PICK n \in Nat :
        /\ n = Len(shape) /\ 1 <= n /\ n \in 1 .. n /\ DOMAIN shape = 1 .. n
        /\ This = shape[n] /\ base = BaseOf(n) /\ nargs = This.fn.nargs
        /\ OpsBegin(n) \in Nat /\ OpsBegin(n) + 2 <= base
        /\ base <= StackBegin - 1 /\ top <= OpsBegin(n)
  BY RegisterFacts
<1>2. /\ shape # << >> /\ top \in Nat /\ base \in Nat /\ nargs \in Nat
      /\ StackBegin \in Nat /\ Size \in Nat /\ StackBegin < Size
  BY RegisterFacts
<1>3. Len(shape) > 1 /\ k \in 0 .. nargs - 1
  <2>1. k \in IF Len(shape) > 1 THEN 0 .. nargs - 1 ELSE {}
    BY <1>1 DEF ArgIndices
  <2> QED
    BY <2>1
<1> DEFINE a == base + 2 + nargs - k
<1>4. /\ Ceiling(n) \in Nat /\ Ceiling(n) <= StackBegin - 3
      /\ Ceiling(n) = base + 2 + nargs + This.taken /\ This.taken \in Nat
      /\ \A i \in 1 .. n : i < n => Ceiling(n) <= OpsBegin(i)
      /\ \A i \in 1 .. n : OpsBegin(i) + 2 <= BaseOf(i) /\ OpsBegin(i) \in Nat /\ BaseOf(i) \in Nat
  BY <1>1, <1>2, <1>3, FrameFacts, ThisFacts, RecordFacts
<1>5. a \in Nat /\ a <= Ceiling(n) /\ base < a
  <2> DEFINE t == This.taken
             c == Ceiling(n)
  <2>1. c = base + 2 + nargs + t /\ t \in Nat
    BY <1>4
  <2> HIDE DEF t, c
  <2>2. a \in Nat /\ a <= c /\ base < a
    BY <1>2, <1>3, <2>1
  <2> QED
    BY <2>2 DEF c
<1>8. ArgAddress(k) = a
  BY DEF ArgAddress
<1> HIDE DEF a
<1>6. a \in top + 1 .. Size - 1
  <2>1. PICK c \in Nat, p \in Nat : c = Ceiling(n) /\ p = OpsBegin(n)
    BY <1>1, <1>4
  <2>2. /\ top <= p /\ p + 2 <= base /\ base < a /\ a <= c /\ c <= StackBegin - 3
        /\ StackBegin < Size
    BY <1>1, <1>2, <1>4, <1>5, <2>1
  <2> QED
    BY <1>2, <1>5, <2>1, <2>2
<1>7. ASSUME NEW i \in 1 .. n
      PROVE  a # shape[i].base - 1
  <2>1. i = n \/ (Ceiling(n) <= OpsBegin(i) /\ OpsBegin(i) + 2 <= BaseOf(i)
                   /\ OpsBegin(i) \in Nat /\ BaseOf(i) \in Nat)
    <3>1. i = n \/ i < n
      BY <1>1
    <3> QED
      BY <1>4, <3>1
  <2>2. PICK c \in Nat, b \in Nat : c = Ceiling(n) /\ b = BaseOf(i)
    BY <1>4
  <2>3. CASE i = n
    BY <1>1, <1>2, <1>5, <2>3 DEF BaseOf
  <2>4. CASE i # n
    <3>1. PICK p \in Nat : p = OpsBegin(i) /\ c <= p /\ p + 2 <= b
      BY <2>1, <2>2, <2>4
    <3>2. a <= c
      BY <1>5, <2>2
    <3>3. a # b - 1
      BY ONLY <1>5, <3>1, <3>2, c \in Nat, b \in Nat
    <3> QED
      BY <2>2, <3>3 DEF BaseOf
  <2> QED
    BY <2>3, <2>4
<1> QED
  BY <1>1, <1>6, <1>7, <1>8 DEF Apart, Scanned

LEMMA LocalPlace ==
  ASSUME VMInv, Executing, NEW k \in LocalIndices
  PROVE  /\ LocalAddress(k) = base - 1 - k
         /\ LocalAddress(k) \in 0 .. Size - 1 /\ LocalAddress(k) > OpsBegin(Len(shape)) + 1
         /\ LocalAddress(k) \in base - This.fn.nlocals .. base - 1
         /\ k \in Nat
         /\ k # 0 => LocalAddress(k) # base - 1 /\ Apart(LocalAddress(k))
<1>1. PICK n \in Nat :
        /\ n = Len(shape) /\ 1 <= n /\ n \in 1 .. n /\ DOMAIN shape = 1 .. n
        /\ This = shape[n] /\ base = BaseOf(n)
        /\ OpsBegin(n) \in Nat /\ OpsBegin(n) + This.fn.nlocals + 2 = base
        /\ base <= StackBegin - 1 /\ top <= OpsBegin(n)
  BY RegisterFacts
<1>2. /\ shape # << >> /\ top \in Nat /\ base \in Nat
      /\ StackBegin \in Nat /\ Size \in Nat /\ StackBegin < Size
  BY RegisterFacts
<1>3. PICK l \in Nat : l = This.fn.nlocals
  BY <1>2, FrameFacts, RecordFacts
<1>4. k \in 0 .. l - 1
  BY <1>3 DEF LocalIndices
<1> DEFINE a == base - 1 - k
<1>5. /\ a \in 0 .. Size - 1 /\ a > OpsBegin(n) + 1 /\ a \in base - l .. base - 1
      /\ a \in top + 1 .. Size - 1 /\ (k # 0 => a < base - 1) /\ a <= base - 1
  <2>1. PICK p \in Nat : p = OpsBegin(n)
    BY <1>1
  <2>2. p + l + 2 = base /\ base <= StackBegin - 1 /\ top <= p /\ StackBegin < Size
    BY <1>1, <1>2, <1>3, <2>1
  <2>3. /\ a \in 0 .. Size - 1 /\ a > p + 1 /\ a \in base - l .. base - 1
        /\ a \in top + 1 .. Size - 1 /\ (k # 0 => a < base - 1) /\ a <= base - 1
    BY <1>2, <1>4, <2>2
  <2> QED
    BY <2>1, <2>3
<1>6. ASSUME NEW i \in 1 .. n, k # 0
      PROVE  a # shape[i].base - 1
  <2>1. /\ OpsBegin(i) + 2 <= BaseOf(i) /\ OpsBegin(i) \in Nat /\ BaseOf(i) \in Nat
        /\ Ceiling(n) \in Nat /\ BaseOf(n) + 2 <= Ceiling(n)
        /\ (i < n => Ceiling(n) <= OpsBegin(i))
    BY <1>1, <1>2, FrameFacts
  <2>2. PICK c \in Nat, b \in Nat, p \in Nat : c = Ceiling(n) /\ b = BaseOf(i) /\ p = OpsBegin(i)
    BY <2>1
  <2> HIDE DEF a
  <2>3. a \in Nat /\ a < base - 1
    BY <1>5, <1>6
  <2>4. CASE i = n
    BY <1>1, <1>2, <2>3, <2>4 DEF BaseOf
  <2>5. CASE i # n
    <3>1. i < n
      BY <2>5
    <3>2. base + 2 <= c /\ c <= p /\ p + 2 <= b
      BY <1>1, <2>1, <2>2, <3>1
    <3>3. a # b - 1
      BY ONLY <1>2, <2>3, <3>2, c \in Nat, b \in Nat, p \in Nat
    <3> QED
      BY <2>2, <3>3 DEF BaseOf
  <2> QED
    BY <2>4, <2>5
<1>7. LocalAddress(k) = a
  BY DEF LocalAddress
<1>8. k # 0 => Apart(a)
  BY <1>1, <1>5, <1>6 DEF Apart, Scanned
<1>9. k # 0 => a # base - 1
  BY <1>2, <1>5
<1> HIDE DEF a
<1> QED
  BY <1>1, <1>3, <1>4, <1>5, <1>7, <1>8, <1>9 DEF a

LEMMA LocalFresh ==
  ASSUME VMInv, Executing, NEW k \in LocalIndices
  PROVE  /\ mem[LocalAddress(k)] \in Words
         /\ Fresh /\ ~IsUnset(k) => mem[LocalAddress(k)] # Stale
<1>1. /\ mem \in [0 .. Size - 1 -> Words] /\ LocalAddress(k) \in 0 .. Size - 1
  BY RegisterFacts, LocalPlace
<1>2. CASE k # 0
  BY <1>1, <1>2, LocalPlace, ApartFresh
<1>3. CASE k = 0
  <2>1. PICK n \in Nat : n \in DOMAIN shape /\ This = shape[n] /\ base = This.base /\ base \in Nat
    BY RegisterFacts
  <2>2. LocalAddress(k) = base - 1
    BY <1>3, <2>1 DEF LocalAddress
  <2>3. ~IsUnset(k) => This.stored
    BY <1>3 DEF IsUnset
  <2> QED
    BY <1>1, <2>1, <2>2, <2>3 DEF VMInv, WholeInv, StoredFresh
<1> QED
  BY <1>2, <1>3

LEMMA GlobalApart ==
  ASSUME VMInv, Executing, NEW a \in GlobalAddresses
  PROVE  Apart(a)
<1>1. PICK n \in Nat : n = Len(shape) /\ DOMAIN shape = 1 .. n
  BY RegisterFacts
<1>2. /\ shape # << >> /\ top \in Nat /\ StackBegin \in Nat /\ Size \in Nat /\ StackBegin < Size
      /\ top <= StackBegin
  BY RegisterFacts DEF VMInv, WholeInv, VMTypeOK
<1>3. a \in StackBegin + 1 .. Size - 1
  BY DEF GlobalAddresses
<1>4. ASSUME NEW i \in 1 .. n
      PROVE  a # shape[i].base - 1
  <2>1. BaseOf(i) \in Nat /\ BaseOf(i) <= StackBegin - 1
    BY <1>1, <1>2, FrameFacts
  <2>2. a # BaseOf(i) - 1
    BY <1>2, <1>3, <2>1
  <2> QED
    BY <2>2 DEF BaseOf
<1> QED
  BY <1>1, <1>2, <1>3, <1>4 DEF Apart, Scanned

(* A value that comes from nowhere but the instruction.                    *)
LEMMA ValueFacts ==
  ASSUME NEW v \in Values
  PROVE  v \in Words /\ v # Stale
BY DEF Values, Int1, Closure, Stale, Word, Words

LEMMA PushesWord ==
  ASSUME VMInv, NEW w \in Words, NEW unset \in BOOLEAN,
         Fresh /\ ~unset => w # Stale, PushOperand(w), Noting(unset)
  PROVE  PushStep /\ mem'[top] = w
<1>1. /\ Executing /\ top > 0 /\ mem' = [mem EXCEPT ![top] = w] /\ top' = top - 1
      /\ shape' = WithThis([This EXCEPT !.ops = @ + 1])
      /\ UNCHANGED <<bound, base, nargs, inClosure, status, callee>>
  BY DEF PushOperand, PushWord
<1>2. /\ mem \in [0 .. Size - 1 -> Words] /\ top \in 0 .. Size - 1
  <2>1. /\ top \in Nat /\ StackBegin \in Nat /\ Size \in Nat /\ StackBegin < Size
        /\ mem \in [0 .. Size - 1 -> Words] /\ top <= StackBegin
    BY SizeFacts DEF VMInv, WholeInv, VMTypeOK
  <2> QED
    BY <2>1
<1>3. /\ mem' \in [0 .. Size - 1 -> Words] /\ mem'[top] = w
      /\ \A a \in 0 .. Size - 1 : a > top => mem'[a] = mem[a]
  BY <1>1, <1>2
<1>4. /\ risks' \in {risks, risks \cup {"unset"}}
      /\ Fresh' => Fresh /\ ~unset
  BY DEF Noting, Fresh
<1> QED
  BY <1>1, <1>3, <1>4 DEF PushStep

(* What a closure captures are words; the temporaries lie below it.        *)
LEMMA CapturedWords ==
  ASSUME VMInv, Executing, NEW c \in Capturable
  PROVE  c.word \in Words
<1>1. CASE \E a \in GlobalAddresses : c = Captured(mem[a], FALSE)
  BY <1>1, GlobalApart, ApartFresh DEF Captured
<1>2. CASE \E k \in ReadableLocals : c = Captured(mem[LocalAddress(k)], IsUnset(k))
  BY <1>2, LocalFresh DEF Captured, ReadableLocals
<1>3. CASE \E k \in ArgIndices : c = Captured(mem[ArgAddress(k)], FALSE)
  BY <1>3, ArgumentApart, ApartFresh DEF Captured
<1>4. CASE \E v \in Values : c = Captured(v, FALSE)
  BY <1>4, ValueFacts DEF Captured
<1> QED
  BY <1>1, <1>2, <1>3, <1>4 DEF Capturable

LEMMA PushesClosure ==
  ASSUME VMInv, MakeClosure
  PROVE  PushStep /\ mem'[top] = Closure
<1>1. PICK n \in 0 .. bound.captures :
        /\ Executing
        /\ HasTemporaries(n)
        /\ \E c \in [1 .. n -> Capturable] :
             /\ mem' = [a \in 0 .. Size - 1 |->
                          IF a = top THEN Closure
                          ELSE IF a \in top - n + 1 .. top - 1 THEN c[top - a + 1].word
                          ELSE mem[a]]
             /\ Noting(\E i \in 1 .. n : c[i].unset)
        /\ top' = top - 1
        /\ shape' = WithThis([This EXCEPT !.ops = @ + 1])
        /\ UNCHANGED <<bound, base, nargs, inClosure, status, callee>>
  BY DEF MakeClosure
<1>2. PICK c \in [1 .. n -> Capturable] :
        /\ mem' = [a \in 0 .. Size - 1 |->
                     IF a = top THEN Closure
                     ELSE IF a \in top - n + 1 .. top - 1 THEN c[top - a + 1].word
                     ELSE mem[a]]
        /\ Noting(\E i \in 1 .. n : c[i].unset)
  BY <1>1
<1>3. /\ top \in Nat /\ StackBegin \in Nat /\ Size \in Nat /\ StackBegin < Size
      /\ mem \in [0 .. Size - 1 -> Words] /\ top <= StackBegin /\ bound.captures \in Nat
  BY SizeFacts DEF VMInv, WholeInv, VMTypeOK
<1>4. n \in Nat /\ top \in 0 .. Size - 1
  BY <1>3
<1>5. ASSUME NEW a \in top - n + 1 .. top - 1
      PROVE  c[top - a + 1].word \in Words
  <2>1. top - a + 1 \in 1 .. n
    BY <1>3, <1>4
  <2> QED
    BY <1>1, <1>2, <2>1, CapturedWords
<1>6. Closure \in Words /\ Closure # Stale
  BY ValueFacts DEF Values
<1>7. mem' \in [0 .. Size - 1 -> Words] /\ mem'[top] = Closure
  BY <1>2, <1>3, <1>4, <1>5, <1>6
<1>8. ASSUME NEW a \in 0 .. Size - 1, a > top
      PROVE  mem'[a] = mem[a]
  <2>1. a # top /\ a \notin top - n + 1 .. top - 1
    BY <1>3, <1>8
  <2> QED
    BY <1>2, <2>1
<1>9. risks' \in {risks, risks \cup {"unset"}}
  BY <1>2 DEF Noting
<1>10. top > 0
  BY <1>1 DEF HasTemporaries
<1> QED
  BY <1>1, <1>6, <1>7, <1>8, <1>9, <1>10 DEF PushStep

(* The instructions that push.                                             *)
LEMMA PushesConst ==
  ASSUME VMInv, Const
  PROVE  PushStep /\ mem'[top] = Int1
<1>1. Int1 \in Words /\ Int1 # Stale
  BY ValueFacts DEF Values
<1>2. Noting(FALSE) /\ PushOperand(Int1)
  BY DEF Const, Noting
<1> QED
  BY <1>1, <1>2, PushesWord

LEMMA PushesArg ==
  ASSUME VMInv, LoadArg
  PROVE  \E k \in ArgIndices : Executing /\ PushStep /\ mem'[top] = mem[ArgAddress(k)]
<1>1. PICK k \in ArgIndices : PushOperand(mem[ArgAddress(k)]) /\ UNCHANGED risks
  BY DEF LoadArg
<1>2. Executing /\ Noting(FALSE)
  BY <1>1 DEF PushOperand, Noting
<1>3. mem[ArgAddress(k)] \in Words /\ (Fresh => mem[ArgAddress(k)] # Stale)
  BY <1>2, ArgumentApart, ApartFresh
<1> QED
  BY <1>1, <1>2, <1>3, PushesWord

LEMMA PushesLocal ==
  ASSUME VMInv, LoadLocal
  PROVE  \E k \in LocalIndices : Executing /\ PushStep /\ mem'[top] = mem[LocalAddress(k)]
<1>1. PICK k \in LocalIndices :
        Executing /\ PushOperand(mem[LocalAddress(k)]) /\ Noting(IsUnset(k))
  BY DEF LoadLocal, ReadableLocals
<1>2. /\ mem[LocalAddress(k)] \in Words
      /\ Fresh /\ ~IsUnset(k) => mem[LocalAddress(k)] # Stale
  BY <1>1, LocalFresh
<1>3. IsUnset(k) \in BOOLEAN
  BY DEF IsUnset
<1> QED
  BY <1>1, <1>2, <1>3, PushesWord

LEMMA DropKeepsInv ==
  ASSUME VMInv, Drop
  PROVE  VMInv'
<1> DEFINE s == [This EXCEPT !.ops = @ - 1]
<1>1. /\ Executing /\ This.ops > 0 /\ top' = top + 1 /\ shape' = WithThis(s)
      /\ UNCHANGED <<bound, mem, base, nargs, inClosure, status, callee, risks>>
  BY DEF Drop
<1>2. /\ shape # << >> /\ callee = NoCallee /\ status = "running"
      /\ top \in Nat /\ This.ops \in Nat /\ Size \in Nat
      /\ mem \in [0 .. Size - 1 -> Words] /\ inClosure \in BOOLEAN
  BY <1>1, RegisterFacts
<1>3. PICK n \in Nat :
        /\ n = Len(shape) /\ n \in DOMAIN shape /\ This = shape[n] /\ base = This.base
        /\ top + This.ops = OpsBegin(n) /\ OpsBegin(n) \in Nat
  BY <1>1, RegisterFacts
<1>4. /\ s \in FrameRecords /\ s.fn = This.fn /\ s.taken = This.taken /\ s.base = This.base
      /\ s.stored = This.stored /\ s.ops = This.ops - 1
  <2>1. This.ops - 1 \in Nat /\ This \in FrameRecords
    BY <1>1, <1>2, FrameFacts
  <2> QED
    BY <2>1, OpsChanged
<1> HIDE DEF s
<1>5. Fresh' /\ s.stored => mem'[base - 1] # Stale
  BY <1>1, <1>3, <1>4 DEF VMInv, WholeInv, StoredFresh, Fresh
<1>6. top' \in Nat /\ top' > top
  BY <1>1, <1>2
<1>7. Fresh' => \A a \in 0 .. Size - 1 :
                  a > top' /\ mem'[a] = Stale => a > top /\ mem[a] = Stale
  BY <1>1, <1>2
<1>8. (IF callee' = NoCallee THEN top' ELSE top' + 1) + s.ops = OpsBegin(Len(shape))
  BY <1>1, <1>2, <1>3, <1>4, SMTT(30)
<1>9. FlagStep /\ RisksGrow
  BY <1>1, <1>2
  DEF FlagStep, RisksGrow, VMInv, WholeInv, LayoutInv, FlagOfNewest, VMTypeOK
<1>10. callee' = NoCallee /\ inClosure' \in BOOLEAN /\ status' \in Statuses
  BY <1>1, <1>2 DEF Statuses
<1>11. \A a \in 0 .. Size - 1 : a > OpsBegin(Len(shape)) =>
         mem'[a] = mem[a] \/ (base - This.fn.nlocals <= a /\ a <= base - 1)
  BY <1>1
<1> QED
  BY <1>1, <1>2, <1>4, <1>5, <1>6, <1>7, <1>8, <1>9, <1>10, <1>11, FramesKept

(* The top operand follows its object: it is no word below a base.         *)
LEMMA TopFresh ==
  ASSUME VMInv, Executing, This.ops > 0
  PROVE  /\ top + 1 \in 0 .. Size - 1 /\ top + 1 <= OpsBegin(Len(shape))
         /\ mem[top + 1] \in Words /\ (Fresh => mem[top + 1] # Stale)
<1>1. /\ shape # << >> /\ top \in Nat /\ This.ops \in Nat /\ Size \in Nat /\ StackBegin \in Nat
      /\ StackBegin < Size
  BY RegisterFacts
<1>2. PICK n \in Nat :
        /\ n = Len(shape) /\ n \in 1 .. n /\ DOMAIN shape = 1 .. n /\ base = BaseOf(n)
        /\ top + This.ops = OpsBegin(n) /\ OpsBegin(n) \in Nat
        /\ OpsBegin(n) + 2 <= base /\ base \in Nat /\ base <= StackBegin - 1
  BY RegisterFacts
<1>3. /\ top + 1 <= OpsBegin(n) /\ top + 1 \in 0 .. Size - 1 /\ top + 1 < base - 1
      /\ top + 1 \in top + 1 .. Size - 1
  BY <1>1, <1>2
<1>4. ASSUME NEW k \in DOMAIN shape
      PROVE  top + 1 # shape[k].base - 1
  <2>1. k \in 1 .. n /\ (k = n \/ k < n)
    BY <1>2
  <2>2. /\ BaseOf(k) \in Nat /\ OpsBegin(k) \in Nat /\ OpsBegin(k) + 2 <= BaseOf(k)
        /\ (k < n => Ceiling(n) <= OpsBegin(k))
        /\ Ceiling(n) \in Nat /\ BaseOf(n) + 2 <= Ceiling(n)
    BY <1>1, <1>2, <2>1, FrameFacts
  <2>3. top + 1 # BaseOf(k) - 1
    BY <1>1, <1>2, <1>3, <2>1, <2>2, SMTT(30)
  <2> QED
    BY <2>3 DEF BaseOf
<1>5. Apart(top + 1)
  BY <1>3, <1>4 DEF Apart, Scanned
<1> QED
  BY <1>2, <1>3, <1>5, ApartFresh

LEMMA StoreKeepsInv ==
  ASSUME VMInv, StoreLocal
  PROVE  VMInv'
<1>0. PICK k \in LocalIndices :
        /\ mem' = [mem EXCEPT ![LocalAddress(k)] = mem[top + 1]]
        /\ shape' = WithThis([This EXCEPT !.stored = @ \/ k = 0])
  BY DEF StoreLocal
<1> DEFINE s == [This EXCEPT !.stored = @ \/ k = 0]
<1>1. /\ Executing /\ This.ops > 0 /\ shape' = WithThis(s)
      /\ UNCHANGED <<bound, top, base, nargs, inClosure, status, callee, risks>>
  BY <1>0 DEF StoreLocal
<1>2. /\ shape # << >> /\ callee = NoCallee /\ status = "running"
      /\ top \in Nat /\ This.ops \in Nat /\ Size \in Nat /\ StackBegin \in Nat
      /\ StackBegin < Size /\ base \in Nat
      /\ mem \in [0 .. Size - 1 -> Words] /\ inClosure \in BOOLEAN
  BY <1>1, RegisterFacts
<1>3. PICK n \in Nat :
        /\ n = Len(shape) /\ n \in DOMAIN shape /\ This = shape[n] /\ base = This.base
        /\ top + This.ops = OpsBegin(n) /\ OpsBegin(n) \in Nat /\ OpsBegin(n) + 2 <= base
        /\ base <= StackBegin - 1
  BY <1>1, RegisterFacts
<1>4. /\ s \in FrameRecords /\ s.fn = This.fn /\ s.taken = This.taken /\ s.base = This.base
      /\ s.ops = This.ops /\ s.stored = (This.stored \/ k = 0)
  <2>1. This \in FrameRecords /\ (This.stored \/ k = 0) \in BOOLEAN
    BY <1>2, FrameFacts
  <2> QED
    BY <2>1, <1>2, RecordFacts DEF FrameRecords
<1> HIDE DEF s
<1>5. PICK b \in 0 .. Size - 1 :
        /\ b = LocalAddress(k) /\ b \in base - This.fn.nlocals .. base - 1
        /\ (k = 0 => b = base - 1) /\ (k # 0 => b # base - 1)
  <2>1. k = 0 => LocalAddress(k) = base - 1
    BY <1>2 DEF LocalAddress
  <2> QED
    BY <1>1, <2>1, LocalPlace
<1>6. base - 1 \in 0 .. Size - 1
  BY <1>2, <1>3
<1>7. /\ top + 1 \in 0 .. Size - 1 /\ mem[top + 1] \in Words
      /\ (Fresh => mem[top + 1] # Stale)
  BY <1>1, TopFresh
<1>8. /\ mem' \in [0 .. Size - 1 -> Words] /\ mem'[b] = mem[top + 1]
      /\ \A a \in 0 .. Size - 1 : a # b => mem'[a] = mem[a]
  BY <1>0, <1>2, <1>5, <1>7
<1>9. Fresh' = Fresh
  BY <1>1 DEF Fresh
<1>10. Fresh' => \A a \in 0 .. Size - 1 :
                   a > top' /\ mem'[a] = Stale => a > top /\ mem[a] = Stale
  BY <1>1, <1>7, <1>8, <1>9
<1>11. (IF callee' = NoCallee THEN top' ELSE top' + 1) + s.ops = OpsBegin(Len(shape))
  BY <1>1, <1>2, <1>3, <1>4
<1>12. FlagStep /\ RisksGrow
  BY <1>1, <1>2
  DEF FlagStep, RisksGrow, VMInv, WholeInv, LayoutInv, FlagOfNewest, VMTypeOK
<1>13. \A a \in 0 .. Size - 1 : a > OpsBegin(Len(shape)) =>
         mem'[a] = mem[a] \/ (base - This.fn.nlocals <= a /\ a <= base - 1)
  <2>1. PICK l \in Nat : l = This.fn.nlocals
    BY <1>2, FrameFacts, RecordFacts
  <2>2. base - l <= b /\ b <= base - 1
    BY <1>2, <1>5, <2>1
  <2> QED
    BY <1>8, <2>1, <2>2
<1>14. Fresh' /\ s.stored => mem'[base - 1] # Stale
  <2>1. CASE k = 0
    BY <1>5, <1>7, <1>8, <1>9, <2>1
  <2>2. CASE k # 0
    <3>1. mem'[base - 1] = mem[base - 1] /\ s.stored = This.stored
      <4>1. (This.stored \/ k = 0) = This.stored
        <5>1. This.stored \in BOOLEAN
          BY <1>2, FrameFacts, RecordFacts
        <5> QED
          BY <2>2, <5>1
      <4> QED
        BY <1>4, <1>5, <1>6, <1>8, <2>2, <4>1
    <3>2. Fresh /\ This.stored => mem[base - 1] # Stale
      BY <1>3 DEF VMInv, WholeInv, StoredFresh
    <3> QED
      BY <1>9, <3>1, <3>2
  <2> QED
    BY <2>1, <2>2
<1>15. callee' = NoCallee /\ top' \in Nat /\ inClosure' \in BOOLEAN /\ status' \in Statuses
  BY <1>1, <1>2 DEF Statuses
<1> QED
  BY <1>1, <1>2, <1>4, <1>8, <1>10, <1>11, <1>12, <1>13, <1>14, <1>15, FramesKept

-----------------------------------------------------------------------------
(***************************************************************************)
(* Calls                                                                   *)
(***************************************************************************)

(* A return address is pushed for a function whose arguments are there.    *)
CallsWith(f, taken, site) ==
  /\ MayCall
  /\ This.ops >= f.nargs + taken
  /\ PushWord(Word("ret", site))
  /\ callee' = [fn |-> f, taken |-> taken]
  /\ inClosure' = IF taken = 1 THEN TRUE ELSE inClosure
  /\ UNCHANGED <<bound, base, nargs, status, shape>>

LEMMA CallKeepsInv ==
  ASSUME VMInv, NEW f \in Shapes, NEW taken \in 0 .. 1, NEW site \in Sites,
         CallsWith(f, taken, site)
  PROVE  VMInv'
<1> DEFINE w == Word("ret", site)
           c == [fn |-> f, taken |-> taken]
<1>1. /\ Executing /\ This.ops >= f.nargs + taken
      /\ top > 0 /\ mem' = [mem EXCEPT ![top] = w] /\ top' = top - 1
      /\ callee' = c /\ inClosure' = (IF taken = 1 THEN TRUE ELSE inClosure)
      /\ risks' = (IF This.taken = 1 THEN risks \cup {"nested"} ELSE risks)
      /\ UNCHANGED <<bound, base, nargs, status, shape>>
  BY DEF CallsWith, MayCall, PushWord
<1>2. /\ shape # << >> /\ status = "running"
      /\ top \in Nat /\ This.ops \in Nat /\ Size \in Nat /\ StackBegin \in Nat
      /\ StackBegin < Size /\ base \in Nat /\ mem \in [0 .. Size - 1 -> Words]
      /\ inClosure \in BOOLEAN
  BY <1>1, RegisterFacts
<1>3. PICK n \in Nat :
        /\ n = Len(shape) /\ n \in DOMAIN shape /\ This = shape[n] /\ base = This.base
        /\ top + This.ops = OpsBegin(n) /\ OpsBegin(n) \in Nat /\ OpsBegin(n) + 2 <= base
        /\ base <= StackBegin - 1 /\ top <= OpsBegin(n)
  BY <1>1, RegisterFacts
<1>4. w \in Words /\ w # Stale
  BY StackAssumption DEF Words, Word, Stale
<1>5. /\ mem' \in [0 .. Size - 1 -> Words]
      /\ \A a \in 0 .. Size - 1 : a # top => mem'[a] = mem[a]
      /\ mem'[top] = w
  <2>1. top \in 0 .. Size - 1
    BY <1>2, <1>3
  <2> QED
    BY <1>1, <1>2, <1>4, <2>1
<1>6. callee' \in [fn : Shapes, taken : 0 .. 1] /\ callee' # NoCallee
        /\ callee'.fn = f /\ callee'.taken = taken
  <2>1. c.taken # -1 /\ NoCallee.taken = -1
    BY DEF NoCallee
  <2> QED
    BY <1>1, <2>1
<1> HIDE DEF c, w
<1>7. Fresh' => \A a \in 0 .. Size - 1 :
                  a > top' /\ mem'[a] = Stale => a > top /\ mem[a] = Stale
  BY <1>1, <1>2, <1>4, <1>5
<1>r. RisksGrow /\ (Fresh' => Fresh)
  <2>1. risks \subseteq {"unset", "nested"}
    BY DEF VMInv, WholeInv, VMTypeOK
  <2> QED
    BY <1>1, <2>1 DEF RisksGrow, Fresh
<1>8. \A a \in 0 .. Size - 1 : a > OpsBegin(n) => mem'[a] = mem[a]
  <2>1. PICK e \in Nat : e = OpsBegin(n) /\ top <= e
    BY <1>3
  <2>2. ASSUME NEW a \in 0 .. Size - 1, a > e
        PROVE  a # top
    <3>1. top \in Nat /\ a \in Nat /\ top <= e /\ e < a
      BY <1>2, <2>1, <2>2
    <3> QED
      BY <3>1
  <2> QED
    BY ONLY <1>5, <2>1, <2>2
<1>9. Fresh' /\ This.stored => mem'[base - 1] # Stale
  <2>1. base - 1 \in 0 .. Size - 1 /\ base - 1 > OpsBegin(n)
    BY <1>2, <1>3
  <2>2. Fresh /\ This.stored => mem[base - 1] # Stale
    BY <1>3 DEF VMInv, WholeInv, StoredFresh
  <2> QED
    BY <1>8, <1>r, <2>1, <2>2
<1>10. shape' = WithThis(This) /\ This \in FrameRecords
  <2>1. shape \in Seq(FrameRecords) /\ This \in FrameRecords
    BY <1>2, FrameFacts DEF VMInv, WholeInv, LayoutInv, HistoryTypes
  <2>2. Append(Front(shape), Last(shape)) = shape
    BY <1>2, <2>1, FrontLast
  <2> QED
    BY <1>1, <2>1, <2>2 DEF WithThis, This
<1>11. (IF callee' = NoCallee THEN top' ELSE top' + 1) + This.ops = OpsBegin(Len(shape))
  BY <1>1, <1>2, <1>3, <1>6
<1>12. FlagStep
  <2> SUFFICES ASSUME "nested" \notin risks'
               PROVE  This.taken = 0 /\ inClosure' = (callee'.taken = 1)
    BY <1>6 DEF FlagStep
  <2>1. "nested" \notin risks /\ This.taken # 1
    BY <1>1
  <2>2. This.taken \in 0 .. 1
    BY <1>2, FrameFacts DEF FrameRecords
  <2>3. This.taken = 0
    BY <2>1, <2>2
  <2>4. inClosure = (This.taken = 1)
    BY <1>1, <1>2, <2>1 DEF VMInv, WholeInv, LayoutInv, FlagOfNewest, Executing
  <2>5. inClosure = FALSE
    BY <1>2, <2>1, <2>4
  <2>6. CASE taken = 1
    <3>1. inClosure' = TRUE /\ (callee'.taken = 1) = TRUE
      BY <1>1, <1>6, <2>6
    <3> QED
      BY <2>3, <3>1, Zenon
  <2>7. CASE taken = 0
    <3>1. (callee'.taken = 1) = FALSE
      BY <1>6, <2>7
    <3>2. inClosure' = FALSE
      BY <1>1, <2>5, <2>7
    <3> QED
      BY <2>3, <3>1, <3>2, Zenon
  <2> QED
    BY <2>6, <2>7
<1>13. /\ top' \in Nat /\ inClosure' \in BOOLEAN /\ status' \in Statuses
       /\ This.ops >= callee'.fn.nargs + callee'.taken
  <2>1. top' \in Nat
    BY <1>1, <1>2
  <2>2. This.ops >= callee'.fn.nargs + callee'.taken
    BY <1>1, <1>6
  <2>3. inClosure' \in BOOLEAN
    BY <1>1, <1>2
  <2>4. status' \in Statuses
    BY <1>1, <1>2 DEF Statuses
  <2> QED
    BY <2>1, <2>2, <2>3, <2>4
<1>14. \A a \in 0 .. Size - 1 : a > OpsBegin(Len(shape)) =>
         mem'[a] = mem[a] \/ (base - This.fn.nlocals <= a /\ a <= base - 1)
  BY <1>3, <1>8
<1> QED
  BY <1>1, <1>2, <1>3, <1>5, <1>6, <1>7, <1>r, <1>9, <1>10, <1>11, <1>12, <1>13, <1>14, FramesKept

(* Both call instructions are of this form.                                *)
LEMMA CallForms ==
  ASSUME VMInv, Call \/ CallClosure
  PROVE  \E f \in Shapes, site \in Sites, taken \in 0 .. 1 :
           /\ CallsWith(f, taken, site)
           /\ taken = 1 => CallClosure /\ mem[top + 1 + f.nargs] = Closure
<1>1. CASE Call
  <2>0. bound.fns \subseteq Shapes
    BY SizeFacts DEF VMInv, WholeInv, VMTypeOK
  <2>1. PICK f \in Shapes, site \in Sites :
          /\ This.ops >= f.nargs
          /\ PushWord(Word("ret", site))
          /\ callee' = [fn |-> f, taken |-> 0]
    BY <1>1, <2>0 DEF Call
  <2>2. MayCall /\ UNCHANGED <<bound, base, nargs, inClosure, status, shape>>
    BY <1>1 DEF Call
  <2>3. inClosure' = (IF 0 = 1 THEN TRUE ELSE inClosure)
    BY <2>2
  <2>4. This.ops >= f.nargs + 0
    <3>1. f.nargs + 0 = f.nargs
      BY StackAssumption
    <3> QED
      BY <2>1, <3>1
  <2>5. CallsWith(f, 0, site)
    BY <2>1, <2>2, <2>3, <2>4, Zenon DEF CallsWith
  <2>6. 0 \in 0 .. 1 /\ 0 # 1
    OBVIOUS
  <2> QED
    BY <2>5, <2>6, Zenon
<1>2. CASE CallClosure
  <2>0. bound.fns \subseteq Shapes
    BY SizeFacts DEF VMInv, WholeInv, VMTypeOK
  <2>1. PICK f \in Shapes, site \in Sites :
          /\ This.ops >= f.nargs + 1
          /\ mem[top + 1 + f.nargs] = Closure
          /\ PushWord(Word("ret", site))
          /\ callee' = [fn |-> f, taken |-> 1]
    BY <1>2, <2>0 DEF CallClosure
  <2>2. MayCall /\ inClosure' = TRUE /\ UNCHANGED <<bound, base, nargs, status, shape>>
    BY <1>2 DEF CallClosure
  <2>3. inClosure' = (IF 1 = 1 THEN TRUE ELSE inClosure)
    BY <2>2
  <2>4. CallsWith(f, 1, site)
    BY <2>1, <2>2, <2>3, Zenon DEF CallsWith
  <2>5. 1 \in 0 .. 1
    OBVIOUS
  <2> QED
    BY <1>2, <2>1, <2>4, <2>5, Zenon
<1> QED
  BY <1>1, <1>2

(* The frames after BEGIN: those of before, the newest with fewer operands,*)
(* and the new one.                                                        *)
NewRecord == [fn |-> callee.fn, taken |-> callee.taken, ops |-> 0, stored |-> FALSE,
              base |-> top - 1]

LEMMA BeginFrames ==
  ASSUME VMInv, Begin
  PROVE  /\ top \in Nat /\ callee.fn \in Shapes /\ callee.fn.nargs \in Nat
         /\ callee.fn.nlocals \in Nat /\ callee.taken \in Nat
         /\ top >= callee.fn.nargs + callee.fn.nlocals + 4
         /\ NewRecord \in FrameRecords /\ NewRecord.fn = callee.fn
         /\ NewRecord.taken = callee.taken /\ NewRecord.base = top - 1
         /\ \E n \in Nat :
              /\ n = Len(shape) /\ DOMAIN shape = 1 .. n /\ (n = 0 <=> shape = << >>)
              /\ (1 <= n => n \in 1 .. n /\ n \in DOMAIN shape)
              /\ shape' \in Seq(FrameRecords) /\ shape' # << >> /\ Len(shape') = n + 1
              /\ DOMAIN shape' = 1 .. n + 1 /\ shape'[n + 1] = NewRecord /\ This' = NewRecord
              /\ \A k \in 1 .. n :
                   /\ shape'[k].fn = shape[k].fn /\ shape'[k].taken = shape[k].taken
                   /\ shape'[k].base = shape[k].base /\ shape'[k].stored = shape[k].stored
                   /\ k # n => shape'[k] = shape[k]
                   /\ k = n => shape'[k].ops = This.ops - callee.fn.nargs - callee.taken
<1>1. /\ callee # NoCallee /\ top >= callee.fn.nargs + callee.fn.nlocals + 4
      /\ shape' = Append(Callers, NewRecord)
  BY DEF Begin, HasRoom, NewRecord
<1>2. top \in Nat /\ shape \in Seq(FrameRecords)
  BY SizeFacts DEF VMInv, WholeInv, VMTypeOK, LayoutInv, HistoryTypes
<1>3. /\ callee.fn \in Shapes /\ callee.fn.nargs \in Nat /\ callee.fn.nlocals \in Nat
      /\ callee.taken \in Nat /\ callee.taken \in 0 .. 1
  <2>1. callee.fn \in Shapes /\ callee.taken \in 0 .. 1
    BY <1>1 DEF VMInv, WholeInv, LayoutInv, HistoryTypes
  <2>2. callee.fn.nargs \in Nat /\ callee.fn.nlocals \in Nat
    BY <2>1, StackAssumption
  <2> QED
    BY <2>1, <2>2
<1>4. /\ NewRecord \in FrameRecords /\ NewRecord.fn = callee.fn
      /\ NewRecord.taken = callee.taken /\ NewRecord.base = top - 1
  <2>1. top - 1 \in Nat
    BY <1>1, <1>2, <1>3
  <2> QED
    BY <1>3, <2>1 DEF NewRecord, FrameRecords
<1>5. PICK n \in Nat : n = Len(shape) /\ DOMAIN shape = 1 .. n /\ (n = 0 <=> shape = << >>)
  BY <1>2, LenProperties, EmptySeq
<1>6. 1 <= n => n \in 1 .. n /\ n \in DOMAIN shape
  BY <1>5
<1>7. /\ Callers \in Seq(FrameRecords) /\ Len(Callers) = n
      /\ \A k \in 1 .. n :
           /\ Callers[k].fn = shape[k].fn /\ Callers[k].taken = shape[k].taken
           /\ Callers[k].base = shape[k].base /\ Callers[k].stored = shape[k].stored
           /\ k # n => Callers[k] = shape[k]
           /\ k = n => Callers[k].ops = This.ops - callee.fn.nargs - callee.taken
  <2>1. CASE shape = << >>
    <3>1. Callers = << >> /\ n = 0
      BY <1>5, <2>1 DEF Callers
    <3> QED
      BY <3>1, EmptySeq
  <2>2. CASE shape # << >>
    <3> DEFINE o == This.ops - callee.fn.nargs - callee.taken
               r == [This EXCEPT !.ops = o]
    <3>1. This \in FrameRecords /\ o \in Nat /\ This = shape[n] /\ n \in 1 .. n
      <4>1. /\ This \in FrameRecords /\ This.ops \in Nat
            /\ callee.fn.nargs + callee.taken <= This.ops
        BY <1>1, <2>2, FrameFacts, ThisFacts
      <4>2. This = shape[n] /\ n \in 1 .. n
        BY <1>5, <1>6, <2>2, FrameFacts
      <4>3. o \in Nat
        BY <1>3, <4>1
      <4> QED
        BY <4>1, <4>2, <4>3
    <3> HIDE DEF o
    <3>2. /\ r \in FrameRecords /\ r.fn = This.fn /\ r.taken = This.taken /\ r.base = This.base
          /\ r.stored = This.stored /\ r.ops = o
      BY <3>1, OpsChanged
    <3>3. Callers = Append(Front(shape), r)
      BY <2>2 DEF Callers, WithThis, o
    <3> HIDE DEF r
    <3>4. /\ Callers \in Seq(FrameRecords) /\ Len(Callers) = n
          /\ \A k \in 1 .. n - 1 : Callers[k] = shape[k]
          /\ Callers[n] = r
      BY <1>2, <1>5, <2>2, <3>2, <3>3, ReplaceLast
    <3>5. ASSUME NEW k \in 1 .. n
          PROVE  /\ Callers[k].fn = shape[k].fn /\ Callers[k].taken = shape[k].taken
                 /\ Callers[k].base = shape[k].base /\ Callers[k].stored = shape[k].stored
                 /\ k # n => Callers[k] = shape[k]
                 /\ k = n => Callers[k].ops = o
      <4>1. k = n \/ k \in 1 .. n - 1
        OBVIOUS
      <4> QED
        BY <3>1, <3>2, <3>4, <4>1
    <3> QED
      BY <3>4, <3>5 DEF o
  <2> QED
    BY <2>1, <2>2
<1>8. /\ shape' \in Seq(FrameRecords) /\ shape' # << >> /\ Len(shape') = n + 1
      /\ DOMAIN shape' = 1 .. n + 1 /\ shape'[n + 1] = NewRecord /\ This' = NewRecord
      /\ \A k \in 1 .. n : shape'[k] = Callers[k]
  <2> HIDE DEF Callers, NewRecord
  <2>1. /\ shape' \in Seq(FrameRecords) /\ shape' # << >> /\ Len(shape') = n + 1
        /\ DOMAIN shape' = 1 .. n + 1 /\ shape'[n + 1] = NewRecord /\ Last(shape') = NewRecord
        /\ \A k \in 1 .. n : shape'[k] = Callers[k]
    BY <1>1, <1>4, <1>7, AppendAt
  <2> QED
    BY <2>1 DEF This
<1>9. \A k \in 1 .. n :
        /\ shape'[k].fn = shape[k].fn /\ shape'[k].taken = shape[k].taken
        /\ shape'[k].base = shape[k].base /\ shape'[k].stored = shape[k].stored
        /\ k # n => shape'[k] = shape[k]
        /\ k = n => shape'[k].ops = This.ops - callee.fn.nargs - callee.taken
  BY <1>7, <1>8
<1> QED
  BY <1>1, <1>2, <1>3, <1>4, <1>5, <1>6, <1>8, <1>9

(* The words after BEGIN.                                                  *)
LEMMA BeginWords ==
  ASSUME VMInv, Begin
  PROVE  /\ mem' \in [0 .. Size - 1 -> Words]
         /\ \A a \in 0 .. Size - 1 : a > top => mem'[a] = mem[a]
         /\ mem'[top] = Word("nargs", nargs) /\ mem'[top - 1] = Word("base", base)
         /\ \A a \in 0 .. Size - 1 : a > top' /\ mem'[a] = Stale =>
              a = top - 2 \/ (a > top /\ mem[a] = Stale)
<1> DEFINE f == callee.fn
           reserved == [a \in 0 .. Size - 1 |-> IF a \in Cleared(f) THEN Zero ELSE mem[a]]
<1>1. mem' = [reserved EXCEPT ![top] = Word("nargs", nargs), ![top - 1] = Word("base", base)]
  BY DEF Begin
<1>2. /\ top \in Nat /\ f.nargs \in Nat /\ f.nlocals \in Nat /\ top >= f.nargs + f.nlocals + 4
  BY BeginFrames
<1>3. /\ Size \in Nat /\ StackBegin \in Nat /\ StackBegin < Size /\ top <= StackBegin
      /\ base \in Nat /\ nargs \in Nat /\ mem \in [0 .. Size - 1 -> Words]
  BY SizeFacts DEF VMInv, WholeInv, VMTypeOK
<1>4. top' = top - 2 - (f.nlocals + 1)
  BY DEF Begin
<1>5. Cleared(f) = top - 2 - (f.nlocals + 1) .. top - 2 - (f.nlocals + 1) + f.nlocals
  BY DEF Cleared
<1>6. /\ Word("nargs", nargs) \in Words /\ Word("nargs", nargs) # Stale
      /\ Word("base", base) \in Words /\ Word("base", base) # Stale
      /\ Zero \in Words /\ Zero # Stale
  BY <1>3 DEF Words, Word, Zero, Stale
<1> DEFINE l == f.nlocals
           g == f.nargs
<1>7. l \in Nat /\ g \in Nat /\ top >= g + l + 4 /\ top' = top - 2 - (l + 1)
      /\ Cleared(f) = top - 2 - (l + 1) .. top - 2 - (l + 1) + l
  BY <1>2, <1>4, <1>5
<1>9. top \in 0 .. Size - 1 /\ top - 1 \in 0 .. Size - 1 /\ top # top - 1
  <2> HIDE DEF l, g, f
  <2> QED
    BY <1>2, <1>3, <1>7
<1> HIDE DEF l, g, f, Cleared, Word, Zero, Stale
<1>0. /\ mem' \in [0 .. Size - 1 -> {mem'[a] : a \in 0 .. Size - 1}]
      /\ mem'[top] = Word("nargs", nargs) /\ mem'[top - 1] = Word("base", base)
      /\ \A a \in 0 .. Size - 1 : a # top /\ a # top - 1 =>
           mem'[a] = IF a \in Cleared(f) THEN Zero ELSE mem[a]
  BY <1>1, <1>9
<1>8. ASSUME NEW a \in 0 .. Size - 1
      PROVE  /\ mem'[a] \in Words
             /\ a > top => mem'[a] = mem[a]
             /\ a = top => mem'[a] = Word("nargs", nargs)
             /\ a = top - 1 => mem'[a] = Word("base", base)
             /\ a > top' /\ mem'[a] = Stale => a = top - 2 \/ (a > top /\ mem[a] = Stale)
  <2>1. a \in Int /\ mem[a] \in Words
    BY <1>3
  <2>2. CASE a > top
    <3>1. a # top /\ a # top - 1 /\ a \notin Cleared(f)
      BY <1>2, <1>7, <2>1, <2>2
    <3> QED
      BY <1>0, <2>1, <2>2, <3>1
  <2>3. CASE a = top
    <3>1. mem'[a] = Word("nargs", nargs) /\ ~(a > top) /\ a # top - 1
      BY <1>0, <1>2, <2>1, <2>3
    <3> QED
      BY <1>6, <2>3, <3>1
  <2>4. CASE a = top - 1
    <3>1. ~(a > top) /\ a # top
      BY <1>2, <2>4
    <3>2. mem'[a] = Word("base", base)
      BY <1>0, <2>4
    <3> QED
      BY <1>6, <2>4, <3>1, <3>2
  <2>5. CASE a < top - 1
    <3>1. a # top /\ a # top - 1 /\ ~(a > top)
      BY <1>2, <2>1, <2>5
    <3>2. mem'[a] = IF a \in Cleared(f) THEN Zero ELSE mem[a]
      BY <1>0, <3>1
    <3>3. a > top' /\ a # top - 2 => a \in Cleared(f)
      <4>1. a > top - 2 - (l + 1) /\ a # top - 2 /\ a < top - 1 =>
              a \in top - 2 - (l + 1) .. top - 2 - (l + 1) + l
        BY <1>2, <1>7, <2>1
      <4> QED
        BY <1>7, <2>5, <4>1
    <3> QED
      BY <1>6, <2>1, <3>1, <3>2, <3>3
  <2> QED
    BY <1>2, <2>1, <2>2, <2>3, <2>4, <2>5
<1>10. mem' \in [0 .. Size - 1 -> Words]
  BY <1>0, <1>8
<1> QED
  BY <1>0, <1>8, <1>10

LEMMA BeginKeepsInv ==
  ASSUME VMInv, Begin
  PROVE  VMInv'
<1> DEFINE f == callee.fn
           r == NewRecord
<1>1. /\ top \in Nat /\ f \in Shapes /\ f.nargs \in Nat /\ f.nlocals \in Nat
      /\ callee.taken \in Nat /\ top >= f.nargs + f.nlocals + 4
      /\ r \in FrameRecords /\ r.fn = f /\ r.taken = callee.taken /\ r.base = top - 1
  BY BeginFrames
<1>2. PICK n \in Nat :
        /\ n = Len(shape) /\ DOMAIN shape = 1 .. n /\ (n = 0 <=> shape = << >>)
        /\ (1 <= n => n \in 1 .. n /\ n \in DOMAIN shape)
        /\ shape' \in Seq(FrameRecords) /\ shape' # << >> /\ Len(shape') = n + 1
        /\ DOMAIN shape' = 1 .. n + 1 /\ shape'[n + 1] = r /\ This' = r
        /\ \A k \in 1 .. n :
             /\ shape'[k].fn = shape[k].fn /\ shape'[k].taken = shape[k].taken
             /\ shape'[k].base = shape[k].base /\ shape'[k].stored = shape[k].stored
             /\ k # n => shape'[k] = shape[k]
             /\ k = n => shape'[k].ops = This.ops - f.nargs - callee.taken
  BY BeginFrames
<1>3. /\ callee # NoCallee /\ callee' = NoCallee /\ nargs' = f.nargs /\ base' = top - 1
      /\ top' = top - 2 - (f.nlocals + 1)
      /\ UNCHANGED <<bound, inClosure, status, risks>> /\ status = "running"
  BY DEF Begin
<1>4. /\ Size \in Nat /\ StackBegin \in Nat /\ StackBegin < Size /\ 0 < StackBegin
      /\ top <= StackBegin /\ base \in Nat /\ nargs \in Nat /\ bound \in Bounds
  BY SizeFacts DEF VMInv, WholeInv, VMTypeOK
<1>5. /\ Size' = Size /\ StackBegin' = StackBegin /\ NoCallee' = NoCallee
      /\ FrameRecords' = FrameRecords /\ Words' = Words
  BY <1>3 DEF Size, StackBegin, NoCallee, FrameRecords, Words
<1>6. \A k \in 1 .. n : /\ Ceiling(k)' = Ceiling(k) /\ OpsBegin(k)' = OpsBegin(k)
                        /\ BaseOf(k)' = BaseOf(k)
  BY <1>2 DEF Ceiling, OpsBegin, BaseOf
<1>7. \A k \in 1 .. n :
        /\ BaseOf(k) \in Nat /\ Ceiling(k) \in Nat /\ OpsBegin(k) \in Nat
        /\ BaseOf(k) + 2 <= Ceiling(k) /\ OpsBegin(k) + 2 <= BaseOf(k)
        /\ BaseOf(k) <= StackBegin - 1 /\ top <= OpsBegin(k)
  <2>1. CASE n = 0
    BY <2>1
  <2>2. CASE n # 0
    BY <1>2, <2>2, FrameFacts
  <2> QED
    BY <2>1, <2>2
<1>8. \A i, k \in 1 .. n : i < k => Ceiling(k) <= OpsBegin(i)
  <2>1. CASE n = 0
    BY <2>1
  <2>2. CASE n # 0
    BY <1>2, <2>2, FrameFacts
  <2> QED
    BY <2>1, <2>2
<1>9. 1 <= n =>
        /\ top + 1 + This.ops = OpsBegin(n) /\ f.nargs + callee.taken <= This.ops
        /\ This.ops \in Nat /\ base = This.base /\ nargs = This.fn.nargs /\ This = shape[n]
        /\ base = BaseOf(n)
  BY <1>2, <1>3, ThisFacts, FrameFacts
<1> DEFINE g == f.nargs
           l == f.nlocals
           c == callee.taken
<1>10. /\ g \in Nat /\ l \in Nat /\ c \in Nat /\ top >= g + l + 4
       /\ top' = top - 2 - (l + 1) /\ top' \in Nat
       /\ Ceiling(n + 1)' = top + 1 + g + c
       /\ OpsBegin(n + 1)' = top - 3 - l
  <2>1. g \in Nat /\ l \in Nat /\ c \in Nat /\ top >= g + l + 4 /\ top' = top - 2 - (l + 1)
    BY <1>1, <1>3
  <2>2. /\ Ceiling(n + 1)' = (top - 1) + 2 + g + c
        /\ OpsBegin(n + 1)' = (top - 1) - 2 - l
    BY <1>1, <1>2 DEF Ceiling, OpsBegin
  <2> HIDE DEF g, l, c
  <2>3. (top - 1) + 2 + g + c = top + 1 + g + c /\ (top - 1) - 2 - l = top - 3 - l
    BY <1>1, <2>1
  <2>4. top - 2 - (l + 1) \in Nat
    BY <1>1, <2>1
  <2> QED
    BY <2>1, <2>2, <2>3, <2>4
<1>11. HistoryTypes' /\ LayoutAtStart'
  BY <1>2, <1>3, <1>5 DEF HistoryTypes, LayoutAtStart
<1>12. FramesApart'
  <2>1. shape'[1].base = StackBegin - 1 /\ shape'[1].taken = 0
    <3>1. CASE n = 0
      <4>1. shape'[1] = r
        BY <1>2, <3>1
      <4>2. top = StackBegin /\ callee.taken = 0
        BY <1>2, <3>1 DEF VMInv, WholeInv, LayoutInv, LayoutAtStart
      <4> QED
        BY <1>1, <4>1, <4>2
    <3>2. CASE n # 0
      <4>1. 1 \in 1 .. n
        BY <3>2
      <4> QED
        BY <1>2, <3>2, <4>1 DEF VMInv, WholeInv, LayoutInv, FramesApart
    <3> QED
      BY <3>1, <3>2
  <2>2. 1 <= n => Ceiling(n + 1)' <= OpsBegin(n)
    <3>1. 1 <= n => top + 1 + This.ops = OpsBegin(n) /\ g + c <= This.ops /\ This.ops \in Nat
      BY <1>9
    <3> HIDE DEF g, c
    <3> QED
      BY <1>1, <1>10, <3>1
  <2>3. ASSUME NEW i \in 1 .. n + 1, NEW k \in 1 .. n + 1, i < k
        PROVE  Ceiling(k)' <= OpsBegin(i)'
    <3>1. i \in 1 .. n /\ (k \in 1 .. n \/ k = n + 1) /\ 1 <= n
      BY <2>3
    <3>2. OpsBegin(i)' = OpsBegin(i)
      BY <1>6, <3>1
    <3>3. CASE k \in 1 .. n
      BY <1>6, <1>8, <2>3, <3>1, <3>2, <3>3
    <3>4. CASE k = n + 1
      <4>1. i = n \/ (i < n /\ n \in 1 .. n)
        BY <1>2, <3>1
      <4>2. i = n \/ (Ceiling(n) <= OpsBegin(i) /\ OpsBegin(n) + 2 <= BaseOf(n)
                        /\ BaseOf(n) + 2 <= Ceiling(n))
        BY <1>7, <1>8, <3>1, <4>1
      <4>3. /\ OpsBegin(n) \in Nat /\ OpsBegin(i) \in Nat /\ BaseOf(n) \in Nat
            /\ Ceiling(n) \in Nat
        BY <1>2, <1>7, <3>1
      <4> HIDE DEF g, l, c
      <4>4. top + 1 + g + c <= OpsBegin(i)
        BY <1>1, <1>10, <2>2, <3>1, <4>2, <4>3
      <4> QED
        BY <1>10, <3>2, <3>4, <4>4
    <3> QED
      BY <3>1, <3>3, <3>4
  <2>4. ASSUME NEW k \in 1 .. n + 1
        PROVE  OpsEnd(k)' - 1 + shape'[k].ops = OpsBegin(k)'
    <3>1. CASE k = n + 1
      <4>1. ~(k < Len(shape'))
        BY <1>2, <3>1
      <4>2. OpsEnd(k)' = top' + 1
        BY <1>3, <1>5, <4>1, Zenon DEF OpsEnd
      <4>3. shape'[k].ops = 0
        BY <1>2, <3>1 DEF NewRecord
      <4> HIDE DEF g, l, c
      <4> QED
        BY <1>1, <1>10, <3>1, <4>2, <4>3
    <3>2. CASE k = n
      <4>1. k < Len(shape') /\ 1 <= n /\ n \in 1 .. n
        BY <1>2, <3>2
      <4>2. OpsEnd(k)' = shape'[n + 1].base + 3 + shape'[n + 1].fn.nargs + shape'[n + 1].taken
        BY <3>2, <4>1, Zenon DEF OpsEnd
      <4>3. OpsEnd(k)' = (top - 1) + 3 + g + c
        BY <1>1, <1>2, <4>2
      <4>4. shape'[k].ops = This.ops - g - c /\ OpsBegin(k)' = OpsBegin(n)
        BY <1>2, <1>6, <3>2, <4>1
      <4>5. top + 1 + This.ops = OpsBegin(n) /\ This.ops \in Nat
        BY <1>9, <4>1
      <4> HIDE DEF g, l, c
      <4> QED
        BY <1>1, <1>10, <4>3, <4>4, <4>5
    <3>3. CASE k < n
      <4>1. k \in 1 .. n /\ k + 1 \in 1 .. n /\ k < Len(shape') /\ k < Len(shape) /\ k # n
        BY <1>2, <3>3
      <4>2. /\ shape'[k + 1].base = shape[k + 1].base
            /\ shape'[k + 1].fn = shape[k + 1].fn /\ shape'[k + 1].taken = shape[k + 1].taken
        BY <1>2, <4>1
      <4>3. OpsEnd(k)' = OpsEnd(k)
        BY <4>1, <4>2, Zenon DEF OpsEnd
      <4>4. shape'[k] = shape[k] /\ OpsBegin(k)' = OpsBegin(k) /\ k \in DOMAIN shape
        BY <1>2, <1>6, <4>1
      <4>5. OpsEnd(k) - 1 + shape[k].ops = OpsBegin(k)
        BY <1>2, <4>1, <4>4 DEF VMInv, WholeInv, LayoutInv, FramesApart
      <4> QED
        BY <4>3, <4>4, <4>5
    <3> QED
      BY <3>1, <3>2, <3>3
  <2> QED
    BY <1>2, <1>3, <1>5, <2>1, <2>3, <2>4 DEF FramesApart
<1>13. FlagOfNewest'
  <2> SUFFICES ASSUME "nested" \notin risks
               PROVE  /\ inClosure = (callee.taken = 1)
                      /\ \A k \in 1 .. n : shape'[k].taken = 0
    BY <1>1, <1>2, <1>3, <1>5 DEF FlagOfNewest
  <2>1. \A k \in 1 .. n : shape'[k].taken = 0
    <3>1. ASSUME NEW k \in 1 .. n
          PROVE  shape[k].taken = 0
      <4>1. shape # << >> /\ (k = n \/ k \in 1 .. n - 1)
        BY <1>2
      <4> QED
        BY <1>2, <1>3, <1>9, <4>1 DEF VMInv, WholeInv, LayoutInv, FlagOfNewest
    <3> QED
      BY <1>2, <3>1
  <2>2. inClosure = (callee.taken = 1)
    <3>1. CASE shape = << >>
      <4>1. inClosure = FALSE /\ callee.taken = 0
        BY <3>1 DEF VMInv, WholeInv, LayoutInv, LayoutAtStart
      <4>2. (callee.taken = 1) = FALSE
        BY <4>1
      <4> QED
        BY <4>1, <4>2, Zenon
    <3>2. CASE shape # << >>
      BY <1>3, <3>2 DEF VMInv, WholeInv, LayoutInv, FlagOfNewest
    <3> QED
      BY <3>1, <3>2
  <2> QED
    BY <2>1, <2>2
<1>14. /\ mem' \in [0 .. Size - 1 -> Words]
       /\ \A a \in 0 .. Size - 1 : a > top => mem'[a] = mem[a]
       /\ mem'[top] = Word("nargs", nargs) /\ mem'[top - 1] = Word("base", base)
       /\ \A a \in 0 .. Size - 1 : a > top' /\ mem'[a] = Stale =>
            a = top - 2 \/ (a > top /\ mem[a] = Stale)
  BY BeginWords
<1>15. ASSUME NEW k \in 1 .. n
       PROVE  /\ mem'[BaseOf(k)] = mem[BaseOf(k)]
              /\ mem'[BaseOf(k) + 1] = mem[BaseOf(k) + 1]
              /\ mem'[BaseOf(k) - 1] = mem[BaseOf(k) - 1]
  <2>1. /\ BaseOf(k) \in 0 .. Size - 1 /\ BaseOf(k) + 1 \in 0 .. Size - 1
        /\ BaseOf(k) - 1 \in 0 .. Size - 1
        /\ BaseOf(k) > top /\ BaseOf(k) + 1 > top /\ BaseOf(k) - 1 > top
    <3>1. /\ BaseOf(k) \in Nat /\ OpsBegin(k) \in Nat /\ OpsBegin(k) + 2 <= BaseOf(k)
          /\ BaseOf(k) <= StackBegin - 1 /\ top <= OpsBegin(k)
      BY <1>7
    <3> QED
      BY <1>1, <1>4, <3>1
  <2> QED
    BY <1>14, <2>1
<1>16. HeadersIntact'
  <2>1. ASSUME NEW k \in 2 .. n + 1
        PROVE  /\ mem'[shape'[k].base] = Word("base", shape'[k - 1].base)
               /\ mem'[shape'[k].base + 1] = Word("nargs", shape'[k - 1].fn.nargs)
    <3>1. k - 1 \in 1 .. n /\ 1 <= n /\ n \in 1 .. n
      BY <1>2
    <3>2. shape'[k - 1].base = shape[k - 1].base /\ shape'[k - 1].fn = shape[k - 1].fn
      BY <1>2, <3>1
    <3>3. CASE k = n + 1
      <4>1. k - 1 = n /\ shape'[k].base = top - 1 /\ top - 1 + 1 = top
        BY <1>1, <1>2, <3>3
      <4>2. base = shape[n].base /\ nargs = shape[n].fn.nargs
        BY <1>9, <3>1
      <4> QED
        BY <1>14, <3>2, <4>1, <4>2
    <3>4. CASE k # n + 1
      <4>1. k \in 1 .. n /\ k \in 2 .. n
        BY <3>4
      <4>2. shape'[k].base = BaseOf(k) /\ shape[k].base = BaseOf(k)
        BY <1>2, <4>1 DEF BaseOf
      <4>3. /\ mem[shape[k].base] = Word("base", shape[k - 1].base)
            /\ mem[shape[k].base + 1] = Word("nargs", shape[k - 1].fn.nargs)
        BY <1>2, <3>1, <4>1 DEF VMInv, WholeInv, HeadersIntact
      <4> QED
        BY <1>15, <3>2, <4>1, <4>2, <4>3
    <3> QED
      BY <3>3, <3>4
  <2> QED
    BY <1>1, <1>2, <1>3, <2>1 DEF HeadersIntact
<1>17. StoredFresh'
  <2>1. ASSUME Fresh, NEW k \in 1 .. n + 1, shape'[k].stored
        PROVE  mem'[shape'[k].base - 1] # Stale
    <3>1. k # n + 1
      BY <1>2, <2>1 DEF NewRecord
    <3>2. k \in 1 .. n
      BY <3>1
    <3>3. shape'[k].stored = shape[k].stored /\ shape'[k].base = shape[k].base
      BY <1>2, <3>2
    <3>4. mem[shape[k].base - 1] # Stale
      BY <1>2, <2>1, <3>2, <3>3 DEF VMInv, WholeInv, StoredFresh
    <3> QED
      BY <1>15, <3>2, <3>3, <3>4 DEF BaseOf
  <2> QED
    BY <1>2, <1>3, <2>1 DEF StoredFresh, Fresh, Stale, Word
<1>18. StaleAtBases'
  <2>1. ASSUME Fresh, NEW a \in Scanned', mem'[a] = Stale
        PROVE  \E k \in 1 .. n + 1 : a = shape'[k].base - 1
    <3>1. a \in 0 .. Size - 1 /\ a > top'
      <4>1. Scanned' = top' + 1 .. Size - 1
        BY <1>5 DEF Scanned
      <4>2. a \in top' + 1 .. Size - 1
        BY <2>1, <4>1
      <4>3. top' \in Nat
        BY <1>10
      <4> QED
        BY <1>4, <4>2, <4>3, AboveTop
    <3>2. a = top - 2 \/ (a > top /\ mem[a] = Stale)
      BY <1>14, <2>1, <3>1
    <3>3. CASE a = top - 2
      <4>1. shape'[n + 1].base - 1 = top - 2 /\ n + 1 \in 1 .. n + 1
        BY <1>1, <1>2
      <4> QED
        BY <3>3, <4>1
    <3>4. CASE a > top /\ mem[a] = Stale
      <4>1. a \in Scanned
        BY <1>1, <1>4, <3>1, <3>4 DEF Scanned
      <4>2. PICK k \in DOMAIN shape : a = shape[k].base - 1
        BY <2>1, <3>4, <4>1 DEF VMInv, WholeInv, StaleAtBases
      <4>3. k \in 1 .. n /\ k \in 1 .. n + 1
        BY <1>2
      <4> QED
        BY <1>2, <4>2, <4>3
    <3> QED
      BY <3>2, <3>3, <3>4
  <2> QED
    BY <1>2, <1>3, <2>1 DEF StaleAtBases, Fresh, Stale, Word
<1>19. VMTypeOK'
  <2>1. top' \in 0 .. StackBegin /\ base' \in 0 .. StackBegin
    <3>1. PICK t \in Nat : t = top'
      BY <1>10
    <3> HIDE DEF g, l, c
    <3>2. t \in 0 .. StackBegin /\ top - 1 \in 0 .. StackBegin
      BY <1>1, <1>4, <1>10, <3>1
    <3> QED
      BY <1>3, <3>1, <3>2
  <2>2. \A k \in DOMAIN shape' : shape'[k].ops \in Nat
    BY <1>2, RecordFacts, ElementOfSeq
  <2>3. inClosure' \in BOOLEAN /\ nargs' \in Nat /\ risks' \subseteq {"unset", "nested"}
    BY <1>1, <1>3 DEF VMInv, WholeInv, VMTypeOK
  <2> QED
    BY <1>3, <1>4, <1>5, <1>14, <2>1, <2>2, <2>3 DEF VMTypeOK
<1>20. status' # "shifted"
  BY <1>3
<1> QED
  BY <1>11, <1>12, <1>13, <1>16, <1>17, <1>18, <1>19, <1>20 DEF VMInv, WholeInv, LayoutInv

-----------------------------------------------------------------------------
(***************************************************************************)
(* Returns and collections                                                 *)
(***************************************************************************)

(* The flag END pops with is the newest frame's own.                       *)
Fits == inClosure = (This.taken = 1)

(* The frames after END: the newest is gone, its caller has one operand    *)
(* more.  Where the flag fits the value is left at the highest word of the *)
(* frame that ends, and otherwise next to it.                              *)
LEMMA EndFrames ==
  ASSUME VMInv, End
  PROVE  \E n \in Nat :
           /\ n + 1 = Len(shape) /\ DOMAIN shape = 1 .. n + 1 /\ 1 <= n
           /\ n \in 1 .. n /\ n \in 1 .. n + 1 /\ n + 1 \in 1 .. n + 1
           /\ shape' \in Seq(FrameRecords) /\ shape' # << >> /\ Len(shape') = n
           /\ DOMAIN shape' = 1 .. n /\ This' = shape'[n]
           /\ \A k \in 1 .. n :
                /\ shape'[k].fn = shape[k].fn /\ shape'[k].taken = shape[k].taken
                /\ shape'[k].base = shape[k].base /\ shape'[k].stored = shape[k].stored
                /\ k # n => shape'[k] = shape[k]
                /\ k = n => shape'[k].ops = shape[n].ops + 1
           /\ Ceiling(n + 1) \in Nat /\ ReturnTop \in Nat
           /\ Fits => ReturnTop = Ceiling(n + 1)
           /\ BaseOf(n + 1) + 2 <= ReturnTop /\ ReturnTop <= Ceiling(n + 1) + 1
           /\ top < ReturnTop
           /\ \A i \in 1 .. n : Ceiling(n + 1) <= OpsBegin(i)
           /\ Ceiling(n + 1) + shape[n].ops = OpsBegin(n)
           /\ shape[n].ops \in Nat
           /\ base' = shape[n].base /\ nargs' = shape[n].fn.nargs
<1>1. /\ Executing /\ base # StackBegin - 1 /\ This.ops > 0
      /\ base' = mem[base].v /\ nargs' = mem[base + 1].v
      /\ shape' = LET callers == Front(shape)
                  IN  Append(Front(callers), [Last(callers) EXCEPT !.ops = @ + 1])
  BY DEF End
<1>2. shape # << >> /\ callee = NoCallee /\ shape \in Seq(FrameRecords) /\ top \in Nat
  BY <1>1, RegisterFacts DEF VMInv, WholeInv, LayoutInv, HistoryTypes
<1>3. PICK m \in Nat : /\ m = Len(shape) /\ 1 <= m /\ DOMAIN shape = 1 .. m /\ m \in 1 .. m
                       /\ base = BaseOf(m) /\ top <= OpsBegin(m) /\ This = shape[m]
                       /\ base = This.base
  BY <1>1, RegisterFacts
<1>4. m # 1
  BY <1>1, <1>2, <1>3, FrameFacts
<1>5. PICK n \in Nat : n + 1 = m /\ 1 <= n /\ n \in 1 .. n /\ n \in 1 .. n + 1
                       /\ n + 1 \in 1 .. n + 1
  <2>1. m - 1 \in Nat /\ m - 1 + 1 = m /\ 1 <= m - 1
    BY <1>3, <1>4
  <2>2. \A j \in Nat : 1 <= j => j \in 1 .. j /\ j \in 1 .. j + 1 /\ j + 1 \in 1 .. j + 1
    OBVIOUS
  <2> QED
    BY <2>1, <2>2
<1>6. /\ n + 1 = Len(shape) /\ DOMAIN shape = 1 .. n + 1 /\ This = shape[n + 1]
      /\ base = BaseOf(n + 1) /\ top <= OpsBegin(n + 1)
  BY <1>3, <1>5
<1> DEFINE callers == Front(shape)
           c == shape[n]
           o == c.ops + 1
           r == [c EXCEPT !.ops = o]
<1>7. /\ callers \in Seq(FrameRecords) /\ Len(callers) = n /\ callers # << >>
      /\ \A k \in 1 .. n : callers[k] = shape[k]
      /\ Last(callers) = c
  <2>1. /\ callers \in Seq(FrameRecords) /\ Len(callers) = Len(shape) - 1
        /\ \A k \in 1 .. Len(shape) - 1 : callers[k] = shape[k]
    BY <1>2, LastSeq
  <2>2. Len(shape) - 1 = n
    BY <1>6
  <2> HIDE DEF callers
  <2>3. callers # << >>
    BY <1>5, <2>1, <2>2, EmptySeq
  <2>4. Last(callers) = callers[n]
    BY <2>1, <2>2 DEF Last
  <2> QED
    BY <1>5, <2>1, <2>2, <2>3, <2>4
<1>8. c \in FrameRecords /\ o \in Nat /\ c.ops \in Nat
  BY <1>2, <1>5, <1>6, FrameFacts, RecordFacts, SMTT(30)
<1> HIDE DEF o
<1>9. /\ r \in FrameRecords /\ r.fn = c.fn /\ r.taken = c.taken /\ r.base = c.base
      /\ r.stored = c.stored /\ r.ops = o
  BY <1>8, OpsChanged
<1>10. shape' = Append(Front(callers), r)
  BY <1>1, <1>7 DEF o
<1> HIDE DEF r, callers
<1>11. /\ shape' \in Seq(FrameRecords) /\ shape' # << >> /\ Len(shape') = n
       /\ DOMAIN shape' = 1 .. n /\ This' = shape'[n] /\ shape'[n] = r
       /\ \A k \in 1 .. n - 1 : shape'[k] = shape[k]
  <2>1. /\ shape' \in Seq(FrameRecords) /\ shape' # << >> /\ Len(shape') = n
        /\ Last(shape') = r /\ shape'[n] = r
        /\ \A k \in 1 .. n - 1 : shape'[k] = callers[k]
    BY <1>7, <1>9, <1>10, ReplaceLast
  <2>2. DOMAIN shape' = 1 .. n
    BY <2>1, LenProperties
  <2>3. \A k \in 1 .. n - 1 : k \in 1 .. n
    OBVIOUS
  <2> QED
    BY <1>7, <2>1, <2>2, <2>3 DEF This
<1>12. ASSUME NEW k \in 1 .. n
       PROVE  /\ shape'[k].fn = shape[k].fn /\ shape'[k].taken = shape[k].taken
              /\ shape'[k].base = shape[k].base /\ shape'[k].stored = shape[k].stored
              /\ k # n => shape'[k] = shape[k]
              /\ k = n => shape'[k].ops = shape[n].ops + 1
  <2>1. k = n \/ k \in 1 .. n - 1
    OBVIOUS
  <2> QED
    BY <1>9, <1>11, <2>1 DEF o
<1>13. /\ Ceiling(n + 1) \in Nat
       /\ \A i \in 1 .. n : Ceiling(n + 1) <= OpsBegin(i)
       /\ OpsBegin(n + 1) + 2 <= BaseOf(n + 1) /\ BaseOf(n + 1) + 2 <= Ceiling(n + 1)
       /\ OpsBegin(n + 1) \in Nat /\ BaseOf(n + 1) \in Nat
  <2>1. \A i \in 1 .. n : i < n + 1 /\ i \in 1 .. n + 1
    OBVIOUS
  <2> QED
    BY <1>2, <1>5, <1>6, <2>1, FrameFacts
<1>14. /\ Fits => ReturnTop = Ceiling(n + 1)
       /\ ReturnTop \in Nat /\ BaseOf(n + 1) + 2 <= ReturnTop
       /\ ReturnTop <= Ceiling(n + 1) + 1
  <2>1. Ceiling(n + 1) = base + 2 + nargs + This.taken /\ base \in Nat /\ nargs \in Nat
    BY <1>2, <1>6, ThisFacts
  <2>2. PICK t \in Nat, i \in Nat :
          t = This.taken /\ t \in 0 .. 1 /\ i = (IF inClosure THEN 1 ELSE 0) /\ i \in 0 .. 1
    <3>1. This.taken \in 0 .. 1
      BY <1>2, FrameFacts DEF FrameRecords
    <3>2. (IF inClosure THEN 1 ELSE 0) \in 0 .. 1
      OBVIOUS
    <3> QED
      BY <3>1, <3>2
  <2>3. ReturnTop = base + 2 + nargs + i /\ Ceiling(n + 1) = base + 2 + nargs + t
    BY <2>1, <2>2 DEF ReturnTop
  <2>4. Fits => i = t
    <3>1. CASE t = 1
      BY <2>2, <3>1 DEF Fits
    <3>2. CASE t = 0
      <4>1. Fits => inClosure = FALSE
        <5>1. (This.taken = 1) = FALSE
          BY <2>2, <3>2
        <5> QED
          BY <5>1, Zenon DEF Fits
      <4> QED
        BY <2>2, <3>2, <4>1
    <3> QED
      BY <2>2, <3>1, <3>2
  <2>5. PICK c0 \in Nat : c0 = Ceiling(n + 1)
    BY <1>13
  <2>6. /\ base + 2 + nargs + i \in Nat /\ base + 2 <= base + 2 + nargs + i
        /\ base + 2 + nargs + i <= c0 + 1
    BY <2>1, <2>2, <2>3, <2>5
  <2> QED
    BY <1>6, <2>3, <2>4, <2>5, <2>6
<1>15. Ceiling(n + 1) + c.ops = OpsBegin(n)
  <2>1. OpsEnd(n) - 1 + c.ops = OpsBegin(n)
    BY <1>2, <1>5, <1>6 DEF VMInv, WholeInv, LayoutInv, FramesApart
  <2>2. OpsEnd(n) = Ceiling(n + 1) + 1
    <3>1. n < Len(shape)
      BY <1>6
    <3>2. OpsEnd(n) = shape[n + 1].base + 3 + shape[n + 1].fn.nargs + shape[n + 1].taken
      BY <3>1, Zenon DEF OpsEnd
    <3> DEFINE b == shape[n + 1].base
               g == shape[n + 1].fn.nargs
               t == shape[n + 1].taken
    <3>3. b \in Nat /\ g \in Nat /\ t \in Nat
      BY <1>2, <1>5, <1>6, FrameFacts, RecordFacts
    <3>4. Ceiling(n + 1) = b + 2 + g + t
      BY DEF Ceiling
    <3> HIDE DEF b, g, t
    <3>5. OpsEnd(n) = b + 3 + g + t
      BY <3>2 DEF b, g, t
    <3> QED
      BY <3>3, <3>4, <3>5
  <2> QED
    BY <1>8, <1>13, <2>1, <2>2
<1>16. base' = shape[n].base /\ nargs' = shape[n].fn.nargs
  <2>1. n + 1 \in 2 .. Len(shape) /\ n + 1 - 1 = n
    BY <1>5, <1>6
  <2>2. /\ mem[shape[n + 1].base] = Word("base", shape[n].base)
        /\ mem[shape[n + 1].base + 1] = Word("nargs", shape[n].fn.nargs)
    BY <1>2, <2>1 DEF VMInv, WholeInv, HeadersIntact
  <2>3. base = shape[n + 1].base
    BY <1>6 DEF BaseOf
  <2> QED
    BY <1>1, <2>2, <2>3 DEF Word
<1>17. top < ReturnTop
  BY <1>2, <1>6, <1>13, <1>14
<1> QED
  BY <1>5, <1>6, <1>8, <1>11, <1>12, <1>13, <1>14, <1>15, <1>16, <1>17

LEMMA EndKeepsInv ==
  ASSUME VMInv, End
  PROVE  WholeInv'
<1>1. PICK n \in Nat :
        /\ n + 1 = Len(shape) /\ DOMAIN shape = 1 .. n + 1 /\ 1 <= n
        /\ n \in 1 .. n /\ n \in 1 .. n + 1 /\ n + 1 \in 1 .. n + 1
        /\ shape' \in Seq(FrameRecords) /\ shape' # << >> /\ Len(shape') = n
        /\ DOMAIN shape' = 1 .. n /\ This' = shape'[n]
        /\ \A k \in 1 .. n :
             /\ shape'[k].fn = shape[k].fn /\ shape'[k].taken = shape[k].taken
             /\ shape'[k].base = shape[k].base /\ shape'[k].stored = shape[k].stored
             /\ k # n => shape'[k] = shape[k]
             /\ k = n => shape'[k].ops = shape[n].ops + 1
        /\ Ceiling(n + 1) \in Nat /\ ReturnTop \in Nat
        /\ Fits => ReturnTop = Ceiling(n + 1)
        /\ BaseOf(n + 1) + 2 <= ReturnTop /\ ReturnTop <= Ceiling(n + 1) + 1
        /\ top < ReturnTop
        /\ \A i \in 1 .. n : Ceiling(n + 1) <= OpsBegin(i)
        /\ Ceiling(n + 1) + shape[n].ops = OpsBegin(n)
        /\ shape[n].ops \in Nat
        /\ base' = shape[n].base /\ nargs' = shape[n].fn.nargs
  BY EndFrames
<1>2. /\ Executing /\ This.ops > 0 /\ mem' = [mem EXCEPT ![ReturnTop] = mem[top + 1]]
      /\ top' = ReturnTop - 1 /\ inClosure' = FALSE
      /\ UNCHANGED <<bound, callee, risks>>
      /\ status' = IF Fits THEN status ELSE "shifted"
  BY DEF End, Fits
<1>3. /\ shape # << >> /\ callee = NoCallee /\ status = "running" /\ top \in Nat
      /\ StackBegin \in Nat /\ Size \in Nat /\ StackBegin < Size /\ 0 < StackBegin
      /\ mem \in [0 .. Size - 1 -> Words] /\ bound \in Bounds
  BY <1>2, RegisterFacts DEF VMInv, WholeInv, VMTypeOK
<1>4. /\ Size' = Size /\ StackBegin' = StackBegin /\ NoCallee' = NoCallee
      /\ FrameRecords' = FrameRecords /\ Words' = Words
  BY <1>2 DEF Size, StackBegin, NoCallee, FrameRecords, Words
<1>5. \A k \in 1 .. n : /\ Ceiling(k)' = Ceiling(k) /\ OpsBegin(k)' = OpsBegin(k)
                        /\ BaseOf(k)' = BaseOf(k)
  BY <1>1 DEF Ceiling, OpsBegin, BaseOf
<1>6. ASSUME NEW k \in 1 .. n
      PROVE  /\ k \in 1 .. n + 1 /\ k \in DOMAIN shape
             /\ BaseOf(k) \in Nat /\ Ceiling(k) \in Nat /\ OpsBegin(k) \in Nat
             /\ BaseOf(k) + 2 <= Ceiling(k) /\ OpsBegin(k) + 2 <= BaseOf(k)
             /\ BaseOf(k) <= StackBegin - 1
             /\ \A i \in 1 .. n : i < k => Ceiling(k) <= OpsBegin(i)
  <2>1. \A i \in 1 .. n : i \in 1 .. n + 1
    OBVIOUS
  <2> QED
    BY <1>1, <1>3, <2>1, FrameFacts
<1>7. PICK p \in Nat : /\ p = ReturnTop /\ top < p /\ p <= StackBegin - 2
                       /\ p <= Ceiling(n + 1) + 1 /\ BaseOf(n + 1) + 2 <= p
                       /\ Fits => p = Ceiling(n + 1)
  <2>1. n + 1 > 1
    BY <1>1
  <2>2. Ceiling(n + 1) <= StackBegin - 3
    BY <1>1, <1>3, <2>1, FrameFacts
  <2>3. ReturnTop <= StackBegin - 2
    BY <1>1, <1>3, <2>2
  <2> QED
    BY <1>1, <2>3
<1>8. top' = p - 1 /\ p - 1 \in Nat
  BY <1>1, <1>2, <1>3, <1>7
<1>9. mem[top + 1] \in Words /\ (Fresh => mem[top + 1] # Stale) /\ top + 1 \in 0 .. Size - 1
  BY <1>2, TopFresh
<1>10. /\ p \in 0 .. Size - 1
       /\ mem' \in [0 .. Size - 1 -> Words] /\ (Fresh => mem'[p] # Stale)
       /\ \A a \in 0 .. Size - 1 : a # p => mem'[a] = mem[a]
  <2>1. p \in 0 .. Size - 1
    BY <1>3, <1>7
  <2>2. mem' = [mem EXCEPT ![p] = mem[top + 1]]
    BY <1>1, <1>2, <1>7
  <2> QED
    BY <1>3, <1>9, <2>1, <2>2
<1>11. HistoryTypes' /\ LayoutAtStart'
  BY <1>1, <1>2, <1>3, <1>4 DEF HistoryTypes, LayoutAtStart
<1>12. ASSUME status' # "shifted"
       PROVE  FramesApart'
  <2>0. Fits /\ p = Ceiling(n + 1)
    BY <1>2, <1>7, <1>12
  <2>1. shape'[1].base = StackBegin - 1 /\ shape'[1].taken = 0
    <3>1. 1 \in 1 .. n
      BY <1>1
    <3> QED
      BY <1>1, <1>3, <3>1 DEF VMInv, WholeInv, LayoutInv, FramesApart
  <2>2. \A i, k \in 1 .. n : i < k => Ceiling(k)' <= OpsBegin(i)'
    BY <1>5, <1>6
  <2>3. ASSUME NEW k \in 1 .. n
        PROVE  OpsEnd(k)' - 1 + shape'[k].ops = OpsBegin(k)'
    <3>1. CASE k = n
      <4>1. ~(k < Len(shape'))
        BY <1>1, <3>1
      <4>2. OpsEnd(k)' = top' + 1
        BY <1>2, <1>3, <1>4, <4>1, Zenon DEF OpsEnd
      <4>3. shape'[k].ops = shape[n].ops + 1 /\ OpsBegin(k)' = OpsBegin(n)
        BY <1>1, <1>5, <3>1
      <4> DEFINE o == shape[n].ops
      <4>4. o \in Nat /\ p + o = OpsBegin(n)
        BY <1>1, <2>0
      <4> HIDE DEF o
      <4>5. p - 1 + 1 - 1 + (o + 1) = OpsBegin(n)
        BY <1>7, <4>4
      <4> QED
        BY <1>8, <4>2, <4>3, <4>5 DEF o
    <3>2. CASE k < n
      <4>1. k \in 1 .. n /\ k + 1 \in 1 .. n /\ k < Len(shape') /\ k < Len(shape) /\ k # n
        BY <1>1, <3>2
      <4>2. /\ shape'[k + 1].base = shape[k + 1].base
            /\ shape'[k + 1].fn = shape[k + 1].fn /\ shape'[k + 1].taken = shape[k + 1].taken
        BY <1>1, <4>1
      <4>3. OpsEnd(k)' = OpsEnd(k)
        BY <4>1, <4>2, Zenon DEF OpsEnd
      <4>4. shape'[k] = shape[k] /\ OpsBegin(k)' = OpsBegin(k) /\ k \in DOMAIN shape
        BY <1>1, <1>5, <1>6, <4>1
      <4>5. OpsEnd(k) - 1 + shape[k].ops = OpsBegin(k)
        BY <1>3, <4>4 DEF VMInv, WholeInv, LayoutInv, FramesApart
      <4> QED
        BY <4>3, <4>4, <4>5
    <3> QED
      BY <3>1, <3>2
  <2> QED
    BY <1>1, <1>2, <1>3, <1>4, <2>1, <2>2, <2>3 DEF FramesApart
<1>13. FlagOfNewest'
  <2> SUFFICES ASSUME "nested" \notin risks
               PROVE  /\ inClosure' = (This'.taken = 1) /\ status' # "shifted"
                      /\ \A k \in 1 .. n - 1 : shape'[k].taken = 0
    BY <1>1, <1>2, <1>3, <1>4 DEF FlagOfNewest
  <2>1. \A k \in 1 .. n : shape'[k].taken = 0
    <3>1. \A k \in 1 .. n : k \in 1 .. Len(shape) - 1
      BY <1>1
    <3> QED
      BY <1>1, <1>3, <3>1 DEF VMInv, WholeInv, LayoutInv, FlagOfNewest
  <2>2. \A k \in 1 .. n - 1 : k \in 1 .. n
    OBVIOUS
  <2>3. Fits
    BY <1>3 DEF Fits, VMInv, WholeInv, LayoutInv, FlagOfNewest
  <2>4. inClosure' = (This'.taken = 1)
    <3>1. (This'.taken = 1) = FALSE
      BY <1>1, <2>1
    <3> QED
      BY <1>2, <3>1, Zenon
  <2> QED
    BY <1>2, <1>3, <2>1, <2>2, <2>3, <2>4
<1>14. ASSUME NEW k \in 1 .. n
       PROVE  /\ mem'[BaseOf(k)] = mem[BaseOf(k)]
              /\ mem'[BaseOf(k) + 1] = mem[BaseOf(k) + 1]
              /\ Fresh => mem'[BaseOf(k) - 1] = mem[BaseOf(k) - 1] \/ mem'[BaseOf(k) - 1] # Stale
  <2>1. /\ BaseOf(k) \in 0 .. Size - 1 /\ BaseOf(k) + 1 \in 0 .. Size - 1
        /\ BaseOf(k) - 1 \in 0 .. Size - 1
        /\ BaseOf(k) # p /\ BaseOf(k) + 1 # p
    <3>1. PICK b \in Nat, f \in Nat, c \in Nat :
            b = BaseOf(k) /\ f = OpsBegin(k) /\ c = Ceiling(n + 1)
      BY <1>1, <1>6
    <3>2. f + 2 <= b /\ b <= StackBegin - 1 /\ p <= c + 1 /\ c <= f
      BY <1>1, <1>6, <1>7, <3>1
    <3>3. /\ b \in 0 .. Size - 1 /\ b + 1 \in 0 .. Size - 1 /\ b - 1 \in 0 .. Size - 1
          /\ b # p /\ b + 1 # p
      BY <1>3, <3>2
    <3> QED
      BY <3>1, <3>3
  <2>2. CASE BaseOf(k) - 1 = p
    BY <1>10, <2>1, <2>2
  <2>3. CASE BaseOf(k) - 1 # p
    BY <1>10, <2>1, <2>3
  <2> QED
    BY <2>2, <2>3
<1>15. HeadersIntact'
  <2>1. ASSUME NEW k \in 2 .. n
        PROVE  /\ mem'[shape'[k].base] = Word("base", shape'[k - 1].base)
               /\ mem'[shape'[k].base + 1] = Word("nargs", shape'[k - 1].fn.nargs)
    <3>1. k \in 1 .. n /\ k - 1 \in 1 .. n /\ k \in 2 .. Len(shape)
      BY <1>1
    <3>2. /\ shape'[k - 1].base = shape[k - 1].base /\ shape'[k - 1].fn = shape[k - 1].fn
          /\ shape'[k].base = BaseOf(k) /\ shape[k].base = BaseOf(k)
      BY <1>1, <3>1 DEF BaseOf
    <3>3. /\ mem[shape[k].base] = Word("base", shape[k - 1].base)
          /\ mem[shape[k].base + 1] = Word("nargs", shape[k - 1].fn.nargs)
      BY <1>3, <3>1 DEF VMInv, WholeInv, HeadersIntact
    <3> QED
      BY <1>14, <3>1, <3>2, <3>3
  <2> QED
    BY <1>1, <2>1 DEF HeadersIntact
<1>16. StoredFresh'
  <2>1. ASSUME Fresh, NEW k \in 1 .. n, shape'[k].stored
        PROVE  mem'[shape'[k].base - 1] # Stale
    <3>1. /\ shape'[k].stored = shape[k].stored
          /\ shape'[k].base = shape[k].base /\ k \in DOMAIN shape
      BY <1>1, <1>6
    <3>2. mem[shape[k].base - 1] # Stale
      BY <2>1, <3>1 DEF VMInv, WholeInv, StoredFresh
    <3> QED
      BY <1>14, <2>1, <3>1, <3>2 DEF BaseOf
  <2> QED
    BY <1>1, <1>2, <2>1 DEF StoredFresh, Fresh, Stale, Word
<1>17. StaleAtBases'
  <2>1. ASSUME Fresh, NEW a \in Scanned', mem'[a] = Stale
        PROVE  \E k \in 1 .. n : a = shape'[k].base - 1
    <3>1. a \in 0 .. Size - 1 /\ a > p - 1
      <4>1. a \in (p - 1) + 1 .. Size - 1
        BY <1>4, <1>8, <2>1 DEF Scanned
      <4> QED
        BY <1>3, <1>8, <4>1, AboveTop
    <3>2. a # p
      BY <1>10, <2>1
    <3>3. mem[a] = Stale /\ a > p /\ a \in Scanned
      BY <1>3, <1>7, <1>10, <2>1, <3>1, <3>2 DEF Scanned
    <3>4. PICK k \in DOMAIN shape : a = shape[k].base - 1
      BY <2>1, <3>3 DEF VMInv, WholeInv, StaleAtBases
    <3>5. k # n + 1
      <4>1. CASE k = n + 1
        <5>1. a = BaseOf(n + 1) - 1
          BY <3>4, <4>1 DEF BaseOf
        <5>2. BaseOf(n + 1) \in Nat /\ BaseOf(n + 1) + 2 <= p
          BY <1>1, <1>3, <1>7, FrameFacts
        <5> QED
          BY <1>7, <3>3, <5>1, <5>2
      <4> QED
        BY <4>1
    <3>6. k \in 1 .. n
      BY <1>1, <3>4, <3>5
    <3> QED
      BY <1>1, <3>4, <3>6
  <2> QED
    BY <1>1, <1>2, <2>1, SMTT(30) DEF StaleAtBases, Fresh, Stale, Word
<1>18. VMTypeOK'
  <2>1. top' \in 0 .. StackBegin
    BY <1>3, <1>7, <1>8
  <2>2. base' \in 0 .. StackBegin
    <3>1. base' = BaseOf(n)
      BY <1>1 DEF BaseOf
    <3>2. BaseOf(n) \in Nat /\ BaseOf(n) <= StackBegin - 1
      BY <1>1, <1>6
    <3> QED
      BY <1>3, <3>1, <3>2
  <2>3. nargs' \in Nat
    BY <1>1, <1>3, FrameFacts, RecordFacts
  <2>4. \A k \in DOMAIN shape' : shape'[k].ops \in Nat
    BY <1>1, RecordFacts, ElementOfSeq
  <2>5. risks' \subseteq {"unset", "nested"} /\ status' \in {"running", "shifted"}
    BY <1>2, <1>3 DEF VMInv, WholeInv, VMTypeOK
  <2> QED
    BY <1>2, <1>3, <1>4, <1>10, <2>1, <2>2, <2>3, <2>4, <2>5 DEF VMTypeOK
<1>19. FramesApart'
  BY <1>12 DEF FramesApart
<1> QED
  BY <1>11, <1>13, <1>15, <1>16, <1>17, <1>18, <1>19 DEF WholeInv, LayoutInv

(* A collection updates what it scans and leaves the rest where it was.    *)
LEMMA CollectKeepsInv ==
  ASSUME VMInv, Collect
  PROVE  VMInv'
<1>1. /\ Executing
      /\ mem' = [a \in 0 .. Size - 1 |->
                   IF a \notin Scanned /\ mem[a] = Closure THEN Stale ELSE mem[a]]
      /\ UNCHANGED <<bound, top, base, nargs, inClosure, status, callee, shape, risks>>
  BY DEF Collect
<1>2. /\ shape # << >> /\ callee = NoCallee /\ status = "running"
      /\ top \in Nat /\ This.ops \in Nat /\ Size \in Nat /\ StackBegin \in Nat
      /\ StackBegin < Size /\ base \in Nat /\ mem \in [0 .. Size - 1 -> Words]
      /\ inClosure \in BOOLEAN
  BY <1>1, RegisterFacts
<1>3. PICK n \in Nat :
        /\ n = Len(shape) /\ n \in DOMAIN shape /\ This = shape[n] /\ base = This.base
        /\ top + This.ops = OpsBegin(n) /\ OpsBegin(n) \in Nat /\ OpsBegin(n) + 2 <= base
        /\ base <= StackBegin - 1 /\ top <= OpsBegin(n)
  BY <1>1, RegisterFacts
<1>4. shape' = WithThis(This) /\ This \in FrameRecords
  <2>1. shape \in Seq(FrameRecords) /\ This \in FrameRecords
    BY <1>2, FrameFacts DEF VMInv, WholeInv, LayoutInv, HistoryTypes
  <2>2. Append(Front(shape), Last(shape)) = shape
    BY <1>2, <2>1, FrontLast
  <2> QED
    BY <1>1, <2>1, <2>2 DEF WithThis, This
<1>5. Stale \in Words
  BY DEF Stale, Word, Words
<1>6. mem' \in [0 .. Size - 1 -> Words]
  BY <1>1, <1>2, <1>5
<1>7. \A a \in 0 .. Size - 1 : a > top => mem'[a] = mem[a]
  <2>1. \A a \in 0 .. Size - 1 : a > top => a \in Scanned
    BY <1>2 DEF Scanned
  <2> QED
    BY <1>1, <2>1
<1>8. \A a \in 0 .. Size - 1 : a > OpsBegin(n) => mem'[a] = mem[a]
  <2>1. \A a \in 0 .. Size - 1 : a > OpsBegin(n) => a > top
    BY <1>2, <1>3
  <2> QED
    BY <1>7, <2>1
<1>r. RisksGrow /\ (Fresh' => Fresh)
  BY <1>1 DEF RisksGrow, Fresh, VMInv, WholeInv, VMTypeOK
<1>9. Fresh' /\ This.stored => mem'[base - 1] # Stale
  <2>1. base - 1 \in 0 .. Size - 1 /\ base - 1 > OpsBegin(n)
    BY <1>2, <1>3
  <2>2. Fresh /\ This.stored => mem[base - 1] # Stale
    BY <1>3 DEF VMInv, WholeInv, StoredFresh
  <2> QED
    BY <1>8, <1>r, <2>1, <2>2
<1>10. Fresh' => \A a \in 0 .. Size - 1 :
                   a > top' /\ mem'[a] = Stale => a > top /\ mem[a] = Stale
  BY <1>1, <1>7
<1>11. (IF callee' = NoCallee THEN top' ELSE top' + 1) + This.ops = OpsBegin(Len(shape))
  BY <1>1, <1>2, <1>3
<1>12. FlagStep
  BY <1>1, <1>2 DEF FlagStep, VMInv, WholeInv, LayoutInv, FlagOfNewest
<1>13. callee' = NoCallee /\ top' \in Nat /\ inClosure' \in BOOLEAN /\ status' \in Statuses
  BY <1>1, <1>2 DEF Statuses
<1>14. \A a \in 0 .. Size - 1 : a > OpsBegin(Len(shape)) =>
         mem'[a] = mem[a] \/ (base - This.fn.nlocals <= a /\ a <= base - 1)
  BY <1>3, <1>8
<1> QED
  BY <1>1, <1>2, <1>3, <1>4, <1>6, <1>r, <1>9, <1>10, <1>11, <1>12, <1>13, <1>14, FramesKept

(* The outermost frame is no closure's, so its END leaves a flag that fits.*)
LEMMA EndMainKeepsInv ==
  ASSUME VMInv, EndMain
  PROVE  VMInv'
<1>1. /\ Executing /\ base = StackBegin - 1 /\ inClosure' = FALSE /\ status' = "ended"
      /\ UNCHANGED <<bound, mem, top, base, nargs, callee, shape, risks>>
  BY DEF EndMain
<1>2. shape # << >> /\ callee = NoCallee /\ inClosure \in BOOLEAN /\ StackBegin \in Nat
  BY <1>1, RegisterFacts
<1>3. PICK n \in Nat : /\ n = Len(shape) /\ 1 <= n /\ n \in 1 .. n /\ This = shape[n]
                       /\ base = BaseOf(n)
  BY <1>1, RegisterFacts
<1>4. n = 1
  <2>1. /\ BaseOf(n) \in Nat /\ Ceiling(n) \in Nat /\ BaseOf(n) + 2 <= Ceiling(n)
        /\ n > 1 => Ceiling(n) <= StackBegin - 3
    BY <1>2, <1>3, FrameFacts
  <2> QED
    BY <1>1, <1>2, <1>3, <2>1
<1>5. "nested" \notin risks => inClosure = FALSE
  <2>1. This.taken = 0
    BY <1>2, <1>3, <1>4 DEF VMInv, WholeInv, LayoutInv, FramesApart
  <2>2. (This.taken = 1) = FALSE
    BY <2>1
  <2>3. "nested" \notin risks => inClosure = (This.taken = 1)
    BY <1>2 DEF VMInv, WholeInv, LayoutInv, FlagOfNewest
  <2> QED
    BY <2>2, <2>3, Zenon
<1>6. Kept
  BY <1>1, <1>2, <1>5 DEF Kept
<1> QED
  BY <1>1, <1>6, StatusKeepsInv DEF Statuses

(* The layout before the first instruction.                                *)
LEMMA VMInitInv == VMInit => VMInv
<1> SUFFICES ASSUME VMInit PROVE VMInv
  OBVIOUS
<1>1. /\ bound \in Bounds /\ shape = << >> /\ top = StackBegin /\ base = StackBegin
      /\ nargs = 2 /\ inClosure = FALSE /\ status = "running" /\ risks = {}
      /\ mem = [a \in 0 .. Size - 1 |-> Zero]
  BY DEF VMInit
<1>2. PICK f \in Shapes : callee = [fn |-> f, taken |-> 0]
  BY <1>1, SizeFacts DEF VMInit
<1>3. callee \in [fn : Shapes, taken : 0 .. 1] /\ callee.taken = 0 /\ callee # NoCallee
  <2>1. NoCallee.taken = -1
    BY DEF NoCallee
  <2> QED
    BY <1>2, <2>1
<1>4. Zero \in Words /\ Zero # Stale /\ mem \in [0 .. Size - 1 -> Words]
  BY <1>1 DEF Zero, Stale, Word, Words
<1>5. StackBegin \in Nat /\ Size \in Nat /\ StackBegin < Size /\ 0 < StackBegin
  BY <1>1, SizeFacts
<1>6. VMTypeOK
  <2>1. \A k \in DOMAIN shape : shape[k].ops \in Nat
    BY <1>1, EmptySeq
  <2>2. top \in 0 .. StackBegin /\ base \in 0 .. StackBegin /\ nargs \in Nat
    BY <1>1, <1>5
  <2>3. /\ status \in {"running", "ended", "error", "corrupt", "shifted"} /\ inClosure \in BOOLEAN
        /\ risks \subseteq {"unset", "nested"}
    BY <1>1
  <2> QED
    BY <1>1, <1>4, <2>1, <2>2, <2>3, Zenon DEF VMTypeOK
<1>7. HistoryTypes /\ LayoutAtStart /\ FramesApart /\ FlagOfNewest /\ StoredFresh
  BY <1>1, <1>3, EmptySeq
  DEF HistoryTypes, LayoutAtStart, FramesApart, FlagOfNewest, StoredFresh
<1>8. StaleAtBases
  <2>1. \A a \in Scanned : a \in 0 .. Size - 1
    BY <1>1, <1>5 DEF Scanned
  <2>2. \A a \in Scanned : mem[a] = Zero
    BY <1>1, <2>1
  <2> QED
    BY <1>4, <2>2 DEF StaleAtBases
<1> QED
  BY <1>1, <1>6, <1>7, <1>8 DEF VMInv, WholeInv, LayoutInv, HeadersIntact

(* No instruction breaks the invariant; only an END whose flag does not fit*)
(* ends what holds until then.                                             *)
LEMMA VMStepKeepsInv ==
  ASSUME VMInv, [VMNext]_vmVars
  PROVE  WholeInv' /\ (End \/ VMInv')
<1>0. VMInv' => WholeInv'
  BY DEF VMInv
<1>1. CASE Const \/ MakeClosure \/ LoadArg \/ LoadLocal
  BY <1>0, <1>1, PushesConst, PushesClosure, PushesArg, PushesLocal, PushStepKeepsInv
<1>4. CASE Drop
  BY <1>0, <1>4, DropKeepsInv
<1>5. CASE StoreLocal
  BY <1>0, <1>5, StoreKeepsInv
<1>6. CASE Call \/ CallClosure
  BY <1>0, <1>6, CallForms, CallKeepsInv
<1>7. CASE Begin
  BY <1>0, <1>7, BeginKeepsInv
<1>8. CASE End
  BY <1>8, EndKeepsInv
<1>9. CASE EndMain
  BY <1>0, <1>9, EndMainKeepsInv
<1>10. CASE Collect
  BY <1>0, <1>10, CollectKeepsInv
<1>11. CASE StackError \/ Misuse \/ CollectStale \/ UNCHANGED vmVars
  <2>1. inClosure \in BOOLEAN /\ status \in Statuses
    BY DEF VMInv, WholeInv, VMTypeOK, Statuses
  <2>2. Kept /\ status' \in Statuses
    BY <1>11, <2>1 DEF StackError, Misuse, CollectStale, vmVars, Kept, Statuses
  <2> QED
    BY <1>0, <2>2, StatusKeepsInv
<1> QED
  BY <1>1, <1>4, <1>5, <1>6, <1>7, <1>8, <1>9, <1>10, <1>11 DEF VMNext

(* After such an END nothing happens.                                      *)
LEMMA ShiftedStops ==
  ASSUME status = "shifted", [VMNext]_vmVars
  PROVE  UNCHANGED vmVars
BY DEF VMNext, Const, MakeClosure, LoadArg, LoadLocal, Drop, StoreLocal, Call, CallClosure, MayCall,
       Begin, End, EndMain, StackError, Misuse, Collect, CollectStale, PushOperand, Executing

LEMMA StoppedKeepsInv ==
  ASSUME WholeInv, UNCHANGED vmVars
  PROVE  WholeInv'
<1>1. UNCHANGED <<bound, mem, top, base, nargs, inClosure, status, callee, shape, risks>>
  BY DEF vmVars
<1>2. /\ Size' = Size /\ StackBegin' = StackBegin /\ This' = This /\ Scanned' = Scanned
      /\ \A k : OpsEnd(k)' = OpsEnd(k) /\ OpsBegin(k)' = OpsBegin(k) /\ Ceiling(k)' = Ceiling(k)
  BY <1>1 DEF Size, StackBegin, This, Scanned, OpsEnd, OpsBegin, Ceiling
<1>3. VMTypeOK'
  BY <1>1, <1>2 DEF WholeInv, VMTypeOK, Words
<1>4. HeadersIntact' /\ StaleAtBases' /\ StoredFresh'
  BY <1>1, <1>2 DEF WholeInv, HeadersIntact, StaleAtBases, StoredFresh, Fresh
<1>5. HistoryTypes' /\ LayoutAtStart' /\ FlagOfNewest'
  BY <1>1, <1>2 DEF WholeInv, LayoutInv, HistoryTypes, LayoutAtStart, FlagOfNewest,
                    FrameRecords, NoCallee
<1>6. FramesApart'
  BY <1>1, <1>2 DEF WholeInv, LayoutInv, FramesApart, NoCallee
<1> QED
  BY <1>3, <1>4, <1>5, <1>6 DEF WholeInv, LayoutInv

LEMMA VMInvariant == VMSpec => []WholeInv
<1>1. VMInit => WholeInv
  BY VMInitInv DEF VMInv
<1>2. WholeInv /\ [VMNext]_vmVars => WholeInv'
  <2> SUFFICES ASSUME WholeInv, [VMNext]_vmVars
               PROVE  WholeInv'
    OBVIOUS
  <2>1. CASE status = "shifted"
    BY <2>1, ShiftedStops, StoppedKeepsInv
  <2>2. CASE status # "shifted"
    BY <2>2, VMStepKeepsInv DEF VMInv
  <2> QED
    BY <2>1, <2>2
<1> QED
  BY <1>1, <1>2, PTL DEF VMSpec

(* The pointers of the stack stay inside its array, and every word is of a *)
(* known kind, for arrays, functions and captures of every size: push and  *)
(* BEGIN check for room before they write.                                 *)
THEOREM VMTypeCorrect == VMSpec => []VMTypeOK
BY VMInvariant, PTL DEF WholeInv

(* Until an END pops with the flag of another frame's call the frames lie  *)
(* one below the other: each ends where the operands of its caller begin.  *)
(* No END does as long as no closure's body makes a call.                  *)
THEOREM LayoutInvariant == VMSpec => []LayoutInv
BY VMInvariant, PTL DEF WholeInv

(* No instruction writes over the header of a frame: END finds the base    *)
(* and the argument count of the caller as BEGIN has left them, and so does*)
(* the state behind the first END that is off by a word.                   *)
THEOREM HeadersStayIntact == VMSpec => []HeadersIntact
BY VMInvariant, PTL DEF WholeInv

(* Until a local 0 is read before it is assigned, the word below a base,   *)
(* not yet assigned as local 0, is the only one the collector scans that   *)
(* can hold a pointer to where an object was.                              *)
THEOREM StaleStaysBelowBase == VMSpec => []StaleOnlyBelowBase
<1>1. WholeInv => StaleOnlyBelowBase
  <2> SUFFICES ASSUME WholeInv, Fresh, NEW a \in Scanned, mem[a] = Stale
               PROVE  \E k \in DOMAIN shape : a = shape[k].base - 1 /\ ~shape[k].stored
    BY DEF StaleOnlyBelowBase, Fresh
  <2>1. PICK k \in DOMAIN shape : a = shape[k].base - 1
    BY DEF WholeInv, StaleAtBases
  <2>2. ~shape[k].stored
    BY <2>1 DEF WholeInv, StoredFresh
  <2> QED
    BY <2>1, <2>2
<1> QED
  BY <1>1, VMInvariant, PTL

-----------------------------------------------------------------------------
(***************************************************************************)
(* What a call under way has pushed                                        *)
(***************************************************************************)

(* Between a call and the BEGIN of its function: the return address is at  *)
(* the top, and a closure that is called lies below the arguments.         *)
CallPending ==
  callee # NoCallee /\ shape # << >> =>
    /\ mem[top + 1] \in FrameSites
    /\ callee.taken = 1 => mem[top + 2 + callee.fn.nargs] = Closure

LEMMA CallPushes ==
  ASSUME VMInv, Call \/ CallClosure
  PROVE  CallPending'
<1>1. PICK f \in Shapes, site \in Sites, taken \in 0 .. 1 :
        /\ CallsWith(f, taken, site)
        /\ taken = 1 => mem[top + 1 + f.nargs] = Closure
  BY CallForms
<1>2. /\ Executing /\ This.ops >= f.nargs + taken
      /\ mem' = [mem EXCEPT ![top] = Word("ret", site)] /\ top' = top - 1 /\ top > 0
      /\ callee' = [fn |-> f, taken |-> taken]
  BY <1>1 DEF CallsWith, MayCall, PushWord
<1>3. /\ top \in Nat /\ This.ops \in Nat /\ Size \in Nat /\ StackBegin \in Nat
      /\ StackBegin < Size /\ mem \in [0 .. Size - 1 -> Words]
  BY <1>2, RegisterFacts
<1>4. PICK e \in Nat : top + This.ops = e /\ e + 2 <= base /\ base <= StackBegin - 1 /\ base \in Nat
  BY <1>2, RegisterFacts
<1>5. PICK a \in Nat : a = f.nargs
  BY StackAssumption
<1>6. PICK o \in Nat : o = This.ops
  BY <1>3
<1>7. taken = 0 \/ taken = 1
  OBVIOUS
<1>8. top \in 0 .. Size - 1
  BY <1>3, <1>4, <1>6
<1>9. mem'[top' + 1] = Word("ret", site)
  <2>1. top' + 1 = top
    BY <1>2, <1>3
  <2> QED
    BY <1>2, <1>3, <1>8, <2>1
<1>10. taken = 1 => mem'[top' + 2 + a] = Closure
  <2> SUFFICES ASSUME taken = 1 PROVE mem'[top' + 2 + a] = Closure
    OBVIOUS
  <2>1. a + 1 <= o
    BY <1>2, <1>5, <1>6
  <2>2. top' + 2 + a = top + 1 + a
    BY <1>2, <1>3
  <2>3. top + 1 + a \in 0 .. Size - 1 /\ top + 1 + a # top
    BY <1>3, <1>4, <1>6, <2>1
  <2> QED
    BY <1>1, <1>2, <1>3, <1>5, <2>2, <2>3
<1>11. callee'.taken = taken /\ callee'.fn.nargs = a
  BY <1>2, <1>5
<1> QED
  BY <1>9, <1>10, <1>11 DEF CallPending, FrameSites

LEMMA CallPendingStep ==
  ASSUME VMInv, CallPending, [VMNext]_vmVars
  PROVE  CallPending'
<1>1. CASE Call \/ CallClosure
  BY <1>1, CallPushes
<1>2. CASE Begin
  BY <1>2 DEF Begin, CallPending, NoCallee
<1>3. CASE Const \/ MakeClosure \/ LoadArg \/ LoadLocal \/ Drop \/ StoreLocal
           \/ End \/ EndMain \/ Misuse \/ Collect \/ CollectStale
  <2>1. callee' = NoCallee
    BY <1>3 DEF Const, MakeClosure, LoadArg, LoadLocal, Drop, StoreLocal, End, EndMain,
                Misuse, Collect, CollectStale, PushOperand, Executing
  <2> QED
    BY <2>1 DEF CallPending, NoCallee
<1>4. CASE StackError \/ UNCHANGED vmVars
  <2>1. UNCHANGED <<mem, top, callee, shape, risks>>
    BY <1>4 DEF StackError, vmVars
  <2> QED
    BY <2>1 DEF CallPending, FrameSites, NoCallee
<1> QED
  BY <1>1, <1>2, <1>3, <1>4 DEF VMNext

-----------------------------------------------------------------------------
(***************************************************************************)
(* The words of one frame                                                  *)
(***************************************************************************)

SiteOf(k) == IF k = 1 THEN UnsetLocal ELSE mem[BaseOf(k) + 2]

ArgsOf(k) ==
  IF k = 1
    THEN << >>
    ELSE [j \in 1 .. shape[k].fn.nargs |-> mem[BaseOf(k) + 2 + shape[k].fn.nargs - (j - 1)]]

LocalsOf(k) ==
  [j \in 1 .. shape[k].fn.nlocals |->
     IF j = 1 /\ ~shape[k].stored THEN UnsetLocal ELSE mem[BaseOf(k) - j]]

(* o operands, the first one at the word b                                 *)
StackFrom(b, o) == [j \in 1 .. o |-> mem[b - j + 1]]

ShownFrame(k) ==
  [site |-> SiteOf(k), args |-> ArgsOf(k), locals |-> LocalsOf(k),
   ops |-> StackFrom(OpsBegin(k), shape[k].ops)]

(* A frame has the operands declared for it.                               *)
Shown == \A k \in DOMAIN shape : FrameOf(k) = ShownFrame(k)

LEMMA FramesAreShown == VMInv => Shown
<1> SUFFICES ASSUME VMInv, NEW k \in DOMAIN shape
             PROVE  FrameOf(k) = ShownFrame(k)
  BY DEF Shown
<1>1. shape # << >>
  BY EmptySeq
<1>2. k \in 1 .. Len(shape) /\ OpsEnd(k) - 1 + shape[k].ops = OpsBegin(k)
  BY <1>1, FrameFacts DEF VMInv, WholeInv, LayoutInv, FramesApart
<1>3. PICK b \in Nat, o \in Nat : b = OpsBegin(k) /\ o = shape[k].ops
  BY <1>1, <1>2, FrameFacts, RecordFacts
<1>4. OpsEnd(k) \in Int
  <2>1. k < Len(shape) => k + 1 \in 1 .. Len(shape) /\ OpsEnd(k) = Ceiling(k + 1) + 1
    <3>1. Len(shape) \in Nat /\ k \in Nat
      BY <1>1, <1>2, FrameFacts
    <3>2. ASSUME k < Len(shape)
          PROVE  k + 1 \in 1 .. Len(shape) /\ OpsEnd(k) = Ceiling(k + 1) + 1
      <4>1. k + 1 \in 1 .. Len(shape)
        BY <3>1, <3>2
      <4>2. shape[k + 1] \in FrameRecords
        BY <1>1, <4>1, FrameFacts
      <4>3. PICK x \in Nat, y \in Nat, z \in Nat :
              x = shape[k + 1].base /\ y = shape[k + 1].fn.nargs /\ z = shape[k + 1].taken
        BY <4>2, RecordFacts
      <4>4. OpsEnd(k) = x + 3 + y + z
        BY <3>2, <4>3 DEF OpsEnd
      <4>5. Ceiling(k + 1) = x + 2 + y + z
        BY <4>3 DEF Ceiling
      <4> QED
        BY <4>1, <4>4, <4>5
    <3> QED
      BY <3>2
  <2>2. ~(k < Len(shape)) => OpsEnd(k) \in {top + 1, top + 2}
    BY DEF OpsEnd
  <2>3. top \in Nat
    BY <1>1, ThisFacts
  <2>4. \A i \in 1 .. Len(shape) : Ceiling(i) \in Nat
    BY <1>1, FrameFacts
  <2> QED
    BY <2>1, <2>2, <2>3, <2>4
<1>5. OpsBegin(k) - OpsEnd(k) + 1 = o
  BY <1>2, <1>3, <1>4, SMTT(30)
<1>6. OperandsOf(k) = StackFrom(OpsBegin(k), shape[k].ops)
  BY <1>3, <1>5 DEF OperandsOf, StackFrom
<1> QED
  BY <1>6 DEF FrameOf, ShownFrame, SiteOf, ArgsOf, LocalsOf, LocalOf, BaseOf

(* How far down a frame reaches: none below the top, the older ones not    *)
(* below the highest word of the newest.                                   *)
LEMMA LowestWord ==
  ASSUME VMInv, shape # << >>, NEW k \in 1 .. Len(shape)
  PROVE  /\ shape[k].ops \in Nat /\ top \in Nat /\ OpsBegin(k) \in Nat
         /\ top <= OpsBegin(k) - shape[k].ops
         /\ callee # NoCallee => top + 1 <= OpsBegin(k) - shape[k].ops
         /\ k < Len(shape) => Ceiling(Len(shape)) <= OpsBegin(k) - shape[k].ops
<1>1. PICK n \in Nat : n = Len(shape) /\ n \in 1 .. n /\ DOMAIN shape = 1 .. n
  BY Newest
<1>2. PICK b \in Nat, o \in Nat : b = OpsBegin(k) /\ o = shape[k].ops
  BY FrameFacts, RecordFacts
<1>3. top \in Nat
  BY ThisFacts
<1>4. CASE k = n
  <2>1. /\ callee = NoCallee => top + o = b
        /\ callee # NoCallee => top + 1 + o = b
    BY <1>1, <1>2, <1>4, FrameFacts, ThisFacts
  <2> QED
    BY <1>1, <1>2, <1>3, <1>4, <2>1
<1>5. CASE k < n
  <2>1. k + 1 \in 1 .. n /\ shape[k + 1] \in FrameRecords
    <3>1. k + 1 \in 1 .. n
      BY <1>1, <1>5
    <3> QED
      BY <1>1, <3>1, FrameFacts
  <2>2. PICK x \in Nat, y \in Nat, z \in Nat :
          x = shape[k + 1].base /\ y = shape[k + 1].fn.nargs /\ z = shape[k + 1].taken
    BY <2>1, RecordFacts
  <2>3. OpsEnd(k) = x + 3 + y + z
    BY <1>1, <1>5, <2>2 DEF OpsEnd
  <2>c. Ceiling(k + 1) = x + 2 + y + z
    BY <2>2 DEF Ceiling
  <2>4. PICK c \in Nat : c = Ceiling(k + 1) /\ c = x + 2 + y + z
    BY <2>c
  <2>5. OpsEnd(k) - 1 + o = b
    BY <1>1, <1>2 DEF VMInv, WholeInv, LayoutInv, FramesApart
  <2>6. b - o = c
    <3>1. PICK e \in Int : e = OpsEnd(k) /\ e = x + 3 + y + z
      BY <2>3
    <3>2. e - 1 + o = b
      BY <1>2, <2>5, <3>1
    <3> QED
      BY <2>4, <3>1, <3>2
  <2>7. PICK d \in Nat : d = Ceiling(n)
    BY <1>1, FrameFacts
  <2>8. d <= c
    <3>1. k + 1 = n => d = c
      BY <2>4, <2>7
    <3>2. k + 1 < n => d <= OpsBegin(k + 1)
      BY <1>1, <2>1, <2>7, FrameFacts
    <3>3. OpsBegin(k + 1) \in Nat /\ OpsBegin(k + 1) + 2 <= x /\ x + 2 <= c
      BY <1>1, <2>1, <2>2, <2>4, FrameFacts DEF BaseOf
    <3>4. k + 1 = n \/ k + 1 < n
      BY <1>1, <1>5
    <3> QED
      BY <2>2, <2>4, <2>7, <3>1, <3>2, <3>3, <3>4, SMTT(30)
  <2>9. top + 4 <= d
    <3>1. /\ BaseOf(n) \in Nat /\ OpsBegin(n) \in Nat /\ BaseOf(n) + 2 <= d
          /\ OpsBegin(n) + 2 <= BaseOf(n) /\ top <= OpsBegin(n)
      BY <1>1, <2>7, FrameFacts
    <3> QED
      BY <1>3, <2>7, <3>1
  <2> QED
    BY <1>1, <1>2, <1>3, <2>4, <2>6, <2>7, <2>8, <2>9
<1>6. k = n \/ k < n
  BY <1>1
<1> QED
  BY <1>4, <1>5, <1>6

(* A frame whose words are not written stays what it was.                  *)
LEMMA PartsSame ==
  ASSUME VMInv, shape # << >>, NEW k \in 1 .. Len(shape),
         shape'[k].fn = shape[k].fn, shape'[k].base = shape[k].base,
         NEW z \in Nat, z <= BaseOf(k),
         \A a \in 0 .. Size - 1 : a > z => mem'[a] = mem[a]
  PROVE  /\ SiteOf(k)' = SiteOf(k) /\ ArgsOf(k)' = ArgsOf(k) /\ OpsBegin(k)' = OpsBegin(k)
         /\ shape'[k].stored = shape[k].stored /\ z <= OpsBegin(k) =>
              LocalsOf(k)' = LocalsOf(k)
<1>1. PICK b \in Nat, a \in Nat, l \in Nat :
        b = BaseOf(k) /\ a = shape[k].fn.nargs /\ l = shape[k].fn.nlocals
  BY FrameFacts, RecordFacts
<1>2. /\ BaseOf(k)' = b /\ shape'[k].fn.nargs = a /\ shape'[k].fn.nlocals = l
      /\ OpsBegin(k)' = OpsBegin(k)
  BY <1>1 DEF BaseOf, OpsBegin
<1>3. Size \in Nat /\ StackBegin \in Nat /\ StackBegin < Size
  BY SizeFacts DEF VMInv, WholeInv, VMTypeOK
<1>4. b <= StackBegin - 1
  BY <1>1, FrameFacts
<1>5. k # 1 => b + 2 + a <= StackBegin - 3
  <2>1. k # 1 => Ceiling(k) <= StackBegin - 3 /\ Ceiling(k) \in Nat
    <3>1. k # 1 => k > 1
      BY FrameFacts
    <3> QED
      BY <3>1, FrameFacts
  <2>2. PICK t \in Nat : t = shape[k].taken
    BY FrameFacts, RecordFacts
  <2>3. Ceiling(k) = b + 2 + a + t
    BY <1>1, <2>2 DEF Ceiling, BaseOf
  <2>4. PICK c \in Nat : c = Ceiling(k) /\ c = b + 2 + a + t
    BY <2>3
  <2>5. PICK s \in Nat : s = StackBegin
    BY <1>3
  <2>6. k # 1 => c <= s - 3
    BY <2>1, <2>4, <2>5
  <2> QED
    BY ONLY <2>4, <2>5, <2>6
<1>6. SiteOf(k)' = SiteOf(k)
  <2>1. k # 1 => b + 2 \in 0 .. Size - 1 /\ b + 2 > z
    BY <1>1, <1>3, <1>5, SMTT(30)
  <2> QED
    BY <1>1, <1>2, <2>1 DEF SiteOf, UnsetLocal, Word
<1>7. ArgsOf(k)' = ArgsOf(k)
  <2>1. ASSUME k # 1, NEW j \in 1 .. a
        PROVE  mem'[b + 2 + a - (j - 1)] = mem[b + 2 + a - (j - 1)]
    <3>1. PICK s \in Nat, e \in Nat : s = StackBegin /\ e = Size /\ s < e
      BY <1>3
    <3>2. b + 2 + a <= s - 3 /\ z <= b /\ j \in Nat /\ 1 <= j /\ j <= a
      BY <1>1, <1>5, <2>1, <3>1
    <3>3. b + 2 + a - (j - 1) \in 0 .. e - 1 /\ b + 2 + a - (j - 1) > z
      BY ONLY <3>1, <3>2, b \in Nat, a \in Nat, z \in Nat
    <3>4. b + 2 + a - (j - 1) \in 0 .. Size - 1 /\ b + 2 + a - (j - 1) > z
      BY <3>1, <3>3
    <3> QED
      BY <3>4
  <2> QED
    BY <1>1, <1>2, <2>1 DEF ArgsOf
<1>8. ASSUME shape'[k].stored = shape[k].stored, z <= OpsBegin(k)
      PROVE  LocalsOf(k)' = LocalsOf(k)
  <2>0. PICK p \in Nat, m \in Nat, e \in Nat :
          /\ p = OpsBegin(k) /\ p + l + 2 = b /\ z <= p
          /\ m = StackBegin /\ e = Size /\ m < e /\ b <= m - 1
    <3>1. OpsBegin(k) \in Nat /\ OpsBegin(k) + shape[k].fn.nlocals + 2 = BaseOf(k)
      BY FrameFacts
    <3> QED
      BY <1>1, <1>3, <1>4, <1>8, <3>1
  <2>1. ASSUME NEW j \in 1 .. l
        PROVE  mem'[b - j] = mem[b - j]
    <3>1. b - j \in 0 .. e - 1 /\ b - j > z
      BY ONLY <2>0, b \in Nat, l \in Nat, z \in Nat, p \in Nat, m \in Nat, e \in Nat, j \in 1 .. l
    <3> QED
      BY <2>0, <3>1
  <2> QED
    BY <1>1, <1>2, <1>8, <2>1 DEF LocalsOf, UnsetLocal, Word
<1> QED
  BY <1>2, <1>6, <1>7, <1>8

LEMMA FrameSame ==
  ASSUME VMInv, shape # << >>, Shown, Shown', NEW k \in 1 .. Len(shape), k \in DOMAIN shape',
         shape'[k].fn = shape[k].fn, shape'[k].base = shape[k].base,
         shape'[k].stored = shape[k].stored, shape'[k].ops = shape[k].ops,
         NEW z \in Nat, z <= OpsBegin(k) - shape[k].ops,
         \A a \in 0 .. Size - 1 : a > z => mem'[a] = mem[a]
  PROVE  FrameOf(k)' = FrameOf(k)
<1>1. PICK b \in Nat, p \in Nat, o \in Nat :
        /\ b = BaseOf(k) /\ p = OpsBegin(k) /\ o = shape[k].ops /\ p + 2 <= b
        /\ b <= StackBegin - 1
  BY FrameFacts, RecordFacts
<1>2. Size \in Nat /\ StackBegin \in Nat /\ StackBegin < Size
  BY SizeFacts DEF VMInv, WholeInv, VMTypeOK
<1>3. z <= OpsBegin(k) /\ z <= BaseOf(k)
  BY <1>1
<1>4. /\ SiteOf(k)' = SiteOf(k) /\ ArgsOf(k)' = ArgsOf(k) /\ OpsBegin(k)' = OpsBegin(k)
      /\ LocalsOf(k)' = LocalsOf(k)
  BY <1>3, PartsSame
<1>5. StackFrom(OpsBegin(k), shape[k].ops)' = StackFrom(OpsBegin(k), shape[k].ops)
  <2>1. ASSUME NEW j \in 1 .. o
        PROVE  mem'[p - j + 1] = mem[p - j + 1]
    <3>1. p - j + 1 \in 0 .. Size - 1 /\ p - j + 1 > z
      BY <1>1, <1>2, SMTT(30)
    <3> QED
      BY <3>1
  <2> QED
    BY <1>1, <1>4, <2>1 DEF StackFrom
<1>6. k \in DOMAIN shape
  BY FrameFacts
<1>7. FrameOf(k) = ShownFrame(k) /\ FrameOf(k)' = ShownFrame(k)'
  BY <1>6 DEF Shown
<1> QED
  BY <1>4, <1>5, <1>7 DEF ShownFrame

-----------------------------------------------------------------------------
(***************************************************************************)
(* The list of frames                                                      *)
(***************************************************************************)

LEMMA ListFacts ==
  ASSUME VMInv, shape # << >>, NEW n \in Nat, n = Len(shape)
  PROVE  /\ n \in Nat \ {0} /\ FrameList = [k \in 1 .. n |-> FrameOf(k)]
         /\ FrameList = [k \in 1 .. n |-> FrameList[k]]
         /\ \A k \in 1 .. n : FrameList[k] = FrameOf(k)
         /\ Len(FrameList) = n /\ Last(FrameList) = FrameOf(n) /\ FrameList # << >>
<1>1. n \in Nat \ {0} /\ n \in 1 .. n
  BY FrameFacts
<1>2. FrameList = [k \in 1 .. n |-> FrameOf(k)]
  BY DEF FrameList
<1>3. /\ FrameList = [k \in 1 .. n |-> FrameList[k]]
      /\ \A k \in 1 .. n : FrameList[k] = FrameOf(k)
  BY <1>2
<1>4. Last(FrameList) = FrameList[n] /\ Len(FrameList) = n /\ FrameList # << >>
  <2>1. PICK m \in Nat : n = m + 1
    BY <1>1
  <2>2. Indexed(FrameList, n) /\ Repeats(FrameList, FrameList, 0, m)
    <3>1. \A k \in 1 .. m : 0 + k = k
      BY <2>1
    <3> QED
      BY <1>3, <3>1 DEF Indexed, Repeats
  <2> QED
    BY ONLY <2>1, <2>2, n \in Nat, LastReplaced
<1> QED
  BY <1>1, <1>2, <1>3, <1>4

(* A step that keeps the number of frames, and every word above some place *)
(* in the newest one, changes at most this one.                            *)
LEMMA SameHeight ==
  ASSUME VMInv, Shown, Shown', shape # << >>, shape' # << >>,
         NEW n \in Nat, n = Len(shape), Len(shape') = n, DOMAIN shape' = 1 .. n,
         \A k \in 1 .. n - 1 : shape'[k] = shape[k],
         NEW z \in Nat, z <= Ceiling(n),
         \A a \in 0 .. Size - 1 : a > z => mem'[a] = mem[a]
  PROVE  FrameList' = Append(Front(FrameList), FrameOf(n)')
<1>1. n \in Nat \ {0} /\ FrameList = [k \in 1 .. n |-> FrameList[k]]
      /\ \A k \in 1 .. n : FrameList[k] = FrameOf(k)
  BY ListFacts
<1>0. n \in Nat \ {0}
  BY <1>1
<1>2. FrameList' = [k \in 1 .. n |-> FrameOf(k)'] /\ n \in 1 .. n
  BY <1>1 DEF FrameList
<1>3. ASSUME NEW k \in 1 .. n - 1
      PROVE  FrameOf(k)' = FrameOf(k)
  <2>1. k \in 1 .. Len(shape) /\ k \in DOMAIN shape' /\ k < Len(shape)
    BY <1>1, <1>3
  <2>2. PICK d \in Nat : d = OpsBegin(k) - shape[k].ops /\ Ceiling(n) <= d /\ Ceiling(n) \in Nat
    <3>1. /\ shape[k].ops \in Nat /\ OpsBegin(k) \in Nat
          /\ Ceiling(n) <= OpsBegin(k) - shape[k].ops
      BY <2>1, LowestWord
    <3>2. Ceiling(n) \in Nat
      BY <1>2, FrameFacts
    <3>3. PICK b \in Nat, o \in Nat, c \in Nat :
            b = OpsBegin(k) /\ o = shape[k].ops /\ c = Ceiling(n)
      BY <3>1, <3>2
    <3>4. c <= b - o
      BY <3>1, <3>3
    <3>5. b - o \in Nat
      BY <3>4, <3>3
    <3> QED
      BY <3>3, <3>4, <3>5
  <2>3. z <= OpsBegin(k) - shape[k].ops
    BY <2>2
  <2>4. shape'[k] = shape[k]
    BY <1>3
  <2> QED
    BY <2>1, <2>3, <2>4, FrameSame
<1>4. PICK m \in Nat : n = m + 1
  BY ONLY <1>0
<1>5. Indexed(FrameList, n) /\ Indexed(FrameList', n) /\ Repeats(FrameList', FrameList, 0, m)
  <2>1. ASSUME NEW k \in 1 .. m
        PROVE  0 + k = k /\ k \in 1 .. n - 1 /\ k \in 1 .. n
    BY <1>4
  <2>2. FrameList' = [k \in 1 .. n |-> FrameList'[k]]
    BY <1>2
  <2> QED
    BY <1>1, <1>2, <1>3, <2>1, <2>2 DEF Indexed, Repeats
<1>6. FrameList' = Append(Front(FrameList), FrameList'[n])
  BY ONLY <1>4, <1>5, n \in Nat, LastReplaced
<1> QED
  BY <1>2, <1>6

(* A frame with other operands.                                            *)
LEMMA OpsField ==
  ASSUME NEW s, NEW a, NEW l, NEW f, NEW F, F = [site |-> s, args |-> a, locals |-> l, ops |-> f]
  PROVE  /\ F.site = s /\ F.args = a /\ F.locals = l /\ F.ops = f
         /\ \A g : [F EXCEPT !.ops = g] = [site |-> s, args |-> a, locals |-> l, ops |-> g]
<1>1. F.site = s /\ F.args = a /\ F.locals = l /\ F.ops = f
  OBVIOUS
<1>2. ASSUME NEW g
      PROVE  [[site |-> s, args |-> a, locals |-> l, ops |-> f] EXCEPT !.ops = g]
               = [site |-> s, args |-> a, locals |-> l, ops |-> g]
  OBVIOUS
<1> QED
  BY <1>1, <1>2, Zenon

(* One operand more: what is written at the first free word.               *)
LEMMA OperandAdded ==
  ASSUME VMInv, Shown, Shown', shape # << >>, NEW k \in 1 .. Len(shape), k \in DOMAIN shape',
         shape'[k].fn = shape[k].fn, shape'[k].base = shape[k].base,
         shape'[k].stored = shape[k].stored, shape'[k].ops = shape[k].ops + 1,
         NEW z \in Nat, z = OpsBegin(k) - shape[k].ops,
         \A a \in 0 .. Size - 1 : a > z => mem'[a] = mem[a]
  PROVE  FrameOf(k)' = [FrameOf(k) EXCEPT !.ops = Append(FrameOf(k).ops, mem'[z])]
<1>1. PICK b \in Nat, p \in Nat, o \in Nat :
        /\ b = BaseOf(k) /\ p = OpsBegin(k) /\ o = shape[k].ops /\ p + 2 <= b
        /\ b <= StackBegin - 1
  BY FrameFacts, RecordFacts
<1>2. Size \in Nat /\ StackBegin \in Nat /\ StackBegin < Size
  BY SizeFacts DEF VMInv, WholeInv, VMTypeOK
<1>3. z = p - o /\ z <= OpsBegin(k) /\ z <= BaseOf(k)
  BY <1>1
<1>4. /\ SiteOf(k)' = SiteOf(k) /\ ArgsOf(k)' = ArgsOf(k) /\ OpsBegin(k)' = p
      /\ LocalsOf(k)' = LocalsOf(k)
  BY <1>1, <1>3, PartsSame
<1>f. PICK F : F = StackFrom(OpsBegin(k), shape[k].ops)
  OBVIOUS
<1>g. PICK G : G = StackFrom(OpsBegin(k), shape[k].ops)'
  OBVIOUS
<1>5. F = [j \in 1 .. o |-> F[j]] /\ \A j \in 1 .. o : F[j] = mem[p - j + 1]
  BY <1>1, <1>f DEF StackFrom
<1>6. /\ G = [j \in 1 .. o + 1 |-> G[j]] /\ \A j \in 1 .. o + 1 : G[j] = mem'[p - j + 1]
  BY <1>1, <1>4, <1>g DEF StackFrom
<1>7. ASSUME NEW j \in 1 .. o
      PROVE  mem'[p - j + 1] = mem[p - j + 1]
  <2>0. PICK e \in Nat, m \in Nat : e = Size /\ m = StackBegin /\ m < e /\ b <= m - 1
    BY <1>1, <1>2
  <2>2. z = p - o /\ p + 2 <= b /\ b <= m - 1 /\ m < e
    BY <1>1, <1>3, <2>0
  <2>1. p - j + 1 \in 0 .. e - 1 /\ p - j + 1 > z
    BY ONLY <2>2, e \in Nat, m \in Nat, b \in Nat, p \in Nat, o \in Nat, z \in Nat, j \in 1 .. o
  <2> QED
    BY <2>0, <2>1
<1>m. PICK m \in Nat : m = o + 1 /\ p - m + 1 = z
  BY ONLY <1>3, p \in Nat, o \in Nat, z \in Nat
<1>8. (\A j \in 1 .. o : G[j] = F[j]) /\ G[m] = mem'[z]
  <2>1. (\A j \in 1 .. o : j \in 1 .. m) /\ m \in 1 .. m
    BY <1>m
  <2> QED
    BY <1>5, <1>6, <1>7, <1>m, <2>1
<1>9. G = Append(F, mem'[z])
  <2>1. Indexed(F, o)
    BY <1>5 DEF Indexed
  <2>2. Indexed(G, m)
    BY <1>6, <1>m DEF Indexed
  <2>3. Repeats(G, F, 0, o)
    <3>1. \A j \in 1 .. o : 0 + j = j
      OBVIOUS
    <3> QED
      BY <1>8, <3>1 DEF Repeats
  <2>4. G = Append(F, G[m])
    BY ONLY <1>m, <2>1, <2>2, <2>3, o \in Nat, LastAdded
  <2> QED
    BY <1>8, <2>4
<1>10. k \in DOMAIN shape
  BY FrameFacts
<1>11. FrameOf(k) = ShownFrame(k) /\ FrameOf(k)' = ShownFrame(k)'
  BY <1>10 DEF Shown
<1>12. /\ FrameOf(k) = [site |-> SiteOf(k), args |-> ArgsOf(k), locals |-> LocalsOf(k), ops |-> F]
       /\ FrameOf(k)' = [site |-> SiteOf(k), args |-> ArgsOf(k), locals |-> LocalsOf(k), ops |-> G]
  BY <1>4, <1>11, <1>f, <1>g DEF ShownFrame
<1> QED
  <2>1. [FrameOf(k) EXCEPT !.ops = G]
          = [site |-> SiteOf(k), args |-> ArgsOf(k), locals |-> LocalsOf(k), ops |-> G]
    BY ONLY <1>12, OpsField
  <2>2. FrameOf(k).ops = F
    BY ONLY <1>12, OpsField
  <2> QED
    BY ONLY <1>9, <1>12, <2>1, <2>2, Zenon

-----------------------------------------------------------------------------
(***************************************************************************)
(* Instructions of one frame                                               *)
(***************************************************************************)

LEMMA NewestReplaced ==
  ASSUME VMInv, shape # << >>, NEW s \in FrameRecords, shape' = WithThis(s),
         NEW n \in Nat, n = Len(shape)
  PROVE  /\ shape' # << >> /\ Len(shape') = n /\ DOMAIN shape' = 1 .. n
         /\ n \in 1 .. n /\ shape[n] = This /\ shape'[n] = s
         /\ \A k \in 1 .. n - 1 : shape'[k] = shape[k]
<1>1. shape \in Seq(FrameRecords)
  BY DEF VMInv, WholeInv, LayoutInv, HistoryTypes
<1>2. n \in 1 .. n /\ DOMAIN shape = 1 .. n /\ This = shape[n]
  BY FrameFacts
<1>3. shape' = Append(Front(shape), s)
  BY DEF WithThis
<1>4. /\ shape' # << >> /\ Len(shape') = Len(shape) /\ DOMAIN shape' = DOMAIN shape
      /\ \A k \in 1 .. Len(shape) - 1 : shape'[k] = shape[k]
      /\ shape'[Len(shape)] = s
  BY ONLY <1>1, <1>3, shape # << >>, s \in FrameRecords, ReplaceLast
<1> QED
  BY <1>2, <1>4

(* The frame of the abstract specification that runs.                      *)
LEMMA ThisFrame ==
  ASSUME VMInv, shape # << >>, NEW n \in Nat, n = Len(shape)
  PROVE  /\ Frames!This = FrameOf(n)
         /\ \A frame : Frames!WithThis(frame) = Append(Front(FrameList), frame)
<1>1. Last(FrameList) = FrameOf(n)
  BY ListFacts
<1> QED
  BY <1>1 DEF Frames!This, Frames!WithThis, Frames!Last, Frames!Front, Last, Front

Running == status = "running" /\ status' = "running"

(* A word is pushed as an operand.                                         *)
LEMMA PushIsPush ==
  ASSUME VMInv, Shown, Shown', PushStep, NEW w, mem'[top] = w
  PROVE  Running /\ Frames!PushValue(w)
<1> DEFINE s == [This EXCEPT !.ops = @ + 1]
<1>1. /\ Executing /\ top > 0 /\ shape' = WithThis(s) /\ UNCHANGED status
      /\ \A a \in 0 .. Size - 1 : a > top => mem'[a] = mem[a]
  BY DEF PushStep
<1>2. /\ shape # << >> /\ top \in Nat /\ Size \in Nat /\ StackBegin \in Nat /\ StackBegin < Size
      /\ mem \in [0 .. Size - 1 -> Words] /\ status = "running"
  BY <1>1, RegisterFacts
<1>3. PICK n \in Nat :
        /\ n = Len(shape) /\ n \in 1 .. n /\ n \in DOMAIN shape /\ This = shape[n]
        /\ top + This.ops = OpsBegin(n) /\ OpsBegin(n) \in Nat /\ base <= StackBegin - 1
        /\ OpsBegin(n) + 2 <= base /\ base \in Nat /\ base = BaseOf(n) /\ This.ops \in Nat
  BY <1>1, RegisterFacts
<1>4. /\ s \in FrameRecords /\ s.fn = This.fn /\ s.base = This.base
      /\ s.stored = This.stored /\ s.ops = This.ops + 1
  <2>1. This \in FrameRecords
    BY <1>2, FrameFacts
  <2>2. PICK o \in Nat : o = This.ops /\ o + 1 \in Nat
    BY <1>3
  <2> QED
    BY <2>1, <2>2, OpsChanged
<1> HIDE DEF s
<1>5. /\ shape' # << >> /\ Len(shape') = n /\ DOMAIN shape' = 1 .. n /\ shape'[n] = s
      /\ \A k \in 1 .. n - 1 : shape'[k] = shape[k]
  BY <1>1, <1>2, <1>3, <1>4, NewestReplaced
<1>6. PICK o \in Nat, b \in Nat : o = This.ops /\ b = OpsBegin(n) /\ top + o = b
  BY <1>3
<1>7. top = b - o
  BY ONLY <1>6, <1>2
<1>9. mem'[top] = w /\ \A a \in 0 .. Size - 1 : a > top => mem'[a] = mem[a]
  BY <1>1
<1>10. top <= Ceiling(n)
  <2>1. Ceiling(n) \in Nat /\ top <= OpsBegin(n) /\ BaseOf(n) + 2 <= Ceiling(n)
    BY <1>2, <1>3, FrameFacts
  <2> QED
    BY <1>2, <1>3, <2>1
<1>11. FrameList' = Append(Front(FrameList), FrameOf(n)')
  BY <1>2, <1>3, <1>5, <1>9, <1>10, SameHeight
<1>12. FrameOf(n)' = [FrameOf(n) EXCEPT !.ops = Append(FrameOf(n).ops, mem'[top])]
  <2>1. /\ shape'[n].fn = shape[n].fn /\ shape'[n].base = shape[n].base
        /\ shape'[n].stored = shape[n].stored /\ shape'[n].ops = shape[n].ops + 1
        /\ top = OpsBegin(n) - shape[n].ops /\ n \in 1 .. Len(shape) /\ n \in DOMAIN shape'
    BY <1>3, <1>4, <1>5, <1>6, <1>7
  <2> QED
    BY <1>2, <1>9, <2>1, OperandAdded
<1>13. /\ Frames!This = FrameOf(n)
       /\ \A frame : Frames!WithThis(frame) = Append(Front(FrameList), frame)
  BY <1>2, <1>3, ThisFrame
<1>14. FrameList' = Frames!WithThis([Frames!This EXCEPT !.ops = Append(@, w)])
  <2>1. FrameOf(n)' = [FrameOf(n) EXCEPT !.ops = Append(@, w)]
    BY <1>9, <1>12, Zenon
  <2> QED
    BY <1>11, <1>13, <2>1, Zenon
<1> QED
  BY <1>1, <1>2, <1>14 DEF Frames!PushValue, Running

LEMMA ConstIsLiteral ==
  ASSUME VMInv, Shown, Shown', Const \/ MakeClosure
  PROVE  Running /\ Frames!Literal
<1>1. PICK v \in Values : PushStep /\ mem'[top] = v
  BY PushesConst, PushesClosure DEF Values
<1>2. Running /\ Frames!PushValue(v)
  BY <1>1, PushIsPush
<1> QED
  BY <1>2 DEF Frames!Literal

(* The newest frame, as its words are.                                     *)
LEMMA ThisParts ==
  ASSUME VMInv, Shown, shape # << >>, NEW n \in Nat, n = Len(shape)
  PROVE  /\ n \in 1 .. n /\ n \in 1 .. Len(shape) /\ n \in DOMAIN shape
         /\ Frames!This = FrameOf(n)
         /\ FrameOf(n) = [site |-> SiteOf(n), args |-> ArgsOf(n), locals |-> LocalsOf(n),
                          ops |-> StackFrom(OpsBegin(n), shape[n].ops)]
         /\ Frames!This.args = ArgsOf(n) /\ Frames!This.locals = LocalsOf(n)
         /\ Frames!This.ops = StackFrom(OpsBegin(n), shape[n].ops)
<1>1. Frames!This = FrameOf(n)
  BY ThisFrame
<1>2. n \in 1 .. n /\ n \in 1 .. Len(shape) /\ n \in DOMAIN shape
  BY FrameFacts
<1>3. FrameOf(n) = [site |-> SiteOf(n), args |-> ArgsOf(n), locals |-> LocalsOf(n),
                    ops |-> StackFrom(OpsBegin(n), shape[n].ops)]
  BY <1>2 DEF Shown, ShownFrame
<1>4. /\ FrameOf(n).args = ArgsOf(n) /\ FrameOf(n).locals = LocalsOf(n)
      /\ FrameOf(n).ops = StackFrom(OpsBegin(n), shape[n].ops)
  BY ONLY <1>3, OpsField
<1> QED
  BY <1>1, <1>2, <1>3, <1>4

LEMMA LoadArgIsLoadArg ==
  ASSUME VMInv, Shown, Shown', LoadArg
  PROVE  Running /\ Frames!LoadArg
<1>1. PICK k \in ArgIndices : Executing /\ PushStep /\ mem'[top] = mem[ArgAddress(k)]
  BY PushesArg
<1>2. Len(shape) > 1 /\ k \in 0 .. This.fn.nargs - 1
  <2>1. k \in IF Len(shape) > 1 THEN 0 .. This.fn.nargs - 1 ELSE {}
    BY DEF ArgIndices
  <2> QED
    BY <2>1
<1>3. shape # << >> /\ base \in Nat /\ nargs \in Nat
  BY <1>1, RegisterFacts
<1>4. PICK n \in Nat :
        n = Len(shape) /\ This = shape[n] /\ base = BaseOf(n) /\ nargs = This.fn.nargs
  BY <1>1, RegisterFacts
<1>5. Frames!This.args = ArgsOf(n)
  BY <1>3, <1>4, ThisParts
<1>6. /\ DOMAIN ArgsOf(n) = 1 .. nargs
      /\ \A j \in 1 .. nargs : ArgsOf(n)[j] = mem[base + 2 + nargs - (j - 1)]
  BY <1>2, <1>4 DEF ArgsOf
<1>7. k + 1 \in 1 .. nargs /\ base + 2 + nargs - ((k + 1) - 1) = base + 2 + nargs - k
  BY <1>2, <1>3, <1>4
<1>8. k + 1 \in DOMAIN Frames!This.args /\ Frames!This.args[k + 1] = mem[ArgAddress(k)]
  BY <1>5, <1>6, <1>7 DEF ArgAddress
<1>9. Running /\ Frames!PushValue(mem[ArgAddress(k)])
  BY <1>1, PushIsPush
<1> QED
  BY <1>8, <1>9 DEF Frames!LoadArg

(* A frame from which operands are taken keeps the others.                 *)
LEMMA OperandsTaken ==
  ASSUME VMInv, Shown, Shown', shape # << >>, NEW k \in 1 .. Len(shape), k \in DOMAIN shape',
         shape'[k].fn = shape[k].fn, shape'[k].base = shape[k].base,
         shape'[k].stored = shape[k].stored,
         NEW q \in Nat, shape'[k].ops = q, q <= shape[k].ops,
         NEW z \in Nat, z <= OpsBegin(k) - q,
         \A a \in 0 .. Size - 1 : a > z => mem'[a] = mem[a]
  PROVE  FrameOf(k)' = [FrameOf(k) EXCEPT !.ops = SubSeq(FrameOf(k).ops, 1, q)]
<1>1. PICK b \in Nat, p \in Nat, o \in Nat :
        /\ b = BaseOf(k) /\ p = OpsBegin(k) /\ o = shape[k].ops /\ p + 2 <= b
        /\ b <= StackBegin - 1
  BY FrameFacts, RecordFacts
<1>2. Size \in Nat /\ StackBegin \in Nat /\ StackBegin < Size
  BY SizeFacts DEF VMInv, WholeInv, VMTypeOK
<1>3. z <= p - q /\ z <= OpsBegin(k) /\ z <= BaseOf(k) /\ q <= o
  BY <1>1
<1>4. /\ SiteOf(k)' = SiteOf(k) /\ ArgsOf(k)' = ArgsOf(k) /\ OpsBegin(k)' = p
      /\ LocalsOf(k)' = LocalsOf(k)
  BY <1>1, <1>3, PartsSame
<1>f. PICK F : F = StackFrom(OpsBegin(k), shape[k].ops)
  OBVIOUS
<1>g. PICK G : G = StackFrom(OpsBegin(k), shape[k].ops)'
  OBVIOUS
<1>5. F = [j \in 1 .. o |-> F[j]] /\ \A j \in 1 .. o : F[j] = mem[p - j + 1]
  BY <1>1, <1>f DEF StackFrom
<1>6. G = [j \in 1 .. q |-> G[j]] /\ \A j \in 1 .. q : G[j] = mem'[p - j + 1]
  BY <1>1, <1>4, <1>g DEF StackFrom
<1>7. ASSUME NEW j \in 1 .. q
      PROVE  mem'[p - j + 1] = mem[p - j + 1] /\ j \in 1 .. o
  <2>0. PICK e \in Nat, m \in Nat : e = Size /\ m = StackBegin /\ m < e /\ b <= m - 1
    BY <1>1, <1>2
  <2>2. z <= p - q /\ p + 2 <= b /\ b <= m - 1 /\ m < e /\ q <= o
    BY <1>1, <1>3, <2>0
  <2>1. p - j + 1 \in 0 .. e - 1 /\ p - j + 1 > z /\ j \in 1 .. o
    BY ONLY <2>2, e \in Nat, m \in Nat, b \in Nat, p \in Nat, o \in Nat, q \in Nat, z \in Nat,
            j \in 1 .. q
  <2> QED
    BY <2>0, <2>1
<1>9. G = SubSeq(F, 1, q)
  <2>1. Indexed(F, o)
    BY <1>5 DEF Indexed
  <2>2. Indexed(G, q)
    BY <1>6 DEF Indexed
  <2>3. Repeats(G, F, 0, q)
    <3>1. \A j \in 1 .. q : 0 + j = j
      OBVIOUS
    <3> QED
      BY <1>5, <1>6, <1>7, <3>1, SMTT(30) DEF Repeats
  <2>4. 0 \in Nat /\ 0 + q <= o
    BY ONLY <1>3, o \in Nat, q \in Nat
  <2>5. G = SubSeq(F, 0 + 1, 0 + q)
    BY ONLY <2>1, <2>2, <2>3, <2>4, o \in Nat, q \in Nat, PartOf
  <2>6. 0 + 1 = 1 /\ 0 + q = q
    OBVIOUS
  <2> QED
    BY ONLY <2>5, <2>6
<1>10. k \in DOMAIN shape
  BY FrameFacts
<1>11. FrameOf(k) = ShownFrame(k) /\ FrameOf(k)' = ShownFrame(k)'
  BY <1>10 DEF Shown
<1>12. /\ FrameOf(k) = [site |-> SiteOf(k), args |-> ArgsOf(k), locals |-> LocalsOf(k), ops |-> F]
       /\ FrameOf(k)' = [site |-> SiteOf(k), args |-> ArgsOf(k), locals |-> LocalsOf(k), ops |-> G]
  BY <1>4, <1>11, <1>f, <1>g DEF ShownFrame
<1> QED
  <2>1. [FrameOf(k) EXCEPT !.ops = G]
          = [site |-> SiteOf(k), args |-> ArgsOf(k), locals |-> LocalsOf(k), ops |-> G]
    BY ONLY <1>12, OpsField
  <2>2. FrameOf(k).ops = F
    BY ONLY <1>12, OpsField
  <2> QED
    BY ONLY <1>9, <1>12, <2>1, <2>2, Zenon

(* The operands of the newest frame, as a sequence.                        *)
LEMMA ThisOperands ==
  ASSUME VMInv, Shown, shape # << >>, NEW n \in Nat, n = Len(shape)
  PROVE  \E o \in Nat, p \in Nat :
           /\ o = This.ops /\ o = shape[n].ops /\ p = OpsBegin(n)
           /\ Indexed(Frames!This.ops, o)
           /\ Len(Frames!This.ops) = o
           /\ o > 0 => Frames!This.ops # << >>
           /\ \A j \in 1 .. o : Frames!This.ops[j] = mem[p - j + 1]
           /\ o > 0 => Last(Frames!This.ops) = mem[p - o + 1]
           /\ o > 0 => Front(Frames!This.ops) = SubSeq(Frames!This.ops, 1, o - 1)
<1>1. PICK o \in Nat, p \in Nat : o = This.ops /\ o = shape[n].ops /\ p = OpsBegin(n)
  <2>1. n \in 1 .. Len(shape) /\ This = shape[n] /\ OpsBegin(n) \in Nat
    BY FrameFacts
  <2>2. This.ops \in Nat
    BY ThisFacts
  <2> QED
    BY <2>1, <2>2
<1>2. PICK F : F = Frames!This.ops
  OBVIOUS
<1>3. F = StackFrom(p, o)
  BY <1>1, <1>2, ThisParts
<1>4. F = [j \in 1 .. o |-> F[j]] /\ \A j \in 1 .. o : F[j] = mem[p - j + 1]
  BY <1>3 DEF StackFrom
<1>5. Indexed(F, o)
  BY <1>4 DEF Indexed
<1>6. Len(F) = o
  BY ONLY <1>3, o \in Nat, LenProperties DEF StackFrom
<1>7. o > 0 => F # << >>
  BY <1>6
<1>8. Last(F) = F[o] /\ Front(F) = SubSeq(F, 1, o - 1)
  BY <1>6 DEF Last, Front
<1>9. o > 0 => o \in 1 .. o
  OBVIOUS
<1>10. o > 0 => Last(F) = mem[p - o + 1]
  BY <1>4, <1>8, <1>9
<1>11. /\ o = This.ops /\ o = shape[n].ops /\ p = OpsBegin(n)
       /\ Indexed(F, o)
       /\ Len(F) = o
       /\ o > 0 => F # << >>
       /\ \A j \in 1 .. o : F[j] = mem[p - j + 1]
       /\ o > 0 => Last(F) = mem[p - o + 1]
       /\ o > 0 => Front(F) = SubSeq(F, 1, o - 1)
  BY <1>1, <1>4, <1>5, <1>6, <1>7, <1>8, <1>10
<1> QED
  BY ONLY <1>2, <1>11, o \in Nat, p \in Nat, Zenon

(* The last element of what was appended to.                               *)
LEMMA LastOfAppended ==
  ASSUME NEW n \in Nat, NEW F, Indexed(F, n), NEW x
  PROVE  /\ Append(F, x) # << >> /\ Last(Append(F, x)) = x
         /\ n > 0 => Last(Append(Front(F), x)) = x
<1> DEFINE S == {F[k] : k \in 1 .. n} \cup {x}
<1>1. (\A k \in 1 .. n : F[k] \in S) /\ x \in S
  OBVIOUS
<1> HIDE DEF S
<1>2. F \in Seq(S) /\ Len(F) = n
  BY <1>1, SeqByPositions DEF Indexed
<1>3. Append(F, x) # << >> /\ Last(Append(F, x)) = x
  BY <1>1, <1>2, AppendAt
<1>4. ASSUME n > 0
      PROVE  Last(Append(Front(F), x)) = x
  <2>1. F # << >>
    BY <1>2, <1>4
  <2> QED
    BY <1>1, <1>2, <2>1, ReplaceLast
<1> QED
  BY <1>3, <1>4

(* A word that was pushed is the last operand of the frame that runs.      *)
LEMMA PushedIsLast ==
  ASSUME VMInv, Shown, shape # << >>, NEW w, Frames!PushValue(w)
  PROVE  /\ Frames!Last(FrameList').ops # << >>
         /\ Frames!Last(Frames!Last(FrameList').ops) = w
<1>1. FrameList' = Frames!WithThis([Frames!This EXCEPT !.ops = Append(@, w)])
  BY DEF Frames!PushValue
<1>2. PICK n \in Nat : n = Len(shape)
  BY FrameFacts
<1>3. /\ Frames!This = FrameOf(n)
      /\ FrameOf(n) = [site |-> SiteOf(n), args |-> ArgsOf(n), locals |-> LocalsOf(n),
                       ops |-> StackFrom(OpsBegin(n), shape[n].ops)]
  BY <1>2, ThisParts
<1>4. \A frame : Frames!WithThis(frame) = Append(Front(FrameList), frame)
  BY <1>2, ThisFrame
<1>5. n > 0 /\ Indexed(FrameList, n)
  <2>1. n \in Nat \ {0} /\ FrameList = [k \in 1 .. n |-> FrameList[k]]
    BY <1>2, ListFacts
  <2> QED
    BY <2>1 DEF Indexed
<1>6. PICK o \in Nat : Indexed(Frames!This.ops, o)
  BY <1>2, ThisOperands
<1>7. PICK L, F, G, H : /\ L = FrameList /\ F = Frames!This /\ G = Append(F.ops, w)
                       /\ H = [F EXCEPT !.ops = G]
  OBVIOUS
<1>8. FrameList' = Append(Front(L), H)
  BY <1>1, <1>4, <1>7, Zenon
<1>9. Last(Append(Front(L), H)) = H
  BY ONLY <1>5, <1>7, n \in Nat, LastOfAppended
<1>10. G # << >> /\ Last(G) = w
  BY ONLY <1>6, <1>7, o \in Nat, LastOfAppended
<1>11. F = [site |-> SiteOf(n), args |-> ArgsOf(n), locals |-> LocalsOf(n),
            ops |-> StackFrom(OpsBegin(n), shape[n].ops)]
  BY <1>3, <1>7
<1>12. H = [site |-> SiteOf(n), args |-> ArgsOf(n), locals |-> LocalsOf(n), ops |-> G]
  <2>1. [F EXCEPT !.ops = G] = [site |-> SiteOf(n), args |-> ArgsOf(n), locals |-> LocalsOf(n),
                               ops |-> G]
    BY ONLY <1>11, OpsField
  <2>2. H = [F EXCEPT !.ops = G]
    BY <1>7
  <2> QED
    BY ONLY <2>1, <2>2
<1>13. H.ops = G
  BY ONLY <1>12, OpsField
<1> QED
  BY ONLY <1>8, <1>9, <1>10, <1>13 DEF Last, Frames!Last

LEMMA LoadLocalIsLoad ==
  ASSUME VMInv, Shown, Shown', LoadLocal
  PROVE  Running /\ (Frames!LoadLocal \/ Frames!LoadUnset)
<1>1. PICK k \in LocalIndices : Executing /\ PushStep /\ mem'[top] = mem[LocalAddress(k)]
  BY PushesLocal
<1>2. shape # << >> /\ base \in Nat
  BY <1>1, RegisterFacts
<1>3. PICK n \in Nat : n = Len(shape) /\ This = shape[n] /\ base = BaseOf(n) /\ n \in DOMAIN shape
  BY <1>1, RegisterFacts
<1>4. Frames!This.locals = LocalsOf(n)
  BY <1>2, <1>3, ThisParts
<1>5. PICK l \in Nat : l = shape[n].fn.nlocals /\ k \in 0 .. l - 1
  <2>1. This.fn.nlocals \in Nat
    BY <1>2, FrameFacts, RecordFacts
  <2> QED
    BY <1>3, <2>1 DEF LocalIndices
<1>6. /\ k + 1 \in 1 .. l /\ (k + 1 = 1 <=> k = 0)
      /\ LocalAddress(k) = base - (k + 1)
  <2>1. base - 1 - k = base - (k + 1)
    BY <1>2, <1>5
  <2> QED
    BY <1>5, <2>1 DEF LocalAddress
<1>7. /\ k + 1 \in DOMAIN LocalsOf(n)
      /\ LocalsOf(n)[k + 1] = IF k + 1 = 1 /\ ~shape[n].stored THEN UnsetLocal
                              ELSE mem[base - (k + 1)]
  BY <1>3, <1>5, <1>6 DEF LocalsOf
<1>8. Running /\ Frames!PushValue(mem[LocalAddress(k)])
  BY <1>1, PushIsPush
<1>9. CASE IsUnset(k)
  <2>1. Frames!This.locals[k + 1] = UnsetLocal /\ k + 1 \in DOMAIN Frames!This.locals
    BY <1>3, <1>4, <1>6, <1>7, <1>9 DEF IsUnset
  <2>2. PICK w : w = mem[LocalAddress(k)]
    OBVIOUS
  <2>3. Running /\ Frames!PushValue(w)
    BY <1>8, <2>2
  <2>4. /\ Frames!Last(FrameList').ops # << >>
        /\ Frames!Last(Frames!Last(FrameList').ops) = w
    BY <1>2, <2>3, PushedIsLast
  <2> QED
    BY <2>1, <2>3, <2>4 DEF Frames!LoadUnset
<1>10. CASE ~IsUnset(k)
  <2>1. Frames!This.locals[k + 1] = mem[LocalAddress(k)] /\ k + 1 \in DOMAIN Frames!This.locals
    BY <1>3, <1>4, <1>6, <1>7, <1>10 DEF IsUnset
  <2>2. mem[LocalAddress(k)] # UnsetLocal
    <3>1. mem[LocalAddress(k)] \in Words
      BY <1>1, LocalFresh
    <3> QED
      BY <3>1 DEF Words, UnsetLocal, Word
  <2> QED
    BY <1>8, <2>1, <2>2 DEF Frames!LoadLocal
<1> QED
  BY <1>9, <1>10

LEMMA DropIsDrop ==
  ASSUME VMInv, Shown, Shown', Drop
  PROVE  Running /\ Frames!Drop
<1> DEFINE s == [This EXCEPT !.ops = @ - 1]
<1>1. /\ Executing /\ This.ops > 0 /\ top' = top + 1 /\ mem' = mem
      /\ shape' = WithThis(s) /\ UNCHANGED status
  BY DEF Drop
<1>2. /\ shape # << >> /\ top \in Nat /\ status = "running"
  BY <1>1, RegisterFacts
<1>3. PICK n \in Nat :
        /\ n = Len(shape) /\ n \in 1 .. n /\ n \in DOMAIN shape /\ This = shape[n]
        /\ top + This.ops = OpsBegin(n)
  BY <1>1, RegisterFacts
<1>4. PICK o \in Nat, p \in Nat :
        /\ o = This.ops /\ o = shape[n].ops /\ p = OpsBegin(n)
        /\ Frames!This.ops # << >>
        /\ Front(Frames!This.ops) = SubSeq(Frames!This.ops, 1, o - 1)
  BY <1>1, <1>2, <1>3, ThisOperands
<1>5. PICK q \in Nat : q = o - 1 /\ q <= o /\ p - o <= p - q
  <2>1. o > 0
    BY <1>1, <1>4
  <2> QED
    BY ONLY <2>1, o \in Nat, p \in Nat
<1>6. /\ s \in FrameRecords /\ s.fn = This.fn /\ s.base = This.base
      /\ s.stored = This.stored /\ s.ops = q
  <2>1. This \in FrameRecords
    BY <1>2, FrameFacts
  <2>2. q = This.ops - 1
    BY <1>4, <1>5
  <2> QED
    BY <2>1, <2>2, OpsChanged
<1> HIDE DEF s
<1>7. /\ shape' # << >> /\ Len(shape') = n /\ DOMAIN shape' = 1 .. n /\ shape'[n] = s
      /\ \A k \in 1 .. n - 1 : shape'[k] = shape[k]
  BY <1>1, <1>2, <1>3, <1>6, NewestReplaced
<1>8. top <= Ceiling(n)
  <2>1. Ceiling(n) \in Nat /\ top <= OpsBegin(n) /\ BaseOf(n) + 2 <= Ceiling(n)
        /\ OpsBegin(n) \in Nat /\ BaseOf(n) \in Nat /\ OpsBegin(n) + 2 <= BaseOf(n)
    BY <1>2, <1>3, FrameFacts
  <2> QED
    BY <1>2, <2>1
<1>9. \A a \in 0 .. Size - 1 : a > top => mem'[a] = mem[a]
  BY <1>1
<1>11. FrameList' = Append(Front(FrameList), FrameOf(n)')
  BY <1>2, <1>3, <1>7, <1>8, <1>9, SameHeight
<1>12. FrameOf(n)' = [FrameOf(n) EXCEPT !.ops = SubSeq(FrameOf(n).ops, 1, q)]
  <2>0. top = p - o
    BY <1>2, <1>3, <1>4
  <2>1. /\ shape'[n].fn = shape[n].fn /\ shape'[n].base = shape[n].base
        /\ shape'[n].stored = shape[n].stored /\ shape'[n].ops = q /\ q <= shape[n].ops
        /\ top <= OpsBegin(n) - q /\ n \in 1 .. Len(shape) /\ n \in DOMAIN shape'
    BY <1>3, <1>4, <1>5, <1>6, <1>7, <2>0
  <2> QED
    BY <1>2, <1>9, <2>1, OperandsTaken
<1>13. /\ Frames!This = FrameOf(n)
       /\ \A frame : Frames!WithThis(frame) = Append(Front(FrameList), frame)
  BY <1>2, <1>3, ThisFrame
<1>14. FrameList' = Frames!WithThis([Frames!This EXCEPT !.ops = Frames!Front(@)])
  <2>1. Front(FrameOf(n).ops) = SubSeq(FrameOf(n).ops, 1, q)
    BY <1>4, <1>5, <1>13
  <2>2. Frames!Front(FrameOf(n).ops) = SubSeq(FrameOf(n).ops, 1, q)
    BY <2>1 DEF Front, Frames!Front
  <2> QED
    BY <1>11, <1>12, <1>13, <2>2, Zenon
<1> QED
  BY <1>1, <1>2, <1>4, <1>14 DEF Frames!Drop, Running

LEMMA LocalsField ==
  ASSUME NEW s, NEW a, NEW l, NEW f, NEW F, F = [site |-> s, args |-> a, locals |-> l, ops |-> f]
  PROVE  \A g : [F EXCEPT !.locals = g] = [site |-> s, args |-> a, locals |-> g, ops |-> f]
<1>1. ASSUME NEW g
      PROVE  [[site |-> s, args |-> a, locals |-> l, ops |-> f] EXCEPT !.locals = g]
               = [site |-> s, args |-> a, locals |-> g, ops |-> f]
  OBVIOUS
<1> QED
  BY <1>1, Zenon

LEMMA LocalReplaced ==
  ASSUME NEW l \in Nat, NEW F, Indexed(F, l), NEW G, Indexed(G, l), NEW i \in 1 .. l,
         \A j \in 1 .. l : j # i => G[j] = F[j]
  PROVE  i \in DOMAIN F /\ [F EXCEPT ![i] = G[i]] = G
<1>1. DOMAIN F = 1 .. l /\ G = [j \in 1 .. l |-> G[j]]
  BY DEF Indexed
<1>2. [F EXCEPT ![i] = G[i]] = [j \in 1 .. l |-> IF j = i THEN G[i] ELSE F[j]]
  BY <1>1
<1>3. [j \in 1 .. l |-> IF j = i THEN G[i] ELSE F[j]] = [j \in 1 .. l |-> G[j]]
  OBVIOUS
<1> QED
  BY <1>1, <1>2, <1>3

LEMMA StoreIsStore ==
  ASSUME VMInv, Shown, Shown', StoreLocal
  PROVE  Running /\ Frames!StoreLocal
<1>0. PICK k \in LocalIndices :
        /\ mem' = [mem EXCEPT ![LocalAddress(k)] = mem[top + 1]]
        /\ shape' = WithThis([This EXCEPT !.stored = @ \/ k = 0])
  BY DEF StoreLocal
<1> DEFINE s == [This EXCEPT !.stored = @ \/ k = 0]
<1>1. /\ Executing /\ This.ops > 0 /\ shape' = WithThis(s) /\ UNCHANGED status
      /\ mem' = [mem EXCEPT ![LocalAddress(k)] = mem[top + 1]]
  BY <1>0 DEF StoreLocal
<1>2. /\ shape # << >> /\ top \in Nat /\ status = "running" /\ base \in Nat
      /\ Size \in Nat /\ StackBegin \in Nat /\ StackBegin < Size
      /\ mem \in [0 .. Size - 1 -> Words]
  BY <1>1, RegisterFacts
<1>3. PICK n \in Nat :
        /\ n = Len(shape) /\ n \in 1 .. n /\ n \in DOMAIN shape /\ This = shape[n]
        /\ top + This.ops = OpsBegin(n) /\ base = BaseOf(n) /\ OpsBegin(n) \in Nat
        /\ OpsBegin(n) + 2 <= base /\ base <= StackBegin - 1 /\ This.ops \in Nat
  BY <1>1, RegisterFacts
<1>4. PICK o \in Nat, p \in Nat :
        /\ o = This.ops /\ o = shape[n].ops /\ p = OpsBegin(n)
        /\ Frames!This.ops # << >>
        /\ Last(Frames!This.ops) = mem[p - o + 1]
  BY <1>1, <1>2, <1>3, ThisOperands, SMTT(30)
<1>5. PICK l \in Nat, i \in Nat :
        l = This.fn.nlocals /\ i = k + 1 /\ i \in 1 .. l /\ (i = 1 <=> k = 0)
  <2>1. PICK l \in Nat : l = This.fn.nlocals
    BY <1>2, FrameFacts, RecordFacts
  <2>2. k \in 0 .. l - 1
    BY <2>1 DEF LocalIndices
  <2>3. k + 1 \in Nat /\ k + 1 \in 1 .. l /\ (k + 1 = 1 <=> k = 0)
    BY ONLY <2>2, l \in Nat
  <2> QED
    BY <2>1, <2>3
<1>6. /\ s \in FrameRecords /\ s.fn = This.fn /\ s.base = This.base
      /\ s.ops = This.ops /\ s.stored = (This.stored \/ k = 0)
  <2>1. This \in FrameRecords /\ (This.stored \/ k = 0) \in BOOLEAN
    BY <1>2, FrameFacts
  <2> QED
    BY <2>1, <1>2, RecordFacts DEF FrameRecords
<1> HIDE DEF s
<1>7. /\ shape' # << >> /\ Len(shape') = n /\ DOMAIN shape' = 1 .. n /\ shape'[n] = s
      /\ \A q \in 1 .. n - 1 : shape'[q] = shape[q]
  BY <1>1, <1>2, <1>3, <1>6, NewestReplaced
<1>8. PICK z \in Nat : /\ z = LocalAddress(k) /\ z = base - i /\ z \in 0 .. Size - 1
                       /\ z <= Ceiling(n) /\ z <= base /\ p < z
  <2>1. Ceiling(n) \in Nat /\ BaseOf(n) + 2 <= Ceiling(n)
    BY <1>2, <1>3, FrameFacts
  <2>2. PICK c \in Nat, e \in Nat, b \in Nat : c = Ceiling(n) /\ e = Size /\ b = base
    BY <1>2, <2>1
  <2>3. /\ LocalAddress(k) = b - 1 - k /\ LocalAddress(k) \in 0 .. e - 1 /\ LocalAddress(k) > p + 1
        /\ k \in Nat
    BY <1>1, <1>3, <1>4, <2>2, LocalPlace
  <2>4. b + 2 <= c
    BY <1>3, <2>1, <2>2
  <2>5. PICK z \in Nat : z = b - 1 - k /\ z = b - i /\ z <= c /\ z <= b /\ p < z
    BY ONLY <1>5, <2>3, <2>4, b \in Nat, c \in Nat, e \in Nat, p \in Nat
  <2> QED
    BY <2>2, <2>3, <2>5
<1>9. /\ mem'[z] = mem[top + 1]
      /\ \A a \in 0 .. Size - 1 : a # z => mem'[a] = mem[a]
  BY <1>1, <1>2, <1>8
<1>10. \A a \in 0 .. Size - 1 : a > z => mem'[a] = mem[a]
  BY <1>9
<1>11. FrameList' = Append(Front(FrameList), FrameOf(n)')
  BY <1>2, <1>3, <1>7, <1>8, <1>10, SameHeight
<1>12. SiteOf(n)' = SiteOf(n) /\ ArgsOf(n)' = ArgsOf(n) /\ OpsBegin(n)' = OpsBegin(n)
  <2>1. /\ shape'[n].fn = shape[n].fn /\ shape'[n].base = shape[n].base
        /\ z <= BaseOf(n) /\ n \in 1 .. Len(shape)
    BY <1>2, <1>3, <1>6, <1>7, <1>8
  <2> QED
    BY <1>2, <1>10, <2>1, PartsSame
<1>13. PICK F, G : /\ F = LocalsOf(n) /\ G = LocalsOf(n)' /\ Indexed(F, l) /\ Indexed(G, l)
                  /\ G[i] = mem[top + 1] /\ \A j \in 1 .. l : j # i => G[j] = F[j]
  <2>1. shape[n].fn.nlocals = l /\ shape'[n].fn.nlocals = l /\ BaseOf(n)' = base
    BY <1>3, <1>5, <1>6, <1>7 DEF BaseOf
  <2>2. shape'[n].stored = (shape[n].stored \/ k = 0)
    BY <1>3, <1>6, <1>7
  <2>3. PICK F : F = [j \in 1 .. l |->
                      IF j = 1 /\ ~shape[n].stored THEN UnsetLocal ELSE mem[base - j]]
    OBVIOUS
  <2>4. PICK G : G = [j \in 1 .. l |->
                      IF j = 1 /\ ~shape'[n].stored THEN UnsetLocal ELSE mem'[base - j]]
    OBVIOUS
  <2>5. F = LocalsOf(n) /\ G = LocalsOf(n)'
    BY <1>3, <2>1, <2>3, <2>4 DEF LocalsOf, UnsetLocal, Word
  <2>6. Indexed(F, l) /\ Indexed(G, l)
    BY <2>3, <2>4 DEF Indexed
  <2>7. G[i] = mem[top + 1]
    <3>1. ~(i = 1 /\ ~shape'[n].stored)
      BY <1>5, <2>2
    <3> QED
      BY <1>5, <1>8, <1>9, <2>4, <3>1
  <2>8. ASSUME NEW j \in 1 .. l, j # i
        PROVE  G[j] = F[j]
    <3>1. (j = 1 /\ ~shape'[n].stored) <=> (j = 1 /\ ~shape[n].stored)
      BY <1>5, <2>2, <2>8
    <3>2. mem'[base - j] = mem[base - j]
      <4>1. PICK e \in Nat, m \in Nat : e = Size /\ m = StackBegin /\ m < e /\ base <= m - 1
        BY <1>2, <1>3
      <4>2. p + l + 2 = base
        BY <1>1, <1>4, <1>5, <1>3, RegisterFacts
      <4>3. base - j \in 0 .. e - 1 /\ base - j # z
        BY ONLY <1>2, <1>8, <2>8, <4>1, <4>2, p \in Nat, l \in Nat, i \in Nat, j \in 1 .. l
      <4> QED
        BY <1>9, <4>1, <4>3
    <3> QED
      BY <2>3, <2>4, <3>1, <3>2
  <2> QED
    BY <2>5, <2>6, <2>7, <2>8
<1>14. StackFrom(OpsBegin(n), shape[n].ops)' = StackFrom(OpsBegin(n), shape[n].ops)
  <2>1. ASSUME NEW j \in 1 .. o
        PROVE  mem'[p - j + 1] = mem[p - j + 1]
    <3>1. o <= p
      BY <1>2, <1>3, <1>4
    <3>2. PICK e \in Nat : e = Size /\ z < e
      BY <1>2, <1>8
    <3>3. p < z
      BY <1>8
    <3>4. p - j + 1 \in 0 .. e - 1 /\ p - j + 1 # z
      BY ONLY <3>1, <3>2, <3>3, o \in Nat, p \in Nat, z \in Nat, e \in Nat, j \in 1 .. o
    <3> QED
      BY <1>9, <3>2, <3>4
  <2>2. shape'[n].ops = o
    BY <1>4, <1>6, <1>7
  <2> QED
    BY <1>4, <1>12, <2>1, <2>2 DEF StackFrom
<1>15. /\ FrameOf(n) = [site |-> SiteOf(n), args |-> ArgsOf(n), locals |-> LocalsOf(n),
                        ops |-> StackFrom(OpsBegin(n), shape[n].ops)]
       /\ Frames!This = FrameOf(n) /\ Frames!This.locals = LocalsOf(n)
  BY <1>2, <1>3, ThisParts
<1>16. FrameOf(n)' = [site |-> SiteOf(n), args |-> ArgsOf(n), locals |-> LocalsOf(n)',
                      ops |-> StackFrom(OpsBegin(n), shape[n].ops)]
  <2>1. FrameOf(n)' = ShownFrame(n)'
    BY <1>7, <1>3 DEF Shown
  <2> QED
    BY <1>12, <1>14, <2>1 DEF ShownFrame
<1>17. /\ i \in DOMAIN LocalsOf(n)
       /\ [LocalsOf(n) EXCEPT ![i] = mem[top + 1]] = LocalsOf(n)'
  <2>1. i \in DOMAIN F /\ [F EXCEPT ![i] = G[i]] = G
    BY ONLY <1>5, <1>13, l \in Nat, i \in Nat, LocalReplaced
  <2> QED
    BY ONLY <1>13, <2>1
<1>18. Frames!Last(Frames!This.ops) = mem[top + 1]
  <2>1. p - o + 1 = top + 1
    BY <1>2, <1>3, <1>4, SMTT(30)
  <2> QED
    BY <1>4, <2>1 DEF Last, Frames!Last
<1>19. FrameOf(n)' = [FrameOf(n) EXCEPT !.locals = LocalsOf(n)']
  BY ONLY <1>15, <1>16, LocalsField
<1>20. FrameList' = Frames!WithThis([Frames!This EXCEPT !.locals[i] = Frames!Last(Frames!This.ops)])
  <2>1. \A frame : Frames!WithThis(frame) = Append(Front(FrameList), frame)
    BY <1>2, <1>3, ThisFrame
  <2>2. FrameOf(n)' = [Frames!This EXCEPT !.locals =
                      [Frames!This.locals EXCEPT ![i] = Frames!Last(Frames!This.ops)]]
    BY <1>15, <1>17, <1>18, <1>19, Zenon
  <2> QED
    BY <1>11, <2>1, <2>2, Zenon
<1> QED
  BY <1>1, <1>2, <1>4, <1>15, <1>17, <1>20 DEF Frames!StoreLocal, Running

-----------------------------------------------------------------------------
(***************************************************************************)
(* Steps that the frames do not see                                        *)
(***************************************************************************)

(* What is written at or below the first free word changes no frame.       *)
LEMMA NothingShown ==
  ASSUME VMInv, Shown, Shown', shape # << >>, shape' = shape,
         \A a \in 0 .. Size - 1 : a > top => mem'[a] = mem[a]
  PROVE  FrameList' = FrameList
<1>1. PICK n \in Nat : n = Len(shape) /\ DOMAIN shape = 1 .. n
  BY Newest
<1>2. top \in Nat
  BY ThisFacts
<1>3. ASSUME NEW k \in 1 .. n
      PROVE  FrameOf(k)' = FrameOf(k)
  <2>1. k \in 1 .. Len(shape) /\ k \in DOMAIN shape'
    BY <1>1
  <2>2. top <= OpsBegin(k) - shape[k].ops
    BY <2>1, LowestWord
  <2> QED
    BY <1>2, <2>1, <2>2, FrameSame
<1>4. FrameList = [k \in 1 .. n |-> FrameOf(k)] /\ FrameList' = [k \in 1 .. n |-> FrameOf(k)']
  BY <1>1 DEF FrameList
<1> QED
  BY <1>3, <1>4

LEMMA CallIsHidden ==
  ASSUME VMInv, Shown, Shown', Call \/ CallClosure
  PROVE  Running /\ FrameList' = FrameList
<1>1. PICK f \in Shapes, site \in Sites, taken \in 0 .. 1 : CallsWith(f, taken, site)
  BY CallForms
<1>2. /\ Executing /\ mem' = [mem EXCEPT ![top] = Word("ret", site)] /\ shape' = shape
      /\ status' = status
  BY <1>1 DEF CallsWith, MayCall, PushWord
<1>3. /\ shape # << >> /\ status = "running" /\ top \in Nat
      /\ mem \in [0 .. Size - 1 -> Words]
  BY <1>2, RegisterFacts
<1>4. \A a \in 0 .. Size - 1 : a > top => mem'[a] = mem[a]
  BY <1>2, <1>3
<1> QED
  BY <1>2, <1>3, <1>4, NothingShown DEF Running

LEMMA CollectIsHidden ==
  ASSUME VMInv, Shown, Shown', Collect
  PROVE  Running /\ FrameList' = FrameList
<1>1. /\ Executing /\ shape' = shape /\ status' = status
      /\ mem' = [a \in 0 .. Size - 1 |->
                   IF a \notin Scanned /\ mem[a] = Closure THEN Stale ELSE mem[a]]
  BY DEF Collect
<1>2. shape # << >> /\ status = "running" /\ top \in Nat /\ Size \in Nat
  BY <1>1, RegisterFacts
<1>3. \A a \in 0 .. Size - 1 : a > top => a \in Scanned
  BY <1>2 DEF Scanned
<1>4. \A a \in 0 .. Size - 1 : a > top => mem'[a] = mem[a]
  BY <1>1, <1>3
<1> QED
  BY <1>1, <1>2, <1>4, NothingShown DEF Running

(* The end of an execution in an error.                                    *)
LEMMA ErrorIsHidden ==
  ASSUME StackError \/ Misuse \/ CollectStale
  PROVE  FrameList' = FrameList /\ status # "ended" /\ status' # "ended"
<1>1. /\ UNCHANGED <<mem, top, callee, shape, risks>> /\ status = "running"
      /\ status' \in {"error", "corrupt"}
  BY DEF StackError, Misuse, CollectStale, Executing
<1> QED
  BY <1>1
  DEF FrameList, FrameOf, LocalOf, OperandsOf, OpsBegin, OpsEnd, MainFrame, NoCallee, UnsetLocal,
      Zero, Word

LEMMA EndMainIsFinish ==
  ASSUME VMInv, EndMain
  PROVE  status # "ended" /\ Frames!Finish
<1>1. /\ Executing /\ base = StackBegin - 1 /\ status' = "ended"
      /\ UNCHANGED <<mem, top, callee, shape, risks>>
  BY DEF EndMain
<1>2. shape # << >> /\ status = "running" /\ StackBegin \in Nat
  BY <1>1, RegisterFacts
<1>3. PICK n \in Nat : n = Len(shape) /\ n \in 1 .. n /\ base = BaseOf(n)
  BY <1>1, RegisterFacts
<1>4. n = 1
  <2>1. /\ BaseOf(n) \in Nat /\ Ceiling(n) \in Nat /\ BaseOf(n) + 2 <= Ceiling(n)
        /\ n > 1 => Ceiling(n) <= StackBegin - 3
    BY <1>2, <1>3, FrameFacts
  <2> QED
    BY <1>1, <1>2, <1>3, <2>1
<1>5. Len(FrameList) = 1
  BY <1>2, <1>3, <1>4, ListFacts
<1>6. FrameList' = FrameList
  BY <1>1
  DEF FrameList, FrameOf, LocalOf, OperandsOf, OpsBegin, OpsEnd, MainFrame, NoCallee, UnsetLocal,
      Zero, Word
<1> QED
  BY <1>1, <1>2, <1>5, <1>6 DEF Frames!Finish

-----------------------------------------------------------------------------
(***************************************************************************)
(* Calls and returns                                                       *)
(***************************************************************************)

(* BEGIN clears every local of the new frame but the first.                *)
LEMMA BeginClears ==
  ASSUME VMInv, Begin, NEW j \in 2 .. callee.fn.nlocals
  PROVE  mem'[top - 1 - j] = Zero
<1> DEFINE f == callee.fn
           reserved == [a \in 0 .. Size - 1 |-> IF a \in Cleared(f) THEN Zero ELSE mem[a]]
<1>1. mem' = [reserved EXCEPT ![top] = Word("nargs", nargs), ![top - 1] = Word("base", base)]
  BY DEF Begin
<1>2. PICK t \in Nat, g \in Nat, l \in Nat, e \in Nat :
        t = top /\ g = f.nargs /\ l = f.nlocals /\ e = Size /\ t >= g + l + 4 /\ t < e
  <2>1. /\ top \in Nat /\ f.nargs \in Nat /\ f.nlocals \in Nat
        /\ top >= f.nargs + f.nlocals + 4
    BY BeginFrames
  <2>2. Size \in Nat /\ StackBegin \in Nat /\ StackBegin < Size /\ top <= StackBegin
    BY SizeFacts DEF VMInv, WholeInv, VMTypeOK
  <2>3. top < Size
    BY <2>1, <2>2
  <2> QED
    BY <2>1, <2>2, <2>3
<1>3. Cleared(f) = t - 2 - (l + 1) .. t - 2 - (l + 1) + l
  BY <1>2 DEF Cleared
<1>4. PICK a \in Nat : /\ a = t - 1 - j /\ a \in 0 .. e - 1 /\ a # t /\ a # t - 1
                       /\ a \in t - 2 - (l + 1) .. t - 2 - (l + 1) + l
  <2>1. j \in 2 .. l
    BY <1>2
  <2>2. t - 1 - j \in Nat
    BY ONLY <1>2, <2>1, t \in Nat, g \in Nat, l \in Nat
  <2> QED
    BY ONLY <1>2, <2>1, <2>2, t \in Nat, g \in Nat, l \in Nat, e \in Nat
<1> HIDE DEF f
<1>5. reserved[a] = Zero
  BY <1>2, <1>3, <1>4
<1> HIDE DEF reserved
<1>6. mem'[a] = reserved[a]
  <2>1. DOMAIN reserved = 0 .. e - 1
    BY <1>2 DEF reserved
  <2> QED
    BY <1>1, <1>2, <1>4, <2>1
<1> QED
  BY <1>2, <1>4, <1>5, <1>6

(* The locals of a frame that has just been made.                          *)
LEMMA NewLocals ==
  ASSUME VMInv, Begin, NEW m, shape'[m] = NewRecord
  PROVE  LocalsOf(m)' = [j \in 1 .. callee.fn.nlocals |-> IF j = 1 THEN UnsetLocal ELSE Zero]
<1>1. PICK l \in Nat, t \in Nat : l = callee.fn.nlocals /\ t = top
  BY BeginFrames
<1>2. /\ shape'[m].fn = callee.fn /\ shape'[m].stored = FALSE /\ BaseOf(m)' = t - 1
  BY <1>1 DEF NewRecord, BaseOf
<1>3. LocalsOf(m)' = [j \in 1 .. l |-> IF j = 1 THEN UnsetLocal ELSE mem'[t - 1 - j]]
  BY <1>1, <1>2 DEF LocalsOf, UnsetLocal, Word
<1>4. ASSUME NEW j \in 1 .. l
      PROVE  (IF j = 1 THEN UnsetLocal ELSE mem'[t - 1 - j]) = IF j = 1 THEN UnsetLocal ELSE Zero
  <2>1. j # 1 => j \in 2 .. l
    OBVIOUS
  <2> QED
    BY <1>1, <2>1, BeginClears
<1> QED
  BY <1>1, <1>3, <1>4

(* The BEGIN of the outermost function: its frame is there already.        *)
LEMMA FirstBeginIsHidden ==
  ASSUME VMInv, Shown', Begin, shape = << >>
  PROVE  FrameList' = FrameList
<1>1. /\ Len(shape') = 1 /\ shape' # << >> /\ DOMAIN shape' = 1 .. 1 /\ shape'[1] = NewRecord
      /\ NewRecord.fn = callee.fn
  <2>1. PICK n \in Nat :
          /\ (n = 0 <=> shape = << >>) /\ shape' # << >> /\ Len(shape') = n + 1
          /\ DOMAIN shape' = 1 .. n + 1 /\ shape'[n + 1] = NewRecord
    BY BeginFrames
  <2>2. NewRecord.fn = callee.fn
    BY BeginFrames
  <2>3. n + 1 = 1
    BY <2>1
  <2> QED
    BY <2>1, <2>2, <2>3
<1>2. shape'[1].stored = FALSE /\ shape'[1].ops = 0 /\ shape'[1].fn = callee.fn
  BY <1>1 DEF NewRecord
<1>3. FrameOf(1)' = ShownFrame(1)'
  <2>1. 1 \in DOMAIN shape'
    BY <1>1
  <2> QED
    BY <2>1 DEF Shown
<1>4. ShownFrame(1)' = MainFrame
  <2>1. SiteOf(1)' = UnsetLocal /\ ArgsOf(1)' = << >>
    BY DEF SiteOf, ArgsOf, UnsetLocal, Word
  <2>2. LocalsOf(1)' = [j \in 1 .. callee.fn.nlocals |-> IF j = 1 THEN UnsetLocal ELSE Zero]
    BY <1>1, NewLocals
  <2>3. StackFrom(OpsBegin(1), shape[1].ops)' = << >>
    <3>1. \A b : StackFrom(b, 0) = << >>
      BY DEF StackFrom
    <3> QED
      BY <1>2 DEF StackFrom
  <2> QED
    BY <2>1, <2>2, <2>3 DEF ShownFrame, MainFrame
<1>5. FrameList' = [k \in 1 .. 1 |-> FrameOf(k)']
  BY <1>1 DEF FrameList
<1>6. FrameList' = [k \in 1 .. 1 |-> MainFrame]
  <2>1. \A k \in 1 .. 1 : k = 1
    OBVIOUS
  <2> QED
    BY <1>3, <1>4, <1>5, <2>1
<1>7. FrameList = <<MainFrame>>
  BY DEF FrameList
<1>8. \A x : [k \in 1 .. 1 |-> x] = <<x>>
  OBVIOUS
<1> QED
  BY <1>6, <1>7, <1>8

(* The numbers of a call: the frames before and after it, the arguments,   *)
(* the operands of the caller and those below the arguments.               *)
CallNumbers(n, m, a, o, r) ==
  n = Len(shape) /\ m = n + 1 /\ a = callee.fn.nargs /\ o = This.ops /\ r + a = o

(* The frame that BEGIN adds, and the arguments it shows.                  *)
LEMMA NewFrameShown ==
  ASSUME VMInv, Shown, Shown', CallPending, Begin, shape # << >>,
         NEW n \in Nat, NEW m \in Nat, NEW a \in Nat, NEW o \in Nat, NEW r \in Nat,
         CallNumbers(n, m, a, o, r)
  PROVE  /\ FrameOf(m)' = Frames!Frame(callee.fn, mem[top + 1], SubSeq(Frames!This.ops, r + 1, o))
         /\ Len(Frames!This.ops) = o
         /\ mem[top + 1] \in FrameSites
         /\ callee.taken = 1 => Frames!This.ops[r] = Closure
<1>0. n = Len(shape) /\ m = n + 1 /\ a = callee.fn.nargs /\ o = This.ops /\ r + a = o
  BY DEF CallNumbers
<1>1. /\ top \in Nat /\ top >= callee.fn.nargs + callee.fn.nlocals + 4 /\ NewRecord.fn = callee.fn
      /\ callee.fn.nlocals \in Nat /\ NewRecord.base = top - 1
  BY BeginFrames
<1>2. DOMAIN shape' = 1 .. m /\ Len(shape') = m /\ shape'[m] = NewRecord /\ 1 <= n
  <2>1. PICK i \in Nat :
          /\ i = Len(shape) /\ (i = 0 <=> shape = << >>) /\ Len(shape') = i + 1
          /\ DOMAIN shape' = 1 .. i + 1 /\ shape'[i + 1] = NewRecord
    BY <1>0, BeginFrames
  <2>2. i = n /\ i + 1 = m
    BY <1>0, <2>1
  <2> QED
    BY <1>0, <2>1, <2>2
<1>3. callee # NoCallee
  BY DEF Begin
<1>4. PICK p \in Nat :
        /\ p = OpsBegin(n)
        /\ Indexed(Frames!This.ops, o)
        /\ Len(Frames!This.ops) = o
        /\ \A j \in 1 .. o : Frames!This.ops[j] = mem[p - j + 1]
  <2>1. PICK x \in Nat, p \in Nat :
          /\ x = This.ops /\ x = shape[n].ops /\ p = OpsBegin(n)
          /\ Indexed(Frames!This.ops, x)
          /\ Len(Frames!This.ops) = x
          /\ x > 0 => Frames!This.ops # << >>
          /\ \A j \in 1 .. x : Frames!This.ops[j] = mem[p - j + 1]
          /\ x > 0 => Last(Frames!This.ops) = mem[p - x + 1]
          /\ x > 0 => Front(Frames!This.ops) = SubSeq(Frames!This.ops, 1, x - 1)
    BY <1>0, ThisOperands, Zenon
  <2> QED
    BY <1>0, <2>1
<1>5. PICK t \in Nat : t = top /\ t + 1 + o = p /\ t >= a + 4
  <2>1. top + 1 + This.ops = OpsBegin(Len(shape))
    BY <1>0, <1>3, ThisFacts
  <2>2. top >= a + 4
    <3>1. PICK l \in Nat : l = callee.fn.nlocals
      BY <1>0, <1>1
    <3>2. top >= a + l + 4
      BY <1>0, <1>1, <3>1
    <3> QED
      BY <1>0, <1>1, <3>2, SMTT(30)
  <2> QED
    BY <1>0, <1>1, <1>4, <2>1, <2>2
<1>6. PICK e \in Nat : e = Size /\ p <= e - 1
  <2>1. Size \in Nat /\ StackBegin \in Nat /\ StackBegin < Size
    BY <1>0, SizeFacts DEF VMInv, WholeInv, VMTypeOK
  <2>2. /\ BaseOf(n) \in Nat /\ OpsBegin(n) + 2 <= BaseOf(n) /\ BaseOf(n) <= StackBegin - 1
    <3>1. n \in 1 .. Len(shape)
      BY <1>0, <1>2
    <3> QED
      BY <1>0, <3>1, FrameFacts
  <2> QED
    BY <1>0, <1>4, <2>1, <2>2
<1>7. \A x \in 0 .. e - 1 : x > t => mem'[x] = mem[x]
  BY <1>0, <1>5, <1>6, BeginWords
<1>8. PICK b \in Nat : b = t - 1 /\ b = BaseOf(m)'
  <2>1. BaseOf(m)' = top - 1
    BY <1>0, <1>1, <1>2 DEF BaseOf
  <2>2. t - 1 \in Nat
    BY ONLY <1>5, t \in Nat, a \in Nat
  <2> QED
    BY <1>0, <1>5, <2>1, <2>2
<1>9. /\ shape'[m].fn = callee.fn /\ shape'[m].stored = FALSE /\ shape'[m].ops = 0
      /\ shape'[m].fn.nargs = a
  BY <1>0, <1>2 DEF NewRecord
<1>10. m # 1
  BY ONLY <1>0, <1>2, n \in Nat
<1>11. SiteOf(m)' = mem[top + 1]
  <2>1. b + 2 = t + 1 /\ t + 1 \in 0 .. e - 1 /\ t + 1 > t
    BY ONLY <1>5, <1>6, <1>8, t \in Nat, b \in Nat, e \in Nat, p \in Nat, o \in Nat
  <2>2. SiteOf(m)' = mem'[b + 2]
    BY <1>0, <1>8, <1>10 DEF SiteOf
  <2> QED
    BY <1>0, <1>5, <1>7, <2>1, <2>2
<1>12. ArgsOf(m)' = [j \in 1 .. a |-> mem'[b + 2 + a - (j - 1)]]
  BY <1>0, <1>8, <1>9, <1>10 DEF ArgsOf
<1>13. PICK G : G = ArgsOf(m)'
  OBVIOUS
<1>14. PICK F : F = Frames!This.ops
  OBVIOUS
<1>15. ASSUME NEW j \in 1 .. a
       PROVE  G[j] = F[r + j]
  <2>1. /\ b + 2 + a - (j - 1) = p - (r + j) + 1 /\ r + j \in 1 .. o
        /\ p - (r + j) + 1 \in 0 .. e - 1 /\ p - (r + j) + 1 > t
    <3>1. t + 1 + o = p /\ p <= e - 1 /\ b = t - 1 /\ r + a = o
      BY <1>0, <1>5, <1>6, <1>8
    <3> QED
      BY ONLY <3>1, t \in Nat, b \in Nat, e \in Nat, p \in Nat, o \in Nat, a \in Nat, r \in Nat,
              j \in 1 .. a
  <2>2. G[j] = mem'[p - (r + j) + 1]
    BY <1>0, <1>12, <1>13, <2>1
  <2>3. mem'[p - (r + j) + 1] = mem[p - (r + j) + 1]
    BY <1>0, <1>7, <2>1
  <2>4. F[r + j] = mem[p - (r + j) + 1]
    BY <1>0, <1>4, <1>14, <2>1
  <2> QED
    BY <1>0, <2>2, <2>3, <2>4
<1>16. G = SubSeq(F, r + 1, o)
  <2>1. Indexed(F, o)
    BY <1>0, <1>4, <1>14
  <2>2. Indexed(G, a)
    BY <1>0, <1>12, <1>13 DEF Indexed
  <2>3. Repeats(G, F, r, a)
    BY <1>0, <1>15 DEF Repeats
  <2>4. r + a <= o
    BY <1>0
  <2>5. G = SubSeq(F, r + 1, r + a)
    BY ONLY <2>1, <2>2, <2>3, <2>4, o \in Nat, a \in Nat, r \in Nat, PartOf
  <2> QED
    BY <1>0, <2>5
<1>17. LocalsOf(m)' = [j \in 1 .. callee.fn.nlocals |-> IF j = 1 THEN UnsetLocal ELSE Zero]
  BY <1>2, NewLocals
<1>18. StackFrom(OpsBegin(m), shape[m].ops)' = << >>
  <2>1. \A x : StackFrom(x, 0) = << >>
    BY DEF StackFrom
  <2> QED
    BY <1>0, <1>9 DEF StackFrom
<1>19. FrameOf(m)' = ShownFrame(m)'
  <2>1. m \in DOMAIN shape'
    BY <1>0, <1>2
  <2> QED
    BY <1>0, <2>1 DEF Shown
<1>20. FrameOf(m)' = [site |-> mem[top + 1], args |-> SubSeq(Frames!This.ops, r + 1, o),
                      locals |-> [j \in 1 .. callee.fn.nlocals |->
                                    IF j = 1 THEN UnsetLocal ELSE Zero],
                      ops |-> << >>]
  BY <1>0, <1>11, <1>13, <1>14, <1>16, <1>17, <1>18, <1>19 DEF ShownFrame
<1>21. /\ mem[top + 1] \in FrameSites
       /\ callee.taken = 1 => mem[top + 2 + a] = Closure
  BY <1>0, <1>3 DEF CallPending
<1>22. callee.taken = 1 => Frames!This.ops[r] = Closure
  <2> SUFFICES ASSUME callee.taken = 1
               PROVE  Frames!This.ops[r] = Closure
    OBVIOUS
  <2>1. callee.fn.nargs + callee.taken <= This.ops
    BY <1>0, <1>3, ThisFacts
  <2>2. a + 1 <= o
    BY <1>0, <2>1
  <2>3. r \in 1 .. o /\ p - r + 1 = t + 2 + a
    <3>1. t + 1 + o = p /\ r + a = o
      BY <1>0, <1>5
    <3> QED
      BY ONLY <2>2, <3>1, t \in Nat, p \in Nat, o \in Nat, a \in Nat, r \in Nat
  <2> QED
    BY <1>0, <1>4, <1>5, <1>21, <2>3
<1>23. FrameOf(m)' = Frames!Frame(callee.fn, mem[top + 1], SubSeq(Frames!This.ops, r + 1, o))
  BY <1>20 DEF Frames!Frame
<1> QED
  BY <1>4, <1>21, <1>22, <1>23

LEMMA BeginIsCall ==
  ASSUME VMInv, Shown, Shown', CallPending, Begin, shape # << >>
  PROVE  Running /\ (Frames!Call \/ Frames!CallClosure)
<1>1. /\ status = "running" /\ status' = status /\ callee # NoCallee
  BY DEF Begin
<1>2. /\ top \in Nat /\ callee.fn \in Shapes /\ callee.fn.nargs \in Nat
      /\ callee.taken \in Nat
  BY BeginFrames
<1>3. PICK n \in Nat :
        /\ n = Len(shape) /\ DOMAIN shape = 1 .. n
        /\ (1 <= n => n \in 1 .. n) /\ (n = 0 <=> shape = << >>)
        /\ shape' # << >> /\ Len(shape') = n + 1
        /\ DOMAIN shape' = 1 .. n + 1
        /\ \A k \in 1 .. n :
             /\ shape'[k].fn = shape[k].fn /\ shape'[k].taken = shape[k].taken
             /\ shape'[k].base = shape[k].base /\ shape'[k].stored = shape[k].stored
             /\ k # n => shape'[k] = shape[k]
             /\ k = n => shape'[k].ops = This.ops - callee.fn.nargs - callee.taken
  BY BeginFrames
<1>4. PICK m \in Nat : m = n + 1
  OBVIOUS
<1>5. n \in 1 .. n /\ n \in 1 .. Len(shape) /\ This = shape[n]
  BY <1>3, FrameFacts
<1>6. PICK a \in Nat, t \in Nat, o \in Nat :
        a = callee.fn.nargs /\ t = callee.taken /\ o = This.ops /\ a + t <= o /\ t <= 1
  BY <1>1, <1>2, ThisFacts
<1>7. PICK r \in Nat, q \in Nat : r + a = o /\ r - t = q /\ q = o - a - t /\ q <= o /\ t <= r
  BY ONLY <1>6, a \in Nat, t \in Nat, o \in Nat
<1>8. \A x \in 0 .. Size - 1 : x > top => mem'[x] = mem[x]
  BY BeginWords
<1>9. ASSUME NEW k \in 1 .. n - 1
      PROVE  FrameOf(k)' = FrameOf(k)
  <2>1. k \in 1 .. n /\ k # n /\ k \in 1 .. n + 1
    BY <1>9
  <2>2. k \in 1 .. Len(shape) /\ k \in DOMAIN shape' /\ shape'[k] = shape[k]
    BY <1>3, <2>1
  <2>3. top <= OpsBegin(k) - shape[k].ops
    BY <2>2, LowestWord
  <2> QED
    BY <1>2, <1>8, <2>2, <2>3, FrameSame
<1>10. FrameOf(n)' = [FrameOf(n) EXCEPT !.ops = SubSeq(FrameOf(n).ops, 1, q)]
  <2>1. /\ shape'[n].fn = shape[n].fn /\ shape'[n].base = shape[n].base
        /\ shape'[n].stored = shape[n].stored /\ n \in DOMAIN shape'
    BY <1>3, <1>5
  <2>2. shape'[n].ops = q /\ q <= shape[n].ops
    BY <1>3, <1>5, <1>6, <1>7
  <2>3. top <= OpsBegin(n) - q
    <3>1. top + 1 + This.ops = OpsBegin(n) /\ OpsBegin(n) \in Nat
      BY <1>1, <1>3, <1>5, ThisFacts, FrameFacts
    <3>2. PICK p \in Nat, x \in Nat : p = OpsBegin(n) /\ x = top
      BY <1>2, <3>1
    <3>3. x + 1 + o = p
      BY <1>6, <3>1, <3>2
    <3>4. x <= p - q
      BY ONLY <1>7, <3>3, x \in Nat, p \in Nat, o \in Nat, q \in Nat
    <3> QED
      BY <3>2, <3>4
  <2> QED
    BY <1>2, <1>5, <1>8, <2>1, <2>2, <2>3, OperandsTaken
<1>11. /\ FrameOf(m)' = Frames!Frame(callee.fn, mem[top + 1], SubSeq(Frames!This.ops, r + 1, o))
       /\ Len(Frames!This.ops) = o
       /\ mem[top + 1] \in FrameSites
       /\ callee.taken = 1 => Frames!This.ops[r] = Closure
  <2>1. n = Len(shape) /\ m = n + 1 /\ a = callee.fn.nargs /\ o = This.ops /\ r + a = o
    BY <1>3, <1>4, <1>6, <1>7
  <2>2. CallNumbers(n, m, a, o, r)
    BY <2>1 DEF CallNumbers
  <2> QED
    BY <2>2, NewFrameShown
<1>12. FrameList' = Append(Append(Front(FrameList), FrameOf(n)'), FrameOf(m)')
  <2>1. FrameList' = [k \in 1 .. m |-> FrameOf(k)']
    BY <1>3, <1>4 DEF FrameList
  <2>2. PICK H : H = [k \in 1 .. n |-> FrameOf(k)']
    OBVIOUS
  <2>3. PICK i \in Nat : n = i + 1
    BY ONLY <1>5, n \in Nat
  <2>4. \A k \in 1 .. n : 0 + k = k /\ k \in 1 .. m
    BY <1>4
  <2>5. \A k \in 1 .. i : 0 + k = k /\ k \in 1 .. n /\ k \in 1 .. n - 1
    BY <2>3
  <2>6. /\ FrameList = [k \in 1 .. n |-> FrameList[k]]
        /\ \A k \in 1 .. n : FrameList[k] = FrameOf(k)
    BY <1>3, ListFacts
  <2>7. Indexed(FrameList, n) /\ Indexed(H, n) /\ Indexed(FrameList', m)
    <3>1. H = [k \in 1 .. n |-> H[k]]
      BY <2>2
    <3>2. FrameList' = [k \in 1 .. m |-> FrameList'[k]]
      BY <2>1
    <3> QED
      BY <2>6, <3>1, <3>2 DEF Indexed
  <2>8. Repeats(H, FrameList, 0, i)
    BY <1>9, <2>2, <2>5, <2>6 DEF Repeats
  <2>9. Repeats(FrameList', H, 0, n)
    BY <2>1, <2>2, <2>4 DEF Repeats
  <2>10. H = Append(Front(FrameList), H[n])
    BY ONLY <2>3, <2>7, <2>8, n \in Nat, LastReplaced
  <2>11. FrameList' = Append(H, FrameList'[m])
    BY ONLY <1>4, <2>7, <2>9, n \in Nat, LastAdded
  <2>12. H[n] = FrameOf(n)' /\ FrameList'[m] = FrameOf(m)'
    <3>1. m \in 1 .. m
      BY <1>4
    <3> QED
      BY <1>5, <2>1, <2>2, <3>1
  <2> QED
    BY ONLY <2>10, <2>11, <2>12
<1>13. /\ Frames!This = FrameOf(n)
       /\ \A frame : Frames!WithThis(frame) = Append(Front(FrameList), frame)
  BY <1>3, ThisFrame
<1>15. Frames!CallWith(callee.fn, mem[top + 1], callee.taken)
  <2>1. /\ Len(Frames!This.ops) - callee.fn.nargs = r /\ r >= callee.taken
        /\ r - callee.taken = q
    BY <1>6, <1>7, <1>11
  <2>2. callee.taken = 1 => Frames!This.ops[r] \in {Closure}
    BY <1>11
  <2>3. FrameList' = Append(Frames!WithThis([Frames!This EXCEPT !.ops = SubSeq(@, 1, q)]),
                            Frames!Frame(callee.fn, mem[top + 1], SubSeq(Frames!This.ops, r + 1, o)))
    BY ONLY <1>10, <1>11, <1>12, <1>13, Zenon
  <2>4. (status = "ended")' = (status = "ended")
    BY <1>1
  <2> QED
    BY <1>11, <2>1, <2>2, <2>3, <2>4 DEF Frames!CallWith
<1>16. callee.taken = 0 \/ callee.taken = 1
  BY <1>6
<1> QED
  BY <1>1, <1>2, <1>11, <1>15, <1>16 DEF Frames!Call, Frames!CallClosure, Running

LEMMA EndIsReturn ==
  ASSUME VMInv, Shown, Shown', End, Fits
  PROVE  Running /\ Frames!Return
<1>1. /\ Executing /\ This.ops > 0 /\ status' = status
      /\ mem' = [mem EXCEPT ![ReturnTop] = mem[top + 1]]
  BY DEF End, Fits
<1>2. /\ shape # << >> /\ status = "running" /\ top \in Nat
      /\ Size \in Nat /\ StackBegin \in Nat /\ StackBegin < Size
      /\ mem \in [0 .. Size - 1 -> Words]
  BY <1>1, RegisterFacts
<1>3. PICK n \in Nat :
        /\ n + 1 = Len(shape) /\ DOMAIN shape = 1 .. n + 1 /\ 1 <= n
        /\ n \in 1 .. n /\ n \in 1 .. n + 1 /\ n + 1 \in 1 .. n + 1
        /\ shape' # << >> /\ Len(shape') = n
        /\ DOMAIN shape' = 1 .. n
        /\ \A k \in 1 .. n :
             /\ shape'[k].fn = shape[k].fn
             /\ shape'[k].base = shape[k].base /\ shape'[k].stored = shape[k].stored
             /\ k # n => shape'[k] = shape[k]
             /\ k = n => shape'[k].ops = shape[n].ops + 1
        /\ ReturnTop = Ceiling(n + 1) /\ Ceiling(n + 1) \in Nat
        /\ Ceiling(n + 1) + shape[n].ops = OpsBegin(n)
        /\ shape[n].ops \in Nat
  BY EndFrames
<1>4. PICK m \in Nat : m = n + 1
  OBVIOUS
<1>5. PICK z \in Nat : z = Ceiling(m) /\ z = ReturnTop /\ z = OpsBegin(n) - shape[n].ops
                       /\ z \in 0 .. Size - 1
  <2>1. PICK z \in Nat, o \in Nat, p \in Nat :
          z = Ceiling(m) /\ z = ReturnTop /\ o = shape[n].ops /\ p = OpsBegin(n) /\ z + o = p
    <3>1. OpsBegin(n) \in Nat
      BY <1>2, <1>3, FrameFacts
    <3> QED
      BY <1>3, <1>4, <3>1
  <2>2. z = p - o
    BY ONLY <2>1
  <2>3. z \in 0 .. Size - 1
    <3>1. m \in 1 .. Len(shape) /\ m > 1
      BY <1>3, <1>4
    <3>2. Ceiling(m) <= StackBegin - 3
      BY <1>2, <3>1, FrameFacts
    <3> QED
      BY <1>2, <2>1, <3>2
  <2> QED
    BY <2>1, <2>2, <2>3
<1>6. mem'[z] = mem[top + 1] /\ \A a \in 0 .. Size - 1 : a > z => mem'[a] = mem[a]
  BY <1>1, <1>2, <1>5
<1>7. ASSUME NEW k \in 1 .. n - 1
      PROVE  FrameOf(k)' = FrameOf(k)
  <2>1. k \in 1 .. n /\ k # n /\ k \in 1 .. n + 1 /\ k < n + 1
    BY <1>7
  <2>2. k \in 1 .. Len(shape) /\ k \in DOMAIN shape' /\ shape'[k] = shape[k] /\ k < Len(shape)
    BY <1>3, <2>1
  <2>3. z <= OpsBegin(k) - shape[k].ops
    BY <1>2, <1>3, <1>4, <1>5, <2>2, LowestWord
  <2> QED
    BY <1>2, <1>6, <2>2, <2>3, FrameSame
<1>8. FrameOf(n)' = [FrameOf(n) EXCEPT !.ops = Append(FrameOf(n).ops, mem'[z])]
  <2>1. /\ shape'[n].fn = shape[n].fn /\ shape'[n].base = shape[n].base
        /\ shape'[n].stored = shape[n].stored /\ shape'[n].ops = shape[n].ops + 1
        /\ n \in DOMAIN shape' /\ n \in 1 .. Len(shape)
    BY <1>3
  <2> QED
    BY <1>2, <1>5, <1>6, <2>1, OperandAdded
<1>9. Frames!This.ops # << >> /\ Frames!Last(Frames!This.ops) = mem[top + 1]
  <2>1. PICK o \in Nat, p \in Nat :
          /\ o = This.ops /\ p = OpsBegin(m)
          /\ o > 0 => Frames!This.ops # << >>
          /\ o > 0 => Last(Frames!This.ops) = mem[p - o + 1]
    BY <1>2, <1>3, <1>4, ThisOperands
  <2>2. top + This.ops = OpsBegin(m)
    BY <1>1, <1>3, <1>4, RegisterFacts
  <2>3. p - o + 1 = top + 1 /\ o > 0
    BY <1>1, <1>2, <2>1, <2>2
  <2> QED
    BY <2>1, <2>3 DEF Last, Frames!Last
<1>10. /\ FrameList = [k \in 1 .. m |-> FrameList[k]] /\ Len(FrameList) = m
       /\ \A k \in 1 .. m : FrameList[k] = FrameOf(k)
  BY <1>2, <1>3, <1>4, ListFacts
<1>11. FrameList' = Append(SubSeq(FrameList, 1, n - 1), FrameOf(n)')
  <2>1. FrameList' = [k \in 1 .. n |-> FrameOf(k)']
    BY <1>3 DEF FrameList
  <2>0. 1 <= n
    BY <1>3
  <2>2. PICK i \in Nat : n = i + 1
    BY ONLY <2>0, n \in Nat
  <2>3. PICK H : H = [k \in 1 .. i |-> FrameOf(k)]
    OBVIOUS
  <2>4. \A k \in 1 .. i : 0 + k = k /\ k \in 1 .. m /\ k \in 1 .. n /\ k \in 1 .. n - 1
    BY <1>4, <2>2
  <2>5. Indexed(FrameList, m) /\ Indexed(H, i) /\ Indexed(FrameList', n)
    <3>1. H = [k \in 1 .. i |-> H[k]]
      BY <2>3
    <3>2. FrameList' = [k \in 1 .. n |-> FrameList'[k]]
      BY <2>1
    <3> QED
      BY <1>10, <3>1, <3>2 DEF Indexed
  <2>6. Repeats(H, FrameList, 0, i)
    BY <1>10, <2>3, <2>4 DEF Repeats
  <2>7. Repeats(FrameList', H, 0, i)
    BY <1>7, <2>1, <2>3, <2>4 DEF Repeats
  <2>8. 0 \in Nat /\ 0 + i <= m /\ 0 + 1 = 1 /\ 0 + i = n - 1
    BY <1>4, <2>2
  <2>9. H = SubSeq(FrameList, 0 + 1, 0 + i)
    BY ONLY <2>5, <2>6, <2>8, i \in Nat, m \in Nat, PartOf
  <2>10. H = SubSeq(FrameList, 1, n - 1)
    BY ONLY <2>8, <2>9
  <2>11. FrameList' = Append(H, FrameList'[n])
    BY ONLY <2>2, <2>5, <2>7, i \in Nat, n \in Nat, LastAdded
  <2>12. FrameList'[n] = FrameOf(n)'
    BY <1>3, <2>1
  <2> QED
    BY ONLY <2>10, <2>11, <2>12
<1>12. FrameList[Len(FrameList) - 1] = FrameOf(n) /\ Len(FrameList) - 2 = n - 1
       /\ Len(FrameList) > 1
  <2>1. m - 1 = n /\ m - 2 = n - 1 /\ m > 1 /\ n \in 1 .. m
    BY <1>3, <1>4
  <2> QED
    BY <1>10, <2>1
<1>13. FrameList' = Append(SubSeq(FrameList, 1, Len(FrameList) - 2),
                           [FrameList[Len(FrameList) - 1] EXCEPT
                              !.ops = Append(@, Frames!Last(Frames!This.ops))])
  <2>1. FrameOf(n)' = [FrameOf(n) EXCEPT !.ops = Append(@, Frames!Last(Frames!This.ops))]
    BY <1>6, <1>8, <1>9, Zenon
  <2> QED
    BY <1>11, <1>12, <2>1, Zenon
<1>14. (status = "ended")' = (status = "ended")
  BY <1>1
<1> QED
  BY <1>1, <1>2, <1>9, <1>12, <1>13, <1>14, Zenon DEF Frames!Return, Running

-----------------------------------------------------------------------------
(***************************************************************************)
(* The refinement                                                          *)
(***************************************************************************)

LEMMA InitIsInit == VMInit => Frames!FSInit
<1> SUFFICES ASSUME VMInit PROVE Frames!FSInit
  OBVIOUS
<1>1. shape = << >> /\ status = "running"
  BY DEF VMInit
<1>2. PICK f \in Shapes : callee = [fn |-> f, taken |-> 0]
  <2>1. bound.fns \subseteq Shapes
    BY SizeFacts DEF VMInit
  <2> QED
    BY <2>1 DEF VMInit
<1>3. FrameList = <<MainFrame>>
  BY <1>1 DEF FrameList
<1>4. MainFrame = Frames!Frame(f, UnsetLocal, << >>)
  BY <1>2 DEF MainFrame, Frames!Frame
<1> QED
  BY <1>1, <1>2, <1>3, <1>4 DEF Frames!FSInit

(* A step of the machine is one of the frames, or hidden, unless it is an  *)
(* END with the flag of another frame's call.                              *)
FrameStep == status' = "shifted" \/ Frames!FSNext

LEMMA StepIsStep ==
  ASSUME VMInv, Shown, Shown', CallPending, [VMNext]_vmVars, End => Fits
  PROVE  [FrameStep]_(Frames!fsVars)
<1> DEFINE Hidden == FrameList' = FrameList /\ (status = "ended")' = (status = "ended")
<1>0. Hidden => UNCHANGED Frames!fsVars
  BY DEF Frames!fsVars
<1>r. Running => ((status = "ended")' = (status = "ended")) /\ ~(status = "ended")
  BY DEF Running
<1>s. Frames!FSNext => FrameStep
  BY DEF FrameStep
<1>1. CASE Const \/ MakeClosure
  BY <1>1, <1>r, <1>s, ConstIsLiteral DEF Frames!FSNext
<1>2. CASE LoadArg
  BY <1>2, <1>r, <1>s, LoadArgIsLoadArg DEF Frames!FSNext
<1>3. CASE LoadLocal
  BY <1>3, <1>r, <1>s, LoadLocalIsLoad DEF Frames!FSNext
<1>4. CASE Drop
  BY <1>4, <1>r, <1>s, DropIsDrop DEF Frames!FSNext
<1>5. CASE StoreLocal
  BY <1>5, <1>r, <1>s, StoreIsStore DEF Frames!FSNext
<1>6. CASE Call \/ CallClosure
  BY <1>0, <1>6, <1>r, CallIsHidden
<1>7. CASE Begin
  <2>1. CASE shape = << >>
    <3>1. (status = "ended")' = (status = "ended")
      BY <1>7 DEF Begin
    <3> QED
      BY <1>0, <1>7, <2>1, <3>1, FirstBeginIsHidden
  <2>2. CASE shape # << >>
    BY <1>7, <1>r, <1>s, <2>2, BeginIsCall DEF Frames!FSNext
  <2> QED
    BY <2>1, <2>2
<1>8. CASE End
  BY <1>8, <1>r, <1>s, EndIsReturn DEF Frames!FSNext
<1>9. CASE EndMain
  BY <1>9, <1>s, EndMainIsFinish DEF Frames!FSNext
<1>10. CASE Collect
  BY <1>0, <1>10, <1>r, CollectIsHidden
<1>11. CASE StackError \/ Misuse \/ CollectStale
  BY <1>0, <1>11, ErrorIsHidden
<1>12. CASE UNCHANGED vmVars
  <2>1. UNCHANGED <<mem, top, callee, shape, status>>
    BY <1>12 DEF vmVars
  <2>2. FrameList' = FrameList
    BY <2>1
    DEF FrameList, FrameOf, LocalOf, OperandsOf, OpsBegin, OpsEnd, MainFrame, NoCallee, UnsetLocal,
        Zero, Word
  <2> QED
    BY <1>0, <2>1, <2>2
<1> QED
  BY <1>1, <1>2, <1>3, <1>4, <1>5, <1>6, <1>7, <1>8, <1>9, <1>10, <1>11, <1>12 DEF VMNext

(* Once an END was off by a word nothing happens any more.                 *)
LEMMA StoppedIsHidden ==
  ASSUME status = "shifted", [VMNext]_vmVars
  PROVE  UNCHANGED Frames!fsVars
<1>1. UNCHANGED <<mem, top, callee, shape, status>>
  BY ShiftedStops DEF vmVars
<1>2. FrameList' = FrameList
  BY <1>1
  DEF FrameList, FrameOf, LocalOf, OperandsOf, OpsBegin, OpsEnd, MainFrame, NoCallee, UnsetLocal,
      Zero, Word
<1> QED
  BY <1>1, <1>2 DEF Frames!fsVars

(* What is known of the machine while its frames can be read off the words.*)
Readable == WholeInv /\ (status # "shifted" => Shown /\ CallPending)

LEMMA ReadableStep ==
  ASSUME Readable, [VMNext]_vmVars
  PROVE  Readable' /\ [FrameStep]_(Frames!fsVars)
<1>1. CASE status = "shifted"
  <2>1. WholeInv' /\ status' = "shifted"
    BY <1>1, ShiftedStops, StoppedKeepsInv DEF Readable, vmVars
  <2> QED
    BY <1>1, <2>1, StoppedIsHidden DEF Readable
<1>2. CASE status # "shifted"
  <2>1. VMInv /\ Shown /\ CallPending
    BY <1>2 DEF Readable, VMInv
  <2>2. WholeInv' /\ (End \/ VMInv') /\ CallPending'
    BY <2>1, VMStepKeepsInv, CallPendingStep
  <2>3. CASE status' = "shifted"
    BY <2>2, <2>3 DEF Readable, FrameStep
  <2>4. CASE status' # "shifted"
    <3>1. VMInv'
      BY <2>2, <2>4 DEF VMInv
    <3>2. Shown'
      BY <3>1, FramesAreShown, PTL
    <3>3. End => Fits
      BY <2>4 DEF End, Fits
    <3> QED
      BY <2>1, <2>2, <3>2, <3>3, StepIsStep DEF Readable
  <2> QED
    BY <2>3, <2>4
<1> QED
  BY <1>1, <1>2

(* The words implement the frames: whatever the machine does to the words  *)
(* of its stack, calls and returns included, is to the frames they stand   *)
(* for what a Lama program expects of the instruction, or nothing, up to   *)
(* the first END that pops with the flag of another frame's call.          *)
THEOREM WordsImplementFrames == VMSpec => ImplementsFrames
<1>1. VMInit => Readable /\ Frames!FSInit
  <2>1. VMInit => VMInv /\ CallPending
    BY VMInitInv DEF VMInit, CallPending
  <2> QED
    BY <2>1, FramesAreShown, InitIsInit DEF Readable, VMInv
<1>2. Readable /\ [VMNext]_vmVars
        => Readable' /\ [status' = "shifted" \/ Frames!FSNext]_(Frames!fsVars)
  BY ReadableStep DEF FrameStep
<1> QED
  BY <1>1, <1>2, PTL DEF VMSpec, ImplementsFrames

=============================================================================
