---------------------------- MODULE MarkCompact ----------------------------
(***************************************************************************)
(* The heap and its garbage collector (src/runtime/gc.c): bump allocation, *)
(* and when that fails a collection in the steps of LISP2.  Marking goes   *)
(* breadth first from every root, with a queue that needs no memory of its *)
(* own: slot k of the queue is the forward word of the k-th object of the  *)
(* heap.  Then every marked object is given its new place, the heap grows  *)
(* (and may move), references are rewritten, and the objects slide down.   *)
(*                                                                         *)
(* Memory is words.  An object is a header word (its type and length), a   *)
(* word that holds a forward address and two flags, and its content; a     *)
(* reference is the address of the content.  `mem' is indexed from         *)
(* heap.begin, references are absolute, so that a heap that moves leaves   *)
(* them behind.  One action is one iteration of a loop of the collector;   *)
(* the interpreter is stopped meanwhile.                                   *)
(***************************************************************************)
EXTENDS Integers, Sequences, SequencesExt, FiniteSets

CONSTANTS RawWords,   \* a content word that is no field: characters, a tag
          Bases,      \* where the heap may be
          FirstBase,  \* where it is at first
          MaxStack,   \* bound: words of the operand stack
          Bounds      \* bounds of a behaviour: records of the shapes of what is
                      \* allocated (records [type, len]), of how often, and of
                      \* where the heap may be after it has grown

Types == {"array", "string", "sexp", "closure"}

(* A closure has its entry, whatever it captures.                          *)
ASSUME CollectorAssumption ==
  /\ \A r \in RawWords : r.kind \in {"int", "ptr"}
  /\ Bases \subseteq Nat /\ FirstBase \in Bases
  /\ MaxStack \in Nat
  /\ \A b \in Bounds :
       /\ b.allocs \in Nat /\ b.bases \subseteq Bases
       /\ \A s \in b.shapes :
            s.type \in Types /\ s.len \in Nat /\ (s.type = "closure" => s.len > 0)

VARIABLES
  bound,    \* the bounds of this behaviour
  heap,     \* begin, size and used = current - begin
  mem,      \* the words of the heap
  stack,    \* the operand stack, the top last
  cells,    \* the C variables in the extra roots pool, the newest last
  phase,    \* "run", "alloc", "mark", "compute", "update",
            \* "relocate", "retry", or "exited"
  request,  \* the allocation under way
  root,     \* mark_phase: how many roots are done
  qhead, qtail,  \* mark: the two ends of the queue, as offsets of headers
  field, fieldEnd,  \* mark: the fields still to be looked at, as offsets
  scan,     \* the heap iterator of compute_locations, update_references and
            \* physically_relocate
  live,     \* compute_locations: free_ptr, and then live_size
  old,      \* old_heap
  allocs,   \* history: how many allocations were made
  graph     \* history: the object graph the last instruction has left

markVars == <<root, qhead, qtail, field, fieldEnd>>
collectorVars == <<markVars, scan, live, old>>
programVars == <<bound, heap, mem, phase, stack, cells, request, allocs, collectorVars>>
mutatorVars == <<stack, cells, request, allocs, graph>>
vars == <<programVars, graph>>

Box(k) == [kind |-> "int", v |-> k]
Ptr(a) == [kind |-> "ptr", v |-> a]
Header(type, len) == [kind |-> type, v |-> len]
Forward(a) == [kind |-> "fwd", v |-> a, marked |-> FALSE, enqueued |-> FALSE]

HeaderWords == 2      \* DATA_HEADER_SZ
MinimumCapacity == 4  \* MINIMUM_HEAP_CAPACITY

Larger(x, y) == IF x > y THEN x ELSE y

-----------------------------------------------------------------------------
(***************************************************************************)
(* Objects                                                                 *)
(***************************************************************************)

(* words of content that are not fields: all of a string with its final 0, *)
(* the tag of an S-expression, the entry that a closure counts as captured *)
RawSize(type, len) ==
  CASE type = "string" -> (len + 1 + 3) \div 4
    [] type = "sexp" -> 1
    [] type = "closure" -> 1
    [] type = "array" -> 0

FieldCount(type, len) ==
  CASE type = "string" -> 0
    [] type = "closure" -> len - 1
    [] OTHER -> len

Size(type, len) == HeaderWords + RawSize(type, len) + FieldCount(type, len)

SizeAt(m, h) == Size(m[h].kind, m[h].v)

NextObject(m, h) == h + SizeAt(m, h)

(* the offsets of the fields of the object at h                            *)
FirstField(m, h) == h + HeaderWords + RawSize(m[h].kind, m[h].v)

FieldsAt(m, h) == FirstField(m, h) .. NextObject(m, h) - 1

(* the header offset of the object with content at p                       *)
HeaderOf(p) == p - heap.begin - HeaderWords

Content(h) == heap.begin + h + HeaderWords

Flags(m, p) == m[HeaderOf(p) + 1]
IsMarked(m, p) == Flags(m, p).marked
IsEnqueued(m, p) == Flags(m, p).enqueued

(* An empty array may be the last object, its content is where current is. *)
PointsInto(hp, w) == w.kind = "ptr" /\ hp.begin <= w.v /\ w.v <= hp.begin + hp.used

IsValidHeapPointer(w) == PointsInto(heap, w)

-----------------------------------------------------------------------------
(***************************************************************************)
(* The object graph the words stand for: objects reachable from the stack, *)
(* in the order of their addresses.                                        *)
(***************************************************************************)

IsObject(hp, m, p) ==
  LET h == p - hp.begin - HeaderWords IN h \in DOMAIN m /\ m[h].kind \in Types

PointersIn(hp, m, words) ==
  {w.v : w \in {x \in words : PointsInto(hp, x) /\ IsObject(hp, m, x.v)}}

(* contents reachable from a set of words, within n steps                  *)
Reach(hp, m, words, n) ==
  LET fields(p) == {m[o] : o \in FieldsAt(m, p - hp.begin - HeaderWords)}
      R[k \in 0 .. n] ==
        IF k = 0 THEN PointersIn(hp, m, words)
                 ELSE UNION {{p} \cup PointersIn(hp, m, fields(p)) : p \in R[k - 1]}
  IN  R[n]

(* how many of a set of addresses, or of objects, are not above p          *)
Rank(R, p) == Cardinality({q \in R : q <= p})

(* a word as a value of the graph of the objects with contents at R        *)
ValueIn(R, w) ==
  IF w.kind = "ptr" /\ w.v \in R THEN [kind |-> "ref", v |-> Rank(R, w.v)] ELSE w

(* and the object with header at h                                         *)
ObjectIn(R, m, h) ==
  [ type |-> m[h].kind,
    raw |-> [i \in 1 .. RawSize(m[h].kind, m[h].v) |-> m[h + HeaderWords + i - 1]],
    fields |-> [i \in 1 .. FieldCount(m[h].kind, m[h].v) |->
                  ValueIn(R, m[FirstField(m, h) + i - 1])] ]

GraphOf(hp, m, words, n) ==
  LET R == Reach(hp, m, ToSet(words), n)
      address(k) == CHOOSE p \in R : Rank(R, p) = k
  IN  [ objs |-> [k \in 1 .. Cardinality(R) |->
                    ObjectIn(R, m, address(k) - hp.begin - HeaderWords)],
        operands |-> [i \in DOMAIN words |-> ValueIn(R, words[i])] ]

Observe == graph' = GraphOf(heap', mem', stack', allocs')

NoRequest == [type |-> "none", len |-> 0, raw |-> Box(0)]

Init ==
  /\ bound \in Bounds
  /\ heap = [begin |-> FirstBase, size |-> MinimumCapacity, used |-> 0]
  /\ mem = [o \in 0 .. MinimumCapacity - 1 |-> Ptr(0)]
  /\ stack = << >>
  /\ cells = << >>
  /\ phase = "run"
  /\ request = NoRequest
  /\ root = 0 /\ qhead = 0 /\ qtail = 0 /\ field = 0 /\ fieldEnd = 0
  /\ scan = 0 /\ live = 0
  /\ old = [begin |-> 0, used |-> 0]
  /\ allocs = 0
  /\ graph = GraphOf(heap, mem, stack, 0)

-----------------------------------------------------------------------------
(***************************************************************************)
(* The interpreter                                                         *)
(***************************************************************************)

PushWord(w) ==
  /\ Len(stack) < MaxStack
  /\ stack' = Append(stack, w)

Const ==
  /\ phase = "run"
  /\ PushWord(Box(1))
  /\ UNCHANGED <<bound, heap, mem, phase, cells, request, allocs, collectorVars>>
  /\ Observe

(* DUP, LD                                                                 *)
Load ==
  /\ phase = "run"
  /\ \E i \in DOMAIN stack : PushWord(stack[i])
  /\ UNCHANGED <<bound, heap, mem, phase, cells, request, allocs, collectorVars>>
  /\ Observe

Drop ==
  /\ phase = "run"
  /\ stack # << >>
  /\ stack' = Front(stack)
  /\ UNCHANGED <<bound, heap, mem, phase, cells, request, allocs, collectorVars>>
  /\ Observe

FieldAddresses(w) == IF w.kind = "ptr" THEN FieldsAt(mem, HeaderOf(w.v)) ELSE {}

(* Belem, of an object with fields; the index is a constant                *)
Elem ==
  /\ phase = "run"
  /\ stack # << >>
  /\ \E o \in FieldAddresses(Last(stack)) : stack' = Append(Front(stack), mem[o])
  /\ UNCHANGED <<bound, heap, mem, phase, cells, request, allocs, collectorVars>>
  /\ Observe

(* Bsta, likewise                                                          *)
Assign ==
  /\ phase = "run"
  /\ Len(stack) > 1
  /\ \E o \in FieldAddresses(stack[Len(stack) - 1]) : mem' = [mem EXCEPT ![o] = Last(stack)]
  /\ stack' = Append(SubSeq(stack, 1, Len(stack) - 2), Last(stack))
  /\ UNCHANGED <<bound, heap, phase, cells, request, allocs, collectorVars>>
  /\ Observe

Ask(type, len, raw) ==
  /\ phase = "run"
  /\ allocs < bound.allocs
  /\ phase' = "alloc"
  /\ request' = [type |-> type, len |-> len, raw |-> raw]
  /\ UNCHANGED <<bound, heap, mem, allocs, graph, collectorVars>>

(* myBarray, myBsexp, myBclosure and Bstring: the operands that become     *)
(* fields are popped after the allocation                                  *)
New ==
  /\ \E s \in bound.shapes, r \in RawWords :
       /\ Len(stack) >= FieldCount(s.type, s.len)
       /\ Len(stack) - FieldCount(s.type, s.len) < MaxStack
       /\ Ask(s.type, s.len, r)
  /\ UNCHANGED <<stack, cells>>

(* Lclone: the object is held by nothing but C variables that are extra    *)
(* roots: Lclone's, and for a string also that of Bstring                  *)
Clone ==
  /\ stack # << >> /\ Last(stack).kind = "ptr"
  /\ LET w == Last(stack)
         header == mem[HeaderOf(w.v)]
     IN  /\ Ask(header.kind, header.v, Box(0))
         /\ cells' = IF header.kind = "string" THEN <<w, w>> ELSE <<w>>
  /\ stack' = Front(stack)

-----------------------------------------------------------------------------
(***************************************************************************)
(* alloc and gc_alloc                                                      *)
(***************************************************************************)

RequestSize == Size(request.type, request.len)

Fits == heap.used + RequestSize <= heap.size

(* the content given to the new object, from the first word on             *)
NewContent ==
  LET raw == RawSize(request.type, request.len)
      fields == FieldCount(request.type, request.len)
  IN  IF cells = << >>
        THEN [i \in 1 .. raw |-> request.raw]
               \o SubSeq(stack, Len(stack) - fields + 1, Len(stack))
        ELSE [i \in 1 .. raw + fields |-> mem[HeaderOf(Last(cells).v) + HeaderWords + i - 1]]

Popped == IF cells = << >> THEN FieldCount(request.type, request.len) ELSE 0

(* gc_alloc_on_existing_heap, and the caller's use of its result.  After a *)
(* collection nobody looks whether it was NULL: then nothing goes on.      *)
AllocateObject ==
  /\ phase \in {"alloc", "retry"}
  /\ Fits
  /\ LET words == <<Header(request.type, request.len), Forward(0)>> \o NewContent
     IN  mem' = [o \in DOMAIN mem |->
                   IF o \in heap.used .. heap.used + RequestSize - 1
                     THEN words[o - heap.used + 1] ELSE mem[o]]
  /\ stack' = Append(SubSeq(stack, 1, Len(stack) - Popped), Ptr(Content(heap.used)))
  /\ heap' = [heap EXCEPT !.used = @ + RequestSize]
  /\ phase' = "run"
  /\ cells' = << >>
  /\ request' = NoRequest
  /\ allocs' = allocs + 1
  /\ UNCHANGED <<bound, collectorVars>>

Allocate == AllocateObject /\ Observe

(* a collection starts                                                     *)
Collect ==
  /\ phase = "alloc"
  /\ ~Fits
  /\ phase' = "mark"
  /\ UNCHANGED <<bound, heap, mem, mutatorVars, collectorVars>>

-----------------------------------------------------------------------------
(***************************************************************************)
(* mark_phase                                                              *)
(***************************************************************************)

(* the stack from its top to its bottom, then the extra roots              *)
Roots == Reverse(stack) \o cells

(* SET_FORWARD_ADDRESS keeps the flags                                     *)
SetForward(m, h, a) == [m EXCEPT ![h + 1].v = a]

Enqueue(q, p) ==
  LET stored == SetForward(q.mem, q.tail, p)
  IN  [ mem |-> [stored EXCEPT ![HeaderOf(p) + 1].enqueued = TRUE],
        tail |-> NextObject(stored, q.tail) ]

(* mark(root) up to its loop                                               *)
MarkRoot ==
  /\ phase = "mark"
  /\ qhead = qtail /\ field = fieldEnd
  /\ root < Len(Roots)
  /\ LET w == Roots[root + 1]
         q == IF IsValidHeapPointer(w) /\ ~IsMarked(mem, w.v)
                THEN Enqueue([mem |-> mem, tail |-> 0], w.v)
                ELSE [mem |-> mem, tail |-> 0]
     IN  /\ mem' = q.mem
         /\ qtail' = q.tail
  /\ qhead' = 0
  /\ root' = root + 1
  /\ UNCHANGED <<bound, heap, phase, mutatorVars, field, fieldEnd, scan, live, old>>

(* fault: the flag of an object that leaves the queue stays                *)
DequeuedFlagged(h) == [mem EXCEPT ![h + 1].marked = TRUE]

(* make_dequeued and mark_object                                           *)
Dequeued(h) == [mem EXCEPT ![h + 1].enqueued = FALSE, ![h + 1].marked = TRUE]

(* one object is dequeued and marked                                       *)
MarkStep ==
  /\ phase = "mark"
  /\ qhead # qtail /\ field = fieldEnd
  /\ LET cur == HeaderOf(mem[qhead + 1].v)
     IN  /\ mem' = Dequeued(cur)
         /\ field' = FirstField(mem, cur)
         /\ fieldEnd' = NextObject(mem, cur)
  /\ qhead' = NextObject(mem, qhead)
  /\ UNCHANGED <<bound, heap, phase, mutatorVars, root, qtail, scan, live, old>>

(* a field of it is enqueued, if it leads anywhere new                     *)
MarkField ==
  /\ phase = "mark"
  /\ field # fieldEnd
  /\ LET w == mem[field]
         q == IF IsValidHeapPointer(w) /\ ~IsMarked(mem, w.v) /\ ~IsEnqueued(mem, w.v)
                THEN Enqueue([mem |-> mem, tail |-> qtail], w.v)
                ELSE [mem |-> mem, tail |-> qtail]
     IN  /\ mem' = q.mem
         /\ qtail' = q.tail
  /\ field' = field + 1
  /\ UNCHANGED <<bound, heap, phase, mutatorVars, root, qhead, fieldEnd, scan, live, old>>

(* fault: scan_extra_roots is forgotten                                    *)
MarkDoneEarly ==
  /\ phase = "mark"
  /\ qhead = qtail /\ field = fieldEnd
  /\ root = Len(stack)
  /\ phase' = "compute"
  /\ scan' = 0 /\ live' = 0
  /\ UNCHANGED <<bound, heap, mem, mutatorVars, markVars, old>>

MarkDone ==
  /\ phase = "mark"
  /\ qhead = qtail /\ field = fieldEnd
  /\ root = Len(Roots)
  /\ phase' = "compute"
  /\ scan' = 0 /\ live' = 0
  /\ UNCHANGED <<bound, heap, mem, mutatorVars, markVars, old>>

-----------------------------------------------------------------------------
(***************************************************************************)
(* compact_phase                                                           *)
(***************************************************************************)

(* compute_locations                                                       *)
Compute ==
  /\ phase = "compute"
  /\ scan < heap.used
  /\ IF IsMarked(mem, Content(scan))
       THEN /\ mem' = SetForward(mem, scan, heap.begin + live)
            /\ live' = live + SizeAt(mem, scan)
       ELSE UNCHANGED <<mem, live>>
  /\ scan' = NextObject(mem, scan)
  /\ UNCHANGED <<bound, heap, phase, mutatorVars, markVars, old>>

(* fault: no room is made for the allocation that asked                    *)
NextHeapSizeTight == Larger(live * 2, MinimumCapacity)

NextHeapSize == Larger(live * 2 + RequestSize, MinimumCapacity)

(* fault: heap.size is not brought up to date                              *)
GrowKeepsSize ==
  /\ phase = "compute"
  /\ scan = heap.used
  /\ LET size == Larger(NextHeapSize, heap.size) IN
       /\ \E b \in (IF size = heap.size THEN {heap.begin} ELSE bound.bases) :
            heap' = [heap EXCEPT !.begin = b]
       /\ mem' = [o \in 0 .. size - 1 |-> IF o < heap.size THEN mem[o] ELSE Ptr(0)]
  /\ old' = [begin |-> heap.begin, used |-> heap.used]
  /\ phase' = "update"
  /\ scan' = 0
  /\ UNCHANGED <<bound, mutatorVars, markVars, live>>

(* mremap: the heap never shrinks, and it moves only when it grows.        *)
Grow ==
  /\ phase = "compute"
  /\ scan = heap.used
  /\ LET size == Larger(NextHeapSize, heap.size) IN
       /\ \E b \in (IF size = heap.size THEN {heap.begin} ELSE bound.bases) :
            heap' = [heap EXCEPT !.begin = b, !.size = size]
       /\ mem' = [o \in 0 .. size - 1 |-> IF o < heap.size THEN mem[o] ELSE Ptr(0)]
  /\ old' = [begin |-> heap.begin, used |-> heap.used]
  /\ phase' = "update"
  /\ scan' = 0
  /\ UNCHANGED <<bound, mutatorVars, markVars, live>>

(* mremap fails, and the process exits.                                    *)
GrowFails ==
  /\ phase = "compute"
  /\ scan = heap.used
  /\ NextHeapSize > heap.size
  /\ phase' = "exited"
  /\ UNCHANGED <<bound, heap, mem, mutatorVars, collectorVars>>

(* fault: current is not a place an object can be at                       *)
FixedBelowCurrent(w) ==
  IF w.kind = "ptr" /\ old.begin <= w.v /\ w.v < old.begin + old.used
    THEN LET forward == mem[w.v - old.begin - HeaderWords + 1].v
         IN  Ptr(heap.begin + (forward - old.begin) + HeaderWords)
    ELSE w

(* a word that may lead into the old heap, with its new value              *)
Fixed(w) ==
  IF w.kind = "ptr" /\ old.begin <= w.v /\ w.v <= old.begin + old.used
    THEN LET forward == mem[w.v - old.begin - HeaderWords + 1].v
         IN  Ptr(heap.begin + (forward - old.begin) + HeaderWords)
    ELSE w

(* update_references: one object of the heap                               *)
UpdateObject ==
  /\ phase = "update"
  /\ scan < heap.used
  /\ mem' = IF IsMarked(mem, Content(scan))
              THEN [o \in DOMAIN mem |->
                      IF o \in FieldsAt(mem, scan) THEN Fixed(mem[o]) ELSE mem[o]]
              ELSE mem
  /\ scan' = NextObject(mem, scan)
  /\ UNCHANGED <<bound, heap, phase, mutatorVars, markVars, live, old>>

(* fault: the extra roots are left as they are                             *)
UpdateRootsStackOnly ==
  /\ phase = "update"
  /\ scan = heap.used
  /\ stack' = [i \in DOMAIN stack |-> Fixed(stack[i])]
  /\ phase' = "relocate"
  /\ scan' = 0
  /\ UNCHANGED <<bound, heap, mem, cells, request, allocs, graph, markVars, live, old>>

(* update_references: the stack and the extra roots                        *)
UpdateRoots ==
  /\ phase = "update"
  /\ scan = heap.used
  /\ stack' = [i \in DOMAIN stack |-> Fixed(stack[i])]
  /\ cells' = [i \in DOMAIN cells |-> Fixed(cells[i])]
  /\ phase' = "relocate"
  /\ scan' = 0
  /\ UNCHANGED <<bound, heap, mem, request, allocs, graph, markVars, live, old>>

(* fault: the mark stays                                                   *)
MovedMarked(h) ==
  LET to == mem[h + 1].v - old.begin
  IN  [o \in DOMAIN mem |->
         IF o \in to .. to + SizeAt(mem, h) - 1 THEN mem[o - to + h] ELSE mem[o]]

(* memmove, and unmark at the new place                                    *)
Moved(h) ==
  LET to == mem[h + 1].v - old.begin
      copy == [o \in DOMAIN mem |->
                 IF o \in to .. to + SizeAt(mem, h) - 1 THEN mem[o - to + h] ELSE mem[o]]
  IN  [copy EXCEPT ![to + 1].marked = FALSE]

(* physically_relocate: one object; its successor is found before it moves *)
Relocate ==
  /\ phase = "relocate"
  /\ scan < heap.used
  /\ mem' = IF IsMarked(mem, Content(scan)) THEN Moved(scan) ELSE mem
  /\ scan' = NextObject(mem, scan)
  /\ UNCHANGED <<bound, heap, phase, mutatorVars, markVars, live, old>>

(* fault: current stays behind the last object there was                   *)
RelocateKeepsCurrent ==
  /\ phase = "relocate"
  /\ scan = heap.used
  /\ phase' = "retry"
  /\ scan' = 0 /\ live' = 0 /\ root' = 0
  /\ old' = [begin |-> 0, used |-> 0]
  /\ qhead' = 0 /\ qtail' = 0 /\ field' = 0 /\ fieldEnd' = 0
  /\ UNCHANGED <<bound, heap, mem, mutatorVars>>

RelocateDone ==
  /\ phase = "relocate"
  /\ scan = heap.used
  /\ heap' = [heap EXCEPT !.used = live]
  /\ phase' = "retry"
  /\ scan' = 0 /\ live' = 0 /\ root' = 0
  /\ old' = [begin |-> 0, used |-> 0]
  /\ qhead' = 0 /\ qtail' = 0 /\ field' = 0 /\ fieldEnd' = 0
  /\ UNCHANGED <<bound, mem, mutatorVars>>

Mutate == Const \/ Load \/ Drop \/ Elem \/ Assign \/ New \/ Clone

Collector ==
  \/ Collect
  \/ MarkRoot \/ MarkStep \/ MarkField \/ MarkDone
  \/ Compute \/ Grow \/ GrowFails \/ UpdateObject \/ UpdateRoots
  \/ Relocate \/ RelocateDone

Next == Mutate \/ Allocate \/ Collector

(* An allocation is one call: it goes on until it returns.  The program    *)
(* that makes the calls may stop.                                          *)
Spec == Init /\ [][Next]_vars /\ WF_programVars(AllocateObject \/ Collector)

-----------------------------------------------------------------------------
(***************************************************************************)
(* Correctness                                                             *)
(***************************************************************************)

(* Every word of the heap is of a known kind, and the offsets stay in it.  *)
HeapTypeOK ==
  /\ heap.begin \in Bases /\ 0 <= heap.used /\ heap.used <= heap.size
  /\ DOMAIN mem = 0 .. heap.size - 1
  /\ \A o \in DOMAIN mem : mem[o].kind \in Types \cup {"fwd", "int", "ptr"}
  /\ {qhead, qtail, field, fieldEnd, scan, live} \subseteq 0 .. heap.used
  /\ Len(stack) <= MaxStack /\ root \in 0 .. Len(Roots)

IsHeader(h) == h + 1 < heap.used /\ mem[h].kind \in Types

(* the headers met from h on, when the heap is walked object by object     *)
HeadersFrom(h) ==
  LET H[k \in 0 .. allocs] ==
        IF k = 0 THEN {h}
        ELSE UNION {{o} \cup (IF IsHeader(o) THEN {NextObject(mem, o)} ELSE {}) : o \in H[k - 1]}
  IN  H[allocs]

(* The heap can always be walked: from its first object (from the one to   *)
(* move next, while objects slide) the headers lead exactly to current.    *)
HeapWalkable ==
  LET H == HeadersFrom(IF phase = "relocate" THEN scan ELSE 0) IN
  /\ heap.used \in H
  /\ \A h \in H \ {heap.used} : IsHeader(h) /\ mem[h + 1].kind = "fwd"

Objects == HeadersFrom(0) \ {heap.used}

Slots == {h \in Objects : qhead <= h /\ h < qtail}

(* The invariant of mark's loop (gc.c:512) and what it needs to hold: the  *)
(* queue holds contents of unmarked objects, each once, exactly those with *)
(* the enqueued flag; and as many slots are left behind its tail as there  *)
(* are objects that may still be enqueued.                                 *)
QueueInvariant ==
  phase = "mark" =>
    /\ \A s, t \in Slots : mem[s + 1].v = mem[t + 1].v => s = t
    /\ {mem[s + 1].v : s \in Slots} = {Content(h) : h \in {x \in Objects : mem[x + 1].enqueued}}
    /\ \A h \in Objects : ~(mem[h + 1].enqueued /\ mem[h + 1].marked)
    /\ Cardinality({h \in Objects : h >= qtail})
         >= Cardinality({h \in Objects : ~mem[h + 1].enqueued /\ ~mem[h + 1].marked})

(* Marking marks what can be reached from the stack and the extra roots,   *)
(* all of it and nothing else.                                             *)
MarksReachable ==
  phase = "compute" =>
    {Content(h) : h \in {x \in Objects : mem[x + 1].marked}} = Reach(heap, mem, ToSet(stack) \cup ToSet(cells), allocs)

(* The interpreter sees no flags: each collection starts with the heap as  *)
(* the last one and the allocations since have to leave it.                *)
FlagsClear ==
  phase \in {"run", "alloc", "retry"} =>
    \A h \in Objects : ~mem[h + 1].marked /\ ~mem[h + 1].enqueued

(* What the interpreter and the runtime hold leads to objects, and so do   *)
(* all fields: no collection leaves a reference to where an object was     *)
(* before it slid or the heap moved.                                       *)
NoDangling ==
  phase \in {"run", "alloc", "retry"} =>
    \A w \in ToSet(stack) \cup ToSet(cells) \cup {mem[o] : o \in UNION {FieldsAt(mem, h) : h \in Objects}} :
      w.kind = "ptr" => HeaderOf(w.v) \in Objects

(* gc_alloc returns what its second attempt gives, and alloc_string and    *)
(* the others write through it without a look: it is never NULL.           *)
RetryFits == phase = "retry" => Fits

(* What a collection leaves: to the next one no flags, to the program no   *)
(* dangling references, and room to the allocation it was made for.        *)
HeapIntact == FlagsClear /\ NoDangling /\ RetryFits

GraphKinds ==
  {[type |-> s.type, raw |-> RawSize(s.type, s.len), fields |-> FieldCount(s.type, s.len)] :
     s \in UNION {b.shapes : b \in Bounds}}

Abstract ==
  INSTANCE ObjectGraph WITH
    Kinds <- GraphKinds,
    objs <- graph.objs, operands <- graph.operands

(* Heap and collector implement a graph of objects: instructions do to the *)
(* reachable objects what they should, an allocation adds one object to    *)
(* them, and a collection in between, with its growing, moving and sliding *)
(* heap, cannot be seen.                                                   *)
ImplementsGraph == Abstract!GraphSpec

(* Every allocation returns with an object: the collection ends and has    *)
(* made the heap large enough, or the process exits because it could not.  *)
AllocationReturns == phase = "alloc" ~> phase \in {"run", "exited"}
=============================================================================
