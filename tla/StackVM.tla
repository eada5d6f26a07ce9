------------------------------ MODULE StackVM ------------------------------
(***************************************************************************)
(* The interpreter's stack (runtime-decl.h) under the instructions that    *)
(* lay it out (executing-visitor.h), word by word, with runtime checks on. *)
(*                                                                         *)
(* The stack is an array of Size words that grows down from stack_begin;   *)
(* the words above it are the globals.  `top' is the next free word.  Of a *)
(* frame, base holds the caller's base, base + 1 its number of arguments,  *)
(* base + 2 the return address, then come the arguments (the first one     *)
(* highest) and, under a closure call, the closure; local i is base - 1 - i*)
(* and the operands start at base - 2 - n_locals.                          *)
(*                                                                         *)
(* The program is any stream of instructions.  What one does that takes    *)
(* words its frame has not got, or calls what is no closure, is undefined: *)
(* the behaviour ends there.  It also ends with the first END that pops    *)
(* with the in_closure flag of another frame's call: from then on the      *)
(* operands of the caller are one word off.                                *)
(***************************************************************************)
EXTENDS Integers, Sequences, SequencesExt

CONSTANTS NGlobal,      \* words for globals (one of them is never a global)
          Shapes,       \* functions: records [nargs, nlocals]
          Sites,        \* return addresses
          Bounds        \* bounds of a behaviour: records of the functions of
                        \* the program, the words of the array, the frames, the
                        \* operands of each, the values a closure captures,
                        \* whether allocations collect and whether a local 0
                        \* may be read before it is assigned

ASSUME StackAssumption ==
  /\ NGlobal \in Nat \ {0}
  /\ Shapes \subseteq [nargs : Nat, nlocals : Nat]
  /\ Sites \subseteq Nat
  /\ Bounds \subseteq [fns : SUBSET Shapes, size : {n \in Nat : n > NGlobal},
                     frames : Nat, ops : Nat,
                     captures : Nat, collects : BOOLEAN, unset : BOOLEAN]

VARIABLES
  bound,      \* the bounds of this behaviour
  mem,        \* the words
  top,        \* __gc_stack_top
  base,       \* base_pointer
  nargs,      \* n_args
  inClosure,  \* in_closure
  status,     \* "running", or how execution ended
  callee,     \* the function whose BEGIN is the next instruction, or NoCallee
  shape,      \* history: per frame its function, how it was called, the
              \* operands declared for it, whether local 0 is assigned, its base
  risks       \* history: "unset" when a local 0 was read before it was
              \* assigned, "nested" when the body of a closure made a call

vmVars == <<bound, mem, top, base, nargs, inClosure, status, callee, shape, risks>>

Size == bound.size

StackBegin == Size - NGlobal

(* A word: a zero, an integer, a pointer to a closure, a pointer to where  *)
(* an object was before a collection, or one of the words of a frame.      *)
Word(kind, v) == [kind |-> kind, v |-> v]
Zero == Word("zero", 0)
Int1 == Word("int", 1)
Closure == Word("closure", 0)
Stale == Word("stale", 0)

Values == {Int1, Closure}

NoCallee == [fn |-> [nargs |-> 0, nlocals |-> 0], taken |-> -1]

This == Last(shape)

WithThis(s) == Append(Front(shape), s)

VMInit ==
  /\ bound \in Bounds
  /\ mem = [a \in 0 .. Size - 1 |-> Zero]
  /\ top = StackBegin
  /\ base = StackBegin
  /\ nargs = 2
  /\ inClosure = FALSE
  /\ status = "running"
  /\ \E f \in bound.fns : callee = [fn |-> f, taken |-> 0]
  /\ shape = << >>
  /\ risks = {}

-----------------------------------------------------------------------------
(* push: an error when the last word has been reached                      *)
PushWord(w) ==
  /\ top > 0
  /\ mem' = [mem EXCEPT ![top] = w]
  /\ top' = top - 1

Executing == status = "running" /\ callee = NoCallee

PushOperand(w) ==
  /\ Executing
  /\ This.ops < bound.ops
  /\ PushWord(w)
  /\ shape' = WithThis([This EXCEPT !.ops = @ + 1])
  /\ UNCHANGED <<bound, base, nargs, inClosure, status, callee>>

Const == PushOperand(Int1) /\ UNCHANGED risks

(* create_reference: GLOBAL, ARG and LOCAL                                 *)
(* fault: local i is taken for base - i                                    *)
LocalAddressAtBase(k) == base - k

GlobalAddresses == StackBegin + 1 .. Size - 1
ArgAddress(k) == base + 2 + nargs - k
LocalAddress(k) == base - 1 - k

(* the outermost function was passed no arguments                          *)
ArgIndices == IF Len(shape) > 1 THEN 0 .. This.fn.nargs - 1 ELSE {}
LocalIndices == 0 .. This.fn.nlocals - 1

(* Local 0 is the one BEGIN does not clear.                                *)
IsUnset(k) == k = 0 /\ ~This.stored
ReadableLocals == {k \in LocalIndices : IsUnset(k) => bound.unset}

Noting(unset) == risks' = IF unset THEN risks \cup {"unset"} ELSE risks

LoadArg == \E k \in ArgIndices : PushOperand(mem[ArgAddress(k)]) /\ UNCHANGED risks

LoadLocal ==
  /\ Executing
  /\ \E k \in ReadableLocals : PushOperand(mem[LocalAddress(k)]) /\ Noting(IsUnset(k))

(* What CLOSURE can capture: the word, and whether it is that of an unset  *)
(* local.  The words a closure captured are values.                        *)
Captured(w, unset) == [word |-> w, unset |-> unset]

Capturable ==
  {Captured(mem[a], FALSE) : a \in GlobalAddresses}
    \cup {Captured(mem[LocalAddress(k)], IsUnset(k)) : k \in ReadableLocals}
    \cup {Captured(mem[ArgAddress(k)], FALSE) : k \in ArgIndices}
    \cup {Captured(v, FALSE) : v \in Values}

(* The n captured values are pushed, with an error when one does not fit,  *)
(* then popped into the closure; what they leave below it stays there.     *)
HasTemporaries(n) == top > 0 /\ top >= n

MakeClosure ==
  \E n \in 0 .. bound.captures :
    /\ Executing
    /\ This.ops < bound.ops
    /\ HasTemporaries(n)
    /\ \E c \in [1 .. n -> Capturable] :
         /\ mem' = [a \in 0 .. Size - 1 |->
                      IF a = top THEN Closure
                      ELSE IF a \in top - n + 1 .. top - 1 THEN c[top - a + 1].word
                      ELSE mem[a]]
         /\ Noting(\E i \in 1 .. n : c[i].unset)
    /\ top' = top - 1
    /\ shape' = WithThis([This EXCEPT !.ops = @ + 1])
    /\ UNCHANGED <<bound, base, nargs, inClosure, status, callee>>

Drop ==
  /\ Executing
  /\ This.ops > 0
  /\ top' = top + 1
  /\ shape' = WithThis([This EXCEPT !.ops = @ - 1])
  /\ UNCHANGED <<bound, mem, base, nargs, inClosure, status, callee, risks>>

StoreLocal ==
  /\ Executing
  /\ This.ops > 0
  /\ \E k \in LocalIndices :
       /\ mem' = [mem EXCEPT ![LocalAddress(k)] = mem[top + 1]]
       /\ shape' = WithThis([This EXCEPT !.stored = @ \/ k = 0])
  /\ UNCHANGED <<bound, top, base, nargs, inClosure, status, callee, risks>>

(* visit_call and visit_call_closure: push the return address              *)
MayCall ==
  /\ Executing
  /\ Len(shape) < bound.frames
  /\ risks' = IF This.taken = 1 THEN risks \cup {"nested"} ELSE risks

Call ==
  /\ MayCall
  /\ \E f \in bound.fns, site \in Sites :
       /\ This.ops >= f.nargs
       /\ PushWord(Word("ret", site))
       /\ callee' = [fn |-> f, taken |-> 0]
  /\ UNCHANGED <<bound, base, nargs, inClosure, status, shape>>

CallClosure ==
  /\ MayCall
  /\ \E f \in bound.fns, site \in Sites :
       /\ This.ops >= f.nargs + 1
       /\ mem[top + 1 + f.nargs] = Closure
       /\ PushWord(Word("ret", site))
       /\ callee' = [fn |-> f, taken |-> 1]
  /\ inClosure' = TRUE
  /\ UNCHANGED <<bound, base, nargs, status, shape>>

(* fault: BEGIN demands no free words                                      *)
HasRoomAlways(f) == TRUE

(* visit_begin; the outermost function has no return address below it and  *)
(* no caller                                                               *)
HasRoom(f) == top >= f.nargs + f.nlocals + 4

(* fault: nothing is cleared                                               *)
ClearedNothing(f) == {}

(* memset, of n_locals + 1 words from the new top                          *)
Cleared(f) ==
  LET newTop == top - 2 - (f.nlocals + 1) IN newTop .. newTop + f.nlocals

Callers ==
  IF shape = << >>
    THEN << >>
    ELSE WithThis([This EXCEPT !.ops = @ - callee.fn.nargs - callee.taken])

Begin ==
  /\ status = "running"
  /\ callee # NoCallee
  /\ HasRoom(callee.fn)
  /\ LET reserved ==
           [a \in 0 .. Size - 1 |-> IF a \in Cleared(callee.fn) THEN Zero ELSE mem[a]]
     IN  mem' = [reserved EXCEPT ![top] = Word("nargs", nargs), ![top - 1] = Word("base", base)]
  /\ nargs' = callee.fn.nargs
  /\ base' = top - 1
  /\ top' = top - 2 - (callee.fn.nlocals + 1)
  /\ shape' = Append(Callers, [fn |-> callee.fn, taken |-> callee.taken,
                               ops |-> 0, stored |-> FALSE, base |-> top - 1])
  /\ callee' = NoCallee
  /\ UNCHANGED <<bound, inClosure, status, risks>>

(* fault: the closure under the arguments stays                            *)
ReturnTopOverClosure == base + 2 + nargs

(* visit_end_ret, of a frame that was called.  When the flag is not the    *)
(* frame's own, a word too many is removed or the closure stays.           *)
ReturnTop == base + 2 + nargs + (IF inClosure THEN 1 ELSE 0)

End ==
  /\ Executing
  /\ base # StackBegin - 1
  /\ This.ops > 0
  /\ mem' = [mem EXCEPT ![ReturnTop] = mem[top + 1]]
  /\ top' = ReturnTop - 1
  /\ base' = mem[base].v
  /\ nargs' = mem[base + 1].v
  /\ inClosure' = FALSE
  /\ status' = IF inClosure = (This.taken = 1) THEN status ELSE "shifted"
  /\ shape' = LET callers == Front(shape)
              IN  Append(Front(callers), [Last(callers) EXCEPT !.ops = @ + 1])
  /\ UNCHANGED <<bound, callee, risks>>

(* visit_end_ret, of the outermost frame                                   *)
EndMain ==
  /\ Executing
  /\ base = StackBegin - 1
  /\ inClosure' = FALSE
  /\ status' = "ended"
  /\ UNCHANGED <<bound, mem, top, base, nargs, callee, shape, risks>>

(* The stack checks exit: push with no word left, BEGIN without room.      *)
StackError ==
  /\ status = "running"
  /\ IF callee = NoCallee
       THEN \E n \in 0 .. bound.captures : ~HasTemporaries(n)
       ELSE ~HasRoom(callee.fn)
  /\ status' = "error"
  /\ UNCHANGED <<bound, mem, top, base, nargs, inClosure, callee, shape, risks>>

(* An instruction takes words the frame has not got, or CALLC takes what is*)
(* no closure: pop notices only the end of the stack.                      *)
Misuse ==
  /\ Executing
  /\ \E f \in bound.fns : This.ops <= f.nargs \/ mem[top + 1 + f.nargs] # Closure
  /\ status' = "corrupt"
  /\ UNCHANGED <<bound, mem, top, base, nargs, inClosure, callee, shape, risks>>

(* An instruction allocates, the heap is full, and the collector takes     *)
(* every word from top + 1 to the end of the array as a root: pointers     *)
(* among them follow their objects, all others point to where an object    *)
(* may have been.                                                          *)
Scanned == top + 1 .. Size - 1

Collect ==
  /\ bound.collects
  /\ Executing
  /\ \A a \in Scanned : mem[a] # Stale
  /\ mem' = [a \in 0 .. Size - 1 |->
               IF a \notin Scanned /\ mem[a] = Closure THEN Stale ELSE mem[a]]
  /\ UNCHANGED <<bound, top, base, nargs, inClosure, status, callee, shape, risks>>

(* It follows a pointer to no object: what it does then is undefined.      *)
CollectStale ==
  /\ bound.collects
  /\ Executing
  /\ \E a \in Scanned : mem[a] = Stale
  /\ status' = "corrupt"
  /\ UNCHANGED <<bound, mem, top, base, nargs, inClosure, callee, shape, risks>>

VMNext ==
  \/ Const \/ MakeClosure \/ LoadArg \/ LoadLocal \/ Drop \/ StoreLocal
  \/ Call \/ CallClosure \/ Begin \/ End \/ EndMain
  \/ StackError \/ Misuse \/ Collect \/ CollectStale

VMSpec == VMInit /\ [][VMNext]_vmVars

-----------------------------------------------------------------------------
(***************************************************************************)
(* Correctness                                                             *)
(***************************************************************************)

Words == [kind : {"zero", "int", "closure", "stale", "ret", "base", "nargs"}, v : Nat]

(* The pointers stay inside the array, and every word is of a known kind.  *)
VMTypeOK ==
  /\ bound \in Bounds
  /\ mem \in [0 .. Size - 1 -> Words]
  /\ top \in 0 .. StackBegin
  /\ base \in 0 .. StackBegin
  /\ nargs \in Nat
  /\ inClosure \in BOOLEAN
  /\ status \in {"running", "ended", "error", "corrupt", "shifted"}
  /\ risks \subseteq {"unset", "nested"}
  /\ \A k \in DOMAIN shape : shape[k].ops \in Nat

(* The headers of the frames stay a chain while operands, arguments and    *)
(* locals are written next to them: the base register is at the newest     *)
(* frame, each header gives back the caller's base and argument count, and *)
(* n_args is what the running function was declared with.                  *)
HeadersIntact ==
  shape # << >> =>
    /\ base = This.base /\ nargs = This.fn.nargs
    /\ \A k \in 2 .. Len(shape) :
         /\ mem[shape[k].base] = Word("base", shape[k - 1].base)
         /\ mem[shape[k].base + 1] = Word("nargs", shape[k - 1].fn.nargs)

(***************************************************************************)
(* The frames the words stand for.                                         *)
(***************************************************************************)

(* the last word of the operands of frame k: above what the next frame     *)
(* (or the call under way) took                                            *)
OpsEnd(k) ==
  IF k < Len(shape)
    THEN shape[k + 1].base + 3 + shape[k + 1].fn.nargs + shape[k + 1].taken
    ELSE IF callee = NoCallee THEN top + 1 ELSE top + 2

OpsBegin(k) == shape[k].base - 2 - shape[k].fn.nlocals

OperandsOf(k) ==
  [j \in 1 .. OpsBegin(k) - OpsEnd(k) + 1 |-> mem[OpsBegin(k) - j + 1]]

UnsetLocal == Word("unset", 0)

(* what local 0 holds until it is assigned is nobody's value               *)
LocalOf(k, j) ==
  IF j = 1 /\ ~shape[k].stored THEN UnsetLocal ELSE mem[shape[k].base - j]

FrameOf(k) ==
  LET b == shape[k].base
      f == shape[k].fn
  IN  [ site |-> IF k = 1 THEN UnsetLocal ELSE mem[b + 2],
        args |-> IF k = 1 THEN << >> ELSE [j \in 1 .. f.nargs |-> mem[b + 2 + f.nargs - (j - 1)]],
        locals |-> [j \in 1 .. f.nlocals |-> LocalOf(k, j)],
        ops |-> OperandsOf(k) ]

FrameSites == {Word("ret", site) : site \in Sites}

(* Before its BEGIN has run the outermost function has a frame already.    *)
MainFrame ==
  [ site |-> UnsetLocal, args |-> << >>,
    locals |-> [j \in 1 .. callee.fn.nlocals |-> IF j = 1 THEN UnsetLocal ELSE Zero],
    ops |-> << >> ]

FrameList ==
  IF shape = << >> THEN <<MainFrame>> ELSE [k \in 1 .. Len(shape) |-> FrameOf(k)]

Frames ==
  INSTANCE FrameStack WITH
    Closures <- {Closure}, Blank <- Zero, Unset <- UnsetLocal, Sites <- FrameSites,
    frames <- FrameList, finished <- status = "ended"

(* The words implement the frames: every instruction of the machine does to*)
(* them what it should do to a stack of frames, or nothing, until an END   *)
(* pops with the flag of another frame's call.                             *)
ImplementsFrames ==
  Frames!FSInit /\ [][status' = "shifted" \/ Frames!FSNext]_(Frames!fsVars)

(***************************************************************************)
(* The layout of the stack, in named parts: the inductive invariant behind *)
(* the properties.                                                         *)
(***************************************************************************)

FrameRecords == [fn : Shapes, taken : 0 .. 1, ops : Nat, stored : BOOLEAN, base : Nat]

HistoryTypes ==
  /\ shape \in Seq(FrameRecords)
  /\ callee \in {NoCallee} \cup [fn : Shapes, taken : 0 .. 1]

(* before the BEGIN of the outermost function                              *)
LayoutAtStart ==
  shape = << >> =>
    /\ callee # NoCallee /\ callee.taken = 0
    /\ top = StackBegin /\ base = StackBegin /\ inClosure = FALSE

(* The highest word of frame k: its first argument, or the closure.        *)
Ceiling(k) == shape[k].base + 2 + shape[k].fn.nargs + shape[k].taken

(* Every frame ends below the operands its callers keep, and the operands  *)
(* of each fill the words from its locals to the next frame (or the top).  *)
FramesApart ==
  shape # << >> /\ status # "shifted" =>
    /\ shape[1].base = StackBegin - 1 /\ shape[1].taken = 0
    /\ \A k \in DOMAIN shape : OpsEnd(k) - 1 + shape[k].ops = OpsBegin(k)
    /\ \A i, k \in DOMAIN shape : i < k => Ceiling(k) <= OpsBegin(i)
    /\ callee # NoCallee => This.ops >= callee.fn.nargs + callee.taken

(* As long as the bodies of closures make no calls, in_closure belongs to  *)
(* the call under way or to the newest frame, only the newest frame may be *)
(* a closure's, and no END is off by a word.                               *)
FlagOfNewest ==
  shape # << >> /\ "nested" \notin risks =>
    /\ inClosure = IF callee = NoCallee THEN This.taken = 1 ELSE callee.taken = 1
    /\ \A k \in 1 .. Len(shape) - 1 : shape[k].taken = 0
    /\ callee # NoCallee => This.taken = 0
    /\ status # "shifted"

LayoutInv ==
  /\ HistoryTypes
  /\ LayoutAtStart
  /\ FramesApart
  /\ FlagOfNewest

(* Until a local 0 is read before it is assigned, words the collector must *)
(* not follow are left, at most, at the first word below the base of a     *)
(* frame (local 0 while it is unassigned, or nothing at all in a function  *)
(* without locals): the one word there that BEGIN does not clear.          *)
StaleOnlyBelowBase ==
  "unset" \notin risks =>
    \A a \in Scanned :
      mem[a] = Stale => \E k \in DOMAIN shape : a = shape[k].base - 1 /\ ~shape[k].stored

(* mark's invariant (gc.c:512) asks that what it follows from the roots is *)
(* the content of an object.                                               *)
RootsPointToObjects == \A a \in Scanned : mem[a] # Stale

(* Between the instructions of a frame there are as many operands as       *)
(* diagnostic-visitor.h declares: CALL changes the depth by 1 - n_arg and  *)
(* CALLC by -n_arg (lines 137 and 129).                                    *)
OperandsAsDeclared ==
  callee = NoCallee /\ shape # << >> => Len(OperandsOf(Len(shape))) = This.ops
=============================================================================
