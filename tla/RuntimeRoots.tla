---------------------------- MODULE RuntimeRoots ----------------------------
(***************************************************************************)
(* The runtime functions that allocate (src/runtime/runtime.c), and which  *)
(* of their C variables the collector can see.                             *)
(*                                                                         *)
(* A function is a script: when it registers a variable, when it allocates,*)
(* when it follows a variable to an object.  Any allocation may collect.   *)
(* A collection gives every word it can see its object's new address; all  *)
(* other words keep the old one and are stale, and what only they lead to  *)
(* is gone.  The collector sees                                            *)
(*   - the frames from __gc_stack_top on.  In a compiled program that is   *)
(*     the frame of the runtime function that was called first: PRE_GC     *)
(*     takes it when nobody has before.  So the arguments of that function *)
(*     are seen, but neither its own variables nor anything of the         *)
(*     functions it calls.  In the interpreter the top is that of the      *)
(*     operand stack and no C variable is seen;                            *)
(*   - the extra roots.                                                    *)
(***************************************************************************)
EXTENDS ExtraRoots, FiniteSets

CONSTANTS Slots,     \* the words of the calling program
          MaxValues, \* bound: values in a new array, S-expression or closure
          MaxCalls,  \* bound: calls the program makes
          Callers,   \* who calls: a compiled "program", the "interpreter"
          ArgNames,  \* names for the variable arguments of a function
          WordNames  \* names for the words from 48 bytes above its frame on

Passed == {ArgNames[i] : i \in 1 .. MaxValues}

Above == {WordNames[i] : i \in 1 .. MaxValues}

ASSUME RootsAssumption ==
  /\ MaxValues \in Nat /\ MaxValues >= 2 /\ MaxCalls \in Nat
  /\ Callers \subseteq {"program", "interpreter"}
  /\ \A i, j \in 1 .. MaxValues :
       i # j => ArgNames[i] # ArgNames[j] /\ WordNames[i] # WordNames[j]
  /\ Passed \cap Above = {} /\ (Passed \cup Above) \cap {"p", "q", "r", "s", "c"} = {}

VARIABLES
  caller,   \* who calls
  heap,     \* the live objects: a number to [type, fields]
  frames,   \* the program, and the C functions it is in, the innermost last
  gcTop,    \* __gc_stack_top: the frame it is in, or 0
  sysargs,  \* global_sysargs
  calls,    \* how many calls were made
  last      \* history: the last call, what it was to make and its result

rrVars == <<poolVars, caller, heap, frames, gcTop, sysargs, calls, last>>

Int0 == [kind |-> "int", obj |-> 0, fresh |-> TRUE]
CString == [kind |-> "c", obj |-> 0, fresh |-> TRUE]
Ref(k) == [kind |-> "ref", obj |-> k, fresh |-> TRUE]

IsRef(w) == w.kind = "ref"

-----------------------------------------------------------------------------
(***************************************************************************)
(* Scripts: sequences of steps.                                            *)
(***************************************************************************)
Pre == [do |-> "pre"]                        \* PRE_GC
Post == [do |-> "post"]                      \* POST_GC
Push(v) == [do |-> "push", v |-> v]          \* push_extra_root(&v)
Pop(v) == [do |-> "pop", v |-> v]            \* pop_extra_root(&v)
Use(v) == [do |-> "use", v |-> v]            \* what v points to is accessed
New(v, type, n) ==                           \* v = alloc_...: n fields
  [do |-> "new", v |-> v, type |-> type, n |-> n]
Fill(v, from) ==                             \* the variables go into v
  [do |-> "fill", v |-> v, from |-> from]
Copy(v, from) == [do |-> "copy", v |-> v, from |-> from]   \* memcpy
Take(v, from) == [do |-> "take", v |-> v, from |-> from]   \* v = from
Store(v, k, from) == [do |-> "store", v |-> v, k |-> k, from |-> from]
Call(f, n, args, v) ==                       \* v = f(args), n of them varying
  [do |-> "call", f |-> f, n |-> n, args |-> args, v |-> v]
Return(v) == [do |-> "return", v |-> v]
SetGlobal(v) == [do |-> "global", v |-> v]   \* global_sysargs = v

ValueNames(n) == [i \in 1 .. n |-> ArgNames[i]]

StackWords(n) == [i \in 1 .. n |-> WordNames[i]]

Pushes(vs) == [i \in DOMAIN vs |-> Push(vs[i])]

Pops(vs) == [i \in DOMAIN vs |-> Pop(Reverse(vs)[i])]

LmakeString == <<Pre, New("r", "string", 0), Post, Return("r")>>

LmakeArray(n) == <<Pre, New("r", "array", n), Post, Return("r")>>

(* fault: p is not registered                                              *)
BstringUnregistered ==
  <<Use("p"), Pre, Call("LmakeString", 0, << >>, "s"),
    Use("p"), Use("s"), Post, Return("s")>>

(* strlen, and strncpy once the new string is there                        *)
Bstring ==
  <<Use("p"), Pre, Push("p"), Call("LmakeString", 0, << >>, "s"), Pop("p"),
    Use("p"), Use("s"), Post, Return("s")>>

(* Lstringcat, Lstring: p is printed into a buffer of C                    *)
Lstring ==
  <<Pre, Use("p"), Push("p"), Call("Bstring", 0, <<"c">>, "s"), Pop("p"), Post, Return("s")>>

Lsprintf ==
  <<Use("p"), Pre, Push("p"), Call("Bstring", 0, <<"c">>, "s"), Pop("p"), Post, Return("s")>>

(* fault: no POST_GC                                                       *)
LgetEnvInGC == <<Use("p"), Pre, Call("Bstring", 0, <<"c">>, "s"), Return("s")>>

LgetEnv == <<Use("p"), Pre, Call("Bstring", 0, <<"c">>, "s"), Post, Return("s")>>

LreadLine == <<Call("Bstring", 0, <<"c">>, "s"), Return("s")>>

(* the name is needed again only to report a failure                       *)
Lfread == <<Use("p"), Call("LmakeString", 0, << >>, "s"), Use("s"), Return("s")>>

Lsubstring ==
  <<Use("p"), Pre, Push("p"), New("r", "string", 0), Pop("p"),
    Use("p"), Use("r"), Post, Return("r")>>

(* of a value w, of n fields when it is an object that has fields          *)
Lclone(w, type, n) ==
  IF ~IsRef(w) THEN <<Return("p")>>
  ELSE <<Pre, Use("p"), Push("p")>>
         \o (IF type = "string"
               THEN <<Call("Bstring", 0, <<"p">>, "s")>>
               ELSE <<New("s", type, n), Copy("s", "p")>>)
         \o <<Pop("p"), Post, Return("s")>>

(* fault: the variables are popped in the order they were pushed           *)
ConcatFirstInFirstOut ==
  <<Use("p"), Use("q"), Pre, Push("p"), Push("q"), New("r", "string", 0), Pop("p"), Pop("q"),
    Use("p"), Use("q"), Use("r"), Post, Return("r")>>

(* Li__Infix_4343, the operator ++                                         *)
Concat ==
  <<Use("p"), Use("q"), Pre, Push("p"), Push("q"), New("r", "string", 0), Pop("q"), Pop("p"),
    Use("p"), Use("q"), Use("r"), Post, Return("r")>>

(* fault: the tail goes before the head                                    *)
ListConsTailFirst ==
  <<Pre, Push("p"), Push("q"), Call("Bsexp", 2, <<"q", "p">>, "s"),
    Pop("q"), Pop("p"), Post, Return("s")>>

(* Ls__Infix_58, the operator : as a function                              *)
ListCons ==
  <<Pre, Push("p"), Push("q"), Call("Bsexp", 2, <<"p", "q">>, "s"),
    Pop("q"), Pop("p"), Post, Return("s")>>

Barray(n) == <<Pre, New("r", "array", n), Fill("r", ValueNames(n)), Post, Return("r")>>

Bsexp(n) == <<Pre, New("r", "sexp", n), Fill("r", ValueNames(n)), Post, Return("r")>>

(* Bclosure registers as many words as it captures values, but from        *)
(* ebp + 12 on, where ebp points to int: 48 bytes up, not at its arguments *)
(* 16 bytes up.  They are words of its caller's frame (its own arguments   *)
(* from the ninth on), all on the scanned stack, where roots are skipped;  *)
(* so is each captured value.                                              *)
(* fault: r is not popped                                                  *)
BclosureLeaky(n) ==
  <<Pre>> \o Pushes(StackWords(n))
    \o <<New("r", "closure", n), Push("r"), Fill("r", ValueNames(n)), Post>>
    \o Pops(StackWords(n)) \o <<Return("r")>>

Bclosure(n) ==
  <<Pre>> \o Pushes(StackWords(n))
    \o <<New("r", "closure", n), Push("r"), Fill("r", ValueNames(n)), Post, Pop("r")>>
    \o Pops(StackWords(n)) \o <<Return("r")>>

(* set_args, for n arguments.  In p[i] = Bstring(argv[i]) the compiler may *)
(* read p first or last.  Each element takes three steps.                  *)
SetArgs(n, pFirst) ==
  LET element(k) ==
        IF pFirst THEN <<Take("q", "p"), Call("Bstring", 0, <<"c">>, "s"), Store("q", k, "s")>>
                  ELSE <<Call("Bstring", 0, <<"c">>, "s"), Take("q", "p"), Store("q", k, "s")>>
  IN  <<Pre, Call("LmakeArray", n, << >>, "p"), Push("p")>>
        \o [j \in 1 .. 3 * n |-> element((j + 2) \div 3)[((j + 2) % 3) + 1]]
        \o <<Pop("p"), Post, SetGlobal("p")>>

Names == {"p", "q", "r", "s", "c"} \cup Passed \cup Above

(* what a runtime function calls                                           *)
Code(f, n) ==
  CASE f = "LmakeString" -> LmakeString
    [] f = "LmakeArray" -> LmakeArray(n)
    [] f = "Bstring" -> Bstring
    [] f = "Bsexp" -> Bsexp(n)

Parameters(f, n) ==
  CASE f = "Bstring" -> <<"p">>
    [] f = "Bsexp" -> ValueNames(n)
    [] OTHER -> << >>

(* the variables of a C function that is entered, the text it may print    *)
(* among them; what the words above it hold is the caller's                *)
Entered(params, words) ==
  [v \in Names |->
     IF \E i \in DOMAIN params : params[i] = v
       THEN words[CHOOSE i \in DOMAIN params : params[i] = v]
       ELSE IF v = "c" THEN CString ELSE Int0]

Frame(f, code, params, words, result) ==
  [ fn |-> f, code |-> code, params |-> ToSet(params),
    vars |-> Entered(params, words), setTop |-> FALSE, result |-> result ]

Main == [ fn |-> "main", code |-> << >>, params |-> Slots,
          vars |-> [s \in Slots |-> Int0], setTop |-> FALSE, result |-> "none" ]

This == Last(frames)

WithThis(frame) == Append(Front(frames), frame)

NoCall == [fn |-> "none", made |-> [type |-> "none", fields |-> << >>], result |-> Int0]

RRInit ==
  /\ PoolInit
  /\ caller \in Callers
  /\ heap = << >>
  /\ frames = <<Main>>
  /\ gcTop = IF caller = "interpreter" THEN 1 ELSE 0
  /\ sysargs = Int0
  /\ calls = 0
  /\ last = NoCall

-----------------------------------------------------------------------------
(***************************************************************************)
(* Calls of the program                                                    *)
(***************************************************************************)
String == [type |-> "string", fields |-> << >>]

Object(type, fields) == [type |-> type, fields |-> fields]

IsString(w) == IsRef(w) /\ heap[w.obj].type = "string"

(* a call: its script, its arguments, and what it is to make of them: an   *)
(* object with these fields, or the value itself                           *)
CallOf(f, code, params, words, made) ==
  [fn |-> f, code |-> code, params |-> params, words |-> words, made |-> made]

Values == {frames[1].vars[s] : s \in Slots}

Strings == {w \in Values : IsString(w)}

WordsOfLength(n) == [1 .. n -> Values]

PlainCalls ==
  { CallOf("LmakeString", LmakeString, << >>, << >>, String),
    CallOf("LreadLine", LreadLine, << >>, << >>, String),
    CallOf("Bstring", Bstring, <<"p">>, <<CString>>, String) }
  \cup {CallOf("Lstring", Lstring, <<"p">>, <<w>>, String) : w \in Values}
  \cup {CallOf(c[1], c[2], <<"p">>, <<w>>, String) :
           w \in Strings,
           c \in { <<"Lsprintf", Lsprintf>>, <<"LgetEnv", LgetEnv>>,
                   <<"Lfread", Lfread>>, <<"Lsubstring", Lsubstring>> }}
  \cup {CallOf("Concat", Concat, <<"p", "q">>, <<v, w>>, String) : v, w \in Strings}

CopyOf(w) ==
  IF IsRef(w)
    THEN LET o == heap[w.obj]
         IN  CallOf("Lclone", Lclone(w, o.type, Len(o.fields)), <<"p">>, <<w>>, o)
    ELSE CallOf("Lclone", Lclone(w, "none", 0), <<"p">>, <<w>>, Object("value", <<w>>))

ObjectCalls ==
  {CopyOf(w) : w \in Values}
  \cup {CallOf("ListCons", ListCons, <<"p", "q">>, <<v, w>>, Object("sexp", <<v, w>>)) :
           v, w \in Values}
  \cup UNION {
      { CallOf("LmakeArray", LmakeArray(n), << >>, << >>,
               Object("array", [k \in 1 .. n |-> Int0])) }
      \cup UNION {
        { CallOf("Barray", Barray(n), ValueNames(n), ws, Object("array", ws)),
          CallOf("Bsexp", Bsexp(n), ValueNames(n), ws, Object("sexp", ws)),
          CallOf("Bclosure", Bclosure(n), ValueNames(n), ws, Object("closure", ws)) }
        : ws \in WordsOfLength(n) }
    : n \in 0 .. MaxValues }

(* the start of a compiled program                                         *)
StartCalls ==
  IF sysargs = Int0
    THEN {CallOf("SetArgs", SetArgs(n, pFirst), << >>, << >>, Object("args", << >>)) :
            n \in 0 .. MaxValues, pFirst \in BOOLEAN}
    ELSE {}

(* BeginCall: the interpreter calls Bstring for a literal and Lstring for  *)
(* an operand it has popped                                                *)
InterpreterCalls == {c \in PlainCalls : c.fn \in {"Bstring", "Lstring"}}

Available ==
  IF caller = "program" THEN PlainCalls \cup ObjectCalls \cup StartCalls ELSE InterpreterCalls

BeginCall ==
  /\ exit = "none"
  /\ Len(frames) = 1
  /\ calls < MaxCalls
  /\ calls' = calls + 1
  /\ \E c \in Available, slot \in Slots :
       /\ caller = "interpreter" /\ c.words # <<CString>> => c.words = <<This.vars[slot]>>
       /\ LET main == IF caller = "interpreter" THEN [This EXCEPT !.vars[slot] = Int0] ELSE This
          IN  frames' = <<main, Frame(c.fn, c.code, c.params, c.words, slot)>>
       /\ last' = [fn |-> c.fn, made |-> c.made, result |-> Int0]
  /\ UNCHANGED <<poolVars, caller, heap, gcTop, sysargs>>

-----------------------------------------------------------------------------
(***************************************************************************)
(* A collection                                                            *)
(***************************************************************************)

(* A variable that can be registered is named by its frame and its name.   *)
SysArgs == <<0, "sysargs">>

Cells == {SysArgs} \cup UNION {{<<k, v>> : v \in DOMAIN frames[k].vars} : k \in DOMAIN frames}

WordIn(c) == IF c = SysArgs THEN sysargs ELSE frames[c[1]].vars[c[2]]

(* in [__gc_stack_top + 4, __gc_stack_bottom)                              *)
OnScannedStack(c) ==
  /\ c # SysArgs
  /\ c[1] < gcTop \/ (c[1] = gcTop /\ c[2] \in frames[c[1]].params)

TimesInPool(c) == Cardinality({i \in DOMAIN pool : pool[i] = c})

(* fault: a root on the stack is fixed with the stack and again as a root  *)
FixesRepeated(c) == (IF OnScannedStack(c) THEN 1 ELSE 0) + TimesInPool(c)

(* how often update_references sets the word to the new address of its     *)
(* object: scan_and_fix_region_roots skips the roots that are on the stack *)
Fixes(c) == IF OnScannedStack(c) THEN 1 ELSE TimesInPool(c)

RootWords == {WordIn(c) : c \in {x \in Cells : OnScannedStack(x) \/ TimesInPool(x) > 0}}

ObjectsIn(words) == {w.obj : w \in {x \in words : IsRef(x)}}

Reachable ==
  LET R[k \in 0 .. Cardinality(DOMAIN heap)] ==
        IF k = 0 THEN ObjectsIn(RootWords)
        ELSE R[k - 1] \cup ObjectsIn(UNION {ToSet(heap[o].fields) : o \in R[k - 1]})
  IN  R[Cardinality(DOMAIN heap)]

(* A word that is not fixed, or fixed again although it is right already,  *)
(* no longer leads to its object.                                          *)
Moved(w, fixes) == IF IsRef(w) /\ fixes # 1 THEN [w EXCEPT !.fresh = FALSE] ELSE w

MovedFrames ==
  [k \in DOMAIN frames |->
     [frames[k] EXCEPT !.vars = [v \in DOMAIN @ |-> Moved(@[v], Fixes(<<k, v>>))]]]

-----------------------------------------------------------------------------
(***************************************************************************)
(* Steps of the innermost function                                         *)
(***************************************************************************)
InCall == exit = "none" /\ Len(frames) > 1

Instr == Head(This.code)

Stepped == [This EXCEPT !.code = Tail(@)]

Value(v) == This.vars[v]

EnterGC ==
  /\ InCall /\ Instr.do = "pre"
  /\ frames' = WithThis([Stepped EXCEPT !.setTop = (gcTop = 0)])
  /\ gcTop' = IF gcTop = 0 THEN Len(frames) ELSE gcTop
  /\ UNCHANGED <<poolVars, caller, heap, sysargs, calls, last>>

LeaveGC ==
  /\ InCall /\ Instr.do = "post"
  /\ frames' = WithThis(Stepped)
  /\ gcTop' = IF This.setTop THEN 0 ELSE gcTop
  /\ UNCHANGED <<poolVars, caller, heap, sysargs, calls, last>>

Register ==
  /\ InCall /\ Instr.do = "push"
  /\ PushRoot(<<Len(frames), Instr.v>>)
  /\ frames' = WithThis(Stepped)
  /\ UNCHANGED <<caller, heap, gcTop, sysargs, calls, last>>

Unregister ==
  /\ InCall /\ Instr.do = "pop"
  /\ PopRoot(<<Len(frames), Instr.v>>)
  /\ frames' = WithThis(Stepped)
  /\ UNCHANGED <<caller, heap, gcTop, sysargs, calls, last>>

Goes == UNCHANGED <<poolVars, caller, gcTop, sysargs, calls, last>>

(* What a step follows, or stores where the collector will find it.        *)
Followed(i) ==
  CASE i.do \in {"use", "return", "global"} -> {i.v}
    [] i.do \in {"copy", "store"} -> {i.v, i.from}
    [] i.do = "fill" -> {i.v} \cup ToSet(i.from)
    [] OTHER -> {}

FollowsStale == \E v \in Followed(Instr) : ~Value(v).fresh

Access ==
  /\ InCall /\ Instr.do = "use" /\ ~FollowsStale
  /\ frames' = WithThis(Stepped)
  /\ UNCHANGED heap /\ Goes

(* the fields of the object v points to become ws                          *)
SetFields(v, ws) == heap' = [heap EXCEPT ![Value(v).obj].fields = ws]

FillObject ==
  /\ InCall /\ Instr.do = "fill" /\ ~FollowsStale
  /\ SetFields(Instr.v, [k \in DOMAIN Instr.from |-> Value(Instr.from[k])])
  /\ frames' = WithThis(Stepped)
  /\ Goes

CopyObject ==
  /\ InCall /\ Instr.do = "copy" /\ ~FollowsStale
  /\ SetFields(Instr.v, heap[Value(Instr.from).obj].fields)
  /\ frames' = WithThis(Stepped)
  /\ Goes

StoreElement ==
  /\ InCall /\ Instr.do = "store" /\ ~FollowsStale
  /\ heap' = [heap EXCEPT ![Value(Instr.v).obj].fields[Instr.k] = Value(Instr.from)]
  /\ frames' = WithThis(Stepped)
  /\ Goes

TakeVariable ==
  /\ InCall /\ Instr.do = "take"
  /\ frames' = WithThis([Stepped EXCEPT !.vars[Instr.v] = Value(Instr.from)])
  /\ UNCHANGED heap /\ Goes

CallFunction ==
  /\ InCall /\ Instr.do = "call"
  /\ frames' = Append(WithThis(Stepped),
                      Frame(Instr.f, Code(Instr.f, Instr.n), Parameters(Instr.f, Instr.n),
                            [i \in DOMAIN Instr.args |-> Value(Instr.args[i])], Instr.v))
  /\ UNCHANGED heap /\ Goes

(* a number for a new object: no live one has it, and what the last call   *)
(* is to make does not speak of one that had it                            *)
NewNumber ==
  CHOOSE k \in 1 .. Cardinality(DOMAIN heap) + MaxValues + 1 :
    k \notin DOMAIN heap \cup ObjectsIn(ToSet(last.made.fields))

WithObject(objects, k, o) == [j \in DOMAIN objects \cup {k} |-> IF j = k THEN o ELSE objects[j]]

(* alloc_...: the heap may be full, then everything it has moves           *)
NewObject ==
  /\ InCall /\ Instr.do = "new"
  /\ LET k == NewNumber
         o == Object(Instr.type, [i \in 1 .. Instr.n |-> Int0])
     IN  \/ /\ heap' = WithObject(heap, k, o)
            /\ frames' = WithThis([Stepped EXCEPT !.vars[Instr.v] = Ref(k)])
            /\ UNCHANGED sysargs
         \/ /\ \A w \in RootWords : w.fresh
            /\ heap' = WithObject([j \in Reachable |-> heap[j]], k, o)
            /\ frames' = Append(Front(MovedFrames),
                                [Last(MovedFrames) EXCEPT !.code = Tail(@), !.vars[Instr.v] = Ref(k)])
            /\ sysargs' = Moved(sysargs, Fixes(SysArgs))
  /\ UNCHANGED <<poolVars, caller, gcTop, calls, last>>

ReturnValue ==
  /\ InCall /\ Instr.do = "return" /\ ~FollowsStale
  /\ LET callers == Front(frames)
         to == [Last(callers) EXCEPT !.vars[This.result] = Value(Instr.v)]
     IN  frames' = Append(Front(callers), to)
  /\ last' = IF Len(frames) = 2 THEN [last EXCEPT !.result = Value(Instr.v)] ELSE last
  /\ UNCHANGED <<poolVars, caller, heap, gcTop, sysargs, calls>>

(* set_args ends; its array stays a root for ever                          *)
KeepSysArgs ==
  /\ InCall /\ Instr.do = "global" /\ ~FollowsStale
  /\ sysargs' = Value(Instr.v)
  /\ PushRoot(SysArgs)
  /\ frames' = Front(frames)
  /\ last' = [last EXCEPT !.result = Value(Instr.v)]
  /\ UNCHANGED <<caller, heap, gcTop, calls>>

(* A step follows, or the collector is given, a word that no longer leads  *)
(* to an object: what happens then is undefined.                           *)
Undefined ==
  /\ InCall
  /\ \/ FollowsStale
     \/ Instr.do = "new" /\ \E w \in RootWords : ~w.fresh
  /\ exit' = "stale"
  /\ UNCHANGED <<pool, caller, heap, frames, gcTop, sysargs, calls, last>>

RRNext ==
  \/ BeginCall
  \/ EnterGC \/ LeaveGC \/ Register \/ Unregister
  \/ Access \/ FillObject \/ CopyObject \/ StoreElement \/ TakeVariable
  \/ CallFunction \/ NewObject \/ ReturnValue \/ KeepSysArgs
  \/ Undefined

RRSpec == RRInit /\ [][RRNext]_rrVars

-----------------------------------------------------------------------------
(***************************************************************************)
(* Correctness                                                             *)
(***************************************************************************)

(* The functions the process is in, the first one called first.            *)
Chain == [k \in 1 .. Len(frames) - 1 |-> frames[k + 1].fn]

(* Every word and frame is of its kind, and __gc_stack_top is in a frame   *)
(* that is there.                                                          *)
RootsTypeOK ==
  /\ exit \in {"none", "overflow", "empty", "mismatch", "stale"}
  /\ gcTop \in 0 .. Len(frames)
  /\ \A c \in Cells : LET w == WordIn(c) IN
       /\ w.kind \in {"int", "c", "ref"}
       /\ w.fresh /\ IsRef(w) => w.obj \in DOMAIN heap
  /\ \A o \in DOMAIN heap : \A i \in DOMAIN heap[o].fields : heap[o].fields[i].fresh

(* The pool follows the calls: it holds what functions that have not       *)
(* returned registered, inner ones after outer ones, above global_sysargs; *)
(* so it is as empty after a call as it was before.  Nothing a function    *)
(* returned from stays a root.                                             *)
PoolFollowsCalls ==
  /\ \A i \in DOMAIN pool : pool[i] # SysArgs => pool[i][1] \in 2 .. Len(frames)
  /\ \A i, j \in DOMAIN pool : i < j => pool[i][1] <= pool[j][1]
  /\ sysargs = Int0 <=> ~(\E i \in DOMAIN pool : pool[i] = SysArgs)
  /\ gcTop > 1 => frames[gcTop].setTop

(* The errors of the pool (negative_scenarios): no function pops from an   *)
(* empty pool or another variable than it should, and only a closure with  *)
(* as many captured values as there are places runs out of them.  It needs *)
(* a place for itself, and set_args keeps one for ever.                    *)
PoolErrors ==
  /\ exit \notin {"empty", "mismatch"}
  /\ exit = "overflow" =>
       /\ Chain = <<"Bclosure">>
       /\ Cardinality(This.params) + 1 + (IF sysargs = Int0 THEN 0 ELSE 1) > MaxRoots

(* No function uses a variable the collector has left behind, but two: the *)
(* operator : as a function hands copies of its registered arguments to    *)
(* Bsexp, and set_args may have read p before Bstring moves the array.     *)
StaleOnlyKnown ==
  exit = "stale" =>
    \/ Chain = <<"ListCons", "Bsexp">>
    \/ Chain = <<"SetArgs">> /\ Instr.do = "store"

Returned == exit = "none" /\ Len(frames) = 1 /\ last.fn # "none"

(* A call makes the object it is for, with the values it was given, no     *)
(* matter how often the heap moves meanwhile.  The array of set_args holds *)
(* a string of its own for every argument.                                 *)
ResultsAsPromised ==
  Returned =>
    CASE last.fn = "SetArgs" ->
           LET fields == heap[sysargs.obj].fields IN
           /\ \A i \in DOMAIN fields : IsString(fields[i])
           /\ \A i, j \in DOMAIN fields : fields[i] = fields[j] => i = j
      [] last.made.type = "value" -> last.result = last.made.fields[1]
      [] OTHER -> heap[last.result.obj] = last.made
=============================================================================
