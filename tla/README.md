# Verification of the Lama virtual machine

TLA+ models, TLC runs and TLAPS proofs for the bytecode interpreter in this
repository: a virtual machine for the language Lama that either checks its
operand stack while it runs (`analyzer FILE runtime`) or verifies the bytecode
first and then runs it with the checks compiled out (`analyzer FILE verify`),
on top of a runtime library with a mark-compact garbage collector.

The source is single-threaded. What makes it hard is not concurrency but
agreement: between two hand-written tables of instruction effects, between the
order of a walk and what the walk is meant to establish, between words that
different instructions put next to each other, and between the many steps of a
collection, each of which relies on what the last one left in the same memory.

## 1. Inventory

| Component | State | Operations | Interacts with |
|---|---|---|---|
| Loader (`src/bytefile.cpp`, `.h`) | the loaded file: code, string table, public symbols | `read_file` | gives the code to everything else |
| Decoders (`run_instruction` in `src/main.cpp`, `visit_instruction` in `src/visitor.h`, `src/lama-enums.h`) | none | one case per opcode; report successors, or give up | called by both passes of the verifier and by the interpreter |
| Verifier, first pass (`gather_incoming_cf`) | work stack, `visited`, the set of incoming addresses | push the entries; decode one instruction and push its successors | its set is read by the second pass |
| Verifier, second pass (`check_depth`, `src/diagnostic-visitor.h`) | trackers (address, function, depth, maximum), `visited`, `registered_depth`, `max_stack` | walk one instruction; every error exit; patch BEGIN | patches the code the interpreter runs |
| Interpreter (`src/executing-visitor.h`, `src/runtime-decl.h`): frames, variables, operators | stack array, top, base pointer, `n_args`, `in_closure` | one function per instruction | allocates in the heap; its stack is the collector's root set |
| Heap and collector (`src/runtime/gc.c`, `gc.h`) | heap bounds and current, header words with mark, enqueued and forward address, extra roots | `alloc`, `mark_phase`, `compact_phase`, the `alloc_*` functions | called from the runtime library and the interpreter; rewrites their words |
| Extra roots pool (`gc.c`) | array of 32 addresses | push, pop, clear | runtime functions register their C variables |
| Runtime library (`src/runtime/runtime.c`): allocating functions | their C variables, `__gc_stack_top`, `global_sysargs` | `B*` and `L*` functions that allocate | registers variables in the pool; a collection moves what they point to |
| Runtime library: values, operators, input and files | `errno`, open files, input | operators, `Lcompare`, `Lhash`, `Lstring`, patterns, `LreadLine`, ... | called by compiled programs, some by the interpreter |
| String buffer and tag hash (`runtime.c`) | one string buffer | create, print, extend; `LtagHash`, `de_hash` | `Lstring`, `Lstringcat`, `Lsprintf`; `SEXP` and `TAG` |
| Command line (`main`) | none | chooses one of the two ways to run | |
| Test harness (`virt_stack.c`, `test_main.c`, `test_util.s`, `negative_scenarios/`) | a stack of its own | unit tests of the collector | |
| Lama programs (`regression/`, `performance/`, `Std.i`) | | inputs of the machine | |

What is hard, per component, and what makes it correct:

* **Verifier.** A jump target is walked once, by whichever path comes first;
  later paths are only compared with what the first one registered, and only at
  addresses the first pass found. Correct means: everything an accepted program
  can reach was walked, at every depth it is reached with (*soundness*);
  programs whose depths fit are never rejected because of the order of the walk
  (*completeness*); the walk ends on loops; the recorded stack covers the
  function.
* **Verified execution.** The interpreter trusts the verifier completely. The
  two classes that say what an instruction does to the stack, one declaring it
  and one doing it, must agree.
* **Interpreter stack.** Frames are laid out by arithmetic on one array; a
  header, locals, operands, arguments and a closure are neighbours. Correct
  means that the words behave like separate frames, and that the collector can
  take all of them as roots.
* **Collector.** LISP2 in place: the marking queue lives in the forward words of
  the heap's own objects, the heap may move between computing an address and
  using it, and objects slide over memory that is still to be read. Correct
  means that the program cannot notice: it sees the object graph it built.
* **Variables.** A reference is an address computed from the base pointer or
  `stack_begin`, in four ways that are checked against nothing (but for the
  number of a global); `LDA` leaves such addresses among the operands. Correct
  means that variables behave as names with values of their own.
* **Extra roots, allocating functions.** A C variable is safe across an
  allocation only while it is registered or in the scanned stack, never both,
  first in last out, 32 at most. Correct means that a call returns the object it
  is to make, wherever the collector strikes, and leaves the pool as it was.
* **Values.** Order, hash, text and patterns are recursive functions written
  separately over the same layout, operators are computed in two places. Correct
  means that they agree with each other and with arithmetic.
* **String buffer, input, files.** A retry loop around `vsnprintf`; functions
  that tell errors by state others leave behind (`errno`, open files).

The list of hazards with their lines is `hazards` in `PROJECT.json`.

## 2. Modules

```
Bytecode ── Verifier ── VerifiedRun            FrameStack         ObjectGraph
               │             │                     ▲ refines           ▲ refines
               │    VerifierProofs           StackVM            MarkCompact
               │             │              StackVMProofs  CollectorProofs ── GraphProofs
          MCVerifier    MCVerifiedRun          MCStackVM          MCMarkCompact

NamedVariables        ExtraRoots               Words   Tags   StringBuf
     ▲ refines            │                      │      │        │
  Variables          RuntimeRoots             Values ── Library ─┘
 VariablesProofs    MCRuntimeRoots                     MCLibrary
 MCVariables       ScriptProofs ── RuntimeRootsProofs
```

`BasicFacts` holds the lemmas about numbers, sequences and sets that grow round by
round which the proof modules share.

### Bytecode

Instructions as records of an operation, a count and a target. An address is the
position of an instruction, so that "the next instruction" is `a + 1`. Three
tables: control flow as `run_instruction` reports it, the effect
`DiagnosticVisitor` declares (need and change of the depth, cast to `int8_t`:
`I8`) and the effect `CheckingExecutingVisitor` has (operands taken, change, and
the most words pushed on the way; what a call takes and leaves is up to the callee's
BEGIN and END and is not in the table). Literals, names, the kinds of constants,
patterns and binary operators and byte offsets are left out: none of them
changes a depth or a successor.

### Verifier

One action per iteration of each loop: `GatherEntry`, `Gather`, `GatherReject`,
`GatherDone`; `WalkJmp`, `WalkCjmp`, `WalkEnd`, `WalkOther`, `WalkFail`,
`WalkReject`, `WalkDone`. The work stacks are sequences whose last element is the
back of the `std::vector`. The program is chosen in `Init` from the constant
`Programs`, so that a run checks all of them. `walked` is a history variable:
every (address, depth) pair that passed the checks of an iteration. `Reached`,
`WaysIn` and `KeepsMax` say of a program, without the walk, which addresses control
can come to, from where, and whether paths meet only at addresses that are reached
in one way after the other; `MaxStackCovers` is claimed of such programs.

`visited[next_ip]` is read one past the end of the vector when the last
instruction falls through; `NextSeen` allows both results. The targets of jumps
are in the code (`WellFormed`): the source indexes a vector with them before
anything checks them, and nothing is defined beyond that. The two passes decode
different classes of instruction errors (`visit_jmp` and others fill a field
`error` that nobody reads), which the model has no need to distinguish.

### VerifiedRun

Extends the verifier by the execution of an accepted program: `frames` has each frame
with its address and the number of its operand words. At each step the interpreter
goes where the instruction leads and changes the depth as it really does. A call does
what `visit_call`, `visit_call_closure`, `visit_begin` and `visit_end_ret` do between
them, and not what CALL and CALLC declare: END takes from the caller as many words as
the *callee's* BEGIN has counted, and one more when the flag `in_closure`, of which
there is one for all frames, is set at that moment (`Removed`). `Underflow`,
`CallUnderflow`, `ReturnUnderflow`, `Overflow` and `Stray` are what unchecked execution
cannot notice; the run is followed up to the first of them. Values are left out, so
that a conditional jump goes either way and a CALLC finds a closure of any CLOSURE of
the program. `Room` is what the check in `visit_begin` makes sure of.

`risks` is a history variable: "count" once a call was made whose callee counts its
arguments differently, "nested" once the body of a closure has made a call. Nothing in the code
prevents either, and after either the depths of the walk no longer are those of the
frames; the properties say what holds before and what holds anyway.

### StackVM and FrameStack

`StackVM` is the stack array, word by word, with the runtime checks on: loads and
stores of arguments and locals by `create_reference`, closures of captured globals,
locals, arguments and other values (which are pushed, and leave their words below the
closure), `CALL` and `CALLC`, `BEGIN`, `END`, the outermost frame, both stack errors, and
a collection as the roots see it. Functions have any number of arguments and locals,
and closures' bodies may call. `shape` is a history variable that remembers, per frame,
what it was called as and how many operands its instructions have declared; `risks`
remembers that a local 0 was read before it was assigned ("unset": `visit_ld` has no
check, and what it reads there is a word of an earlier frame) and that the body of a
closure has made a call ("nested").

The program is any stream of instructions. A behaviour ends in "corrupt" where an
instruction takes words its frame has not got, or CALLC what is no closure (`Misuse`),
or where the collector follows a pointer to no object (`CollectStale`): what happens
then is undefined. It ends in "shifted" with the first END that pops with the flag of
another frame's call, since from there on nothing said of the caller's operands is
true. The arguments `main` would have (`n_args` starts as 2) are not there in the
array and are not loaded.

`FrameStack` is what a program expects: frames that each own their arguments,
locals and operands, calls that take operands from the caller and return one
value to exactly this caller. `ImplementsFrames` is the refinement; it maps the
words between two headers to arguments, locals and operands, up to an END that is
"shifted". A local 0 that was not assigned is `Unset`; loading it gives anything
(`LoadUnset`). `FrameList` is what the
C++ code has no variable for: the frames that the chain of saved base pointers
leads to. `LayoutInv` says where each of them lies.

### MarkCompact and ObjectGraph

`MarkCompact` has the heap as words, a header and a forward word per object, the
operand stack, the extra roots, and every loop of a collection as an action per
iteration; the process may also end because `mremap` fails (`GrowFails`). The steps are
`MarkRoot`, `MarkStep` (an object leaves the queue and is marked),
`MarkField` (one of its fields is looked at; `field` and `fieldEnd` are the iterator),
`Compute`, `Grow` (with every place the heap may
move to), `UpdateObject`, `UpdateRoots`, `Relocate`. The interpreter's side is
loading, dropping, reading and assigning fields (`Belem`, `Bsta`), allocating
objects of every type (the interpreter's own `myBarray`, `myBsexp`, `myBclosure`
and the runtime's `Bstring`) and copying one (`Lclone`, whose operand is only held
by extra roots).

`ObjectGraph` has no addresses: objects are numbered among the reachable ones.
`graph` in `MarkCompact` holds the graph seen after the last instruction, so that
the abstract state stands still during a collection, and the refinement says that
each instruction changes the graph as it should although a collection came in
between.

### Variables and NamedVariables

`Variables` is one running function: the stack array, and behind it the members of
the same C++ object (`stack_begin`, `base_pointer`, `n_args`), which is where the
numbers of globals lead that have no word of their own. The set `Globals` may hold any
integers: the index is a signed operand, negative ones are rejected by the check of an
unsigned number and lead into the frames when there is no check (`Strays`), and larger
ones behind the members. A `ST` there is done (`StoreAstray`) and the behaviour ends,
for what follows depends on words the model has not got. `create_reference` is
`Reference` with its check `Rejects`; the actions are `LD`, `ST`, `LDA`, `STI`, `STA`
(the branch of `Bsta` that writes through a reference), `CLOSURE`, `DROP`, `SWAP`,
`CONST` and `STRING`. `checked` is the template parameter, chosen in `Init`.
`CLOSURE` and `STRING` allocate, so that a collection may come: every word then
follows its object, but the address of a captured variable is inside of one and is
taken for an object (`MeetsInner`). `risks` remembers the two known ways to harm: a
global whose word is a member of the stack, and an address of a captured variable.

`NamedVariables` has names instead of addresses and a value for each. The refinement
mapping reads a word for each name (`NamedValues`) and a name for each address that
`LDA` left among the operands (`NamedOps`). What makes
a word go by another name, or two names by one word, breaks the refinement.
`MayStore` says what a compiler emits: an address is never stored in a variable.

### ExtraRoots and RuntimeRoots

`ExtraRoots` is the pool: `PushRoot` and `PopRoot` with the three ways they end the
process. `RuntimeRoots` has each allocating function of `runtime.c` as a *script*: the
order in which it enters and leaves the collector's protocol (`PRE_GC`, `POST_GC`),
registers and unregisters variables, calls other functions, allocates, and uses what
its variables point to. The scripts are data (`Bstring`, `ListCons`, `SetArgs`, ...),
the steps are actions (`EnterGC`, `Register`, `NewObject`, `CallFunction`, ...). A
collection gives every variable the collector sees its object's new address, once:
the words of the scanned stack, which in a compiled program end with the arguments
of the first runtime function, and the registered variables that are not there
(`Fixes`). Any other word becomes stale, and using a stale word is `Undefined`.
`Bclosure` registers as many words as it captures values, but not its arguments: `ebp`
is an `int *`, so that `ebp + 12` is 48 bytes up (`runtime.c:793`), where its caller's
frame is (and, from the ninth captured value on, its own arguments). They are
`WordNames`, apart from `ArgNames`. The model takes them for words of the scanned stack,
where a registered root is skipped (`gc.c:339`): that holds when the compiled program's
stack reaches that far. The captured values are arguments of the first runtime
function, on the scanned stack as well, and need no registration.
`set_args` has both orders in which a C compiler may evaluate `p[i] = Bstring(...)`.

### Words, Tags, Values, StringBuf and Library

Definitions of pure functions: `Words` is arithmetic on machine words of any even
number of bits (`HalfWord`), with the operators of the interpreter (`Binop`) and of
the runtime (`Synonym`), and the patched operand of BEGIN; `Tags` is `LtagHash` and
its inverse; `Values` is order, hash and text of trees of objects; `StringBuf` the
buffer's memory. `Library` is a program that makes calls of these: a *session* is a
script of calls with an input. A pure function is one action that answers; printing
is one action per attempt (`PrintText`, `ExtendBuf`), in memory whose new half holds
anything; `ReadLine`, `Read`, `FileExists` and `FileRead` keep `errno`, the open files
and the rest of the input. Characters are numbers or short strings: an end of line,
a digit and a letter are all that these functions tell apart.

### Definitions marked *fault:*

Definitions with a comment that starts with "fault:" are not part of any model.
Each is what a definition next to it would be with a plausible mistake: a guard
dropped, a reset forgotten, an increment in the wrong place. Substituting it for
that definition makes one of the properties fail (`mutants` in `PROJECT.json`),
which shows that the property says something about the code.

## 3. Runs

All properties and bounds are in the `.cfg` files. Deadlock is not checked where
the system may stop: every model ends with a verdict, a finished program or a
bound on allocations.

| Run | Module, config | Instance | What it shows |
|---|---|---|---|
| `verifier` | `MCVerifier`, `MCVerifier.cfg` | all programs of 4 instructions over 17 instructions, one or two public functions; all of 6 from pushes, jumps and ends | types, exactness of the first pass, the inductive invariant (with one depth at joins), closure, one depth per address, recorded maxima, no false rejection, termination |
| `verified_run` | `MCVerifiedRun`, `MCVerifiedRun.cfg` | all bodies of 4 instructions between BEGIN and END, with a second function in five variants, up to 3 frames of 5 operands | what END takes from each caller, where frames are, what they take and push, and how far that depends on calls |
| `stack_frames` | `MCStackVM`, `MCStackVM.cfg` | 3 frames, 2 operands, 2 captures, 18 words; 3 frames with collections, 1 operand, 16 words; 2 frames with 2 locals, collections, captures and reads of unassigned locals, 14 words | types, headers, where the frames lie, the words implement the frames, the one stale root |
| `collector` | `MCMarkCompact`, `MCMarkCompact.cfg` | objects of five shapes, 3 allocations; one-element arrays, 5 allocations | the heap implements the graph, the queue, what is marked, no flag and no dangling reference is left, allocations return |
| `runtime_roots` | `MCRuntimeRoots`, `MCRuntimeRoots.cfg` | 3 calls of 17 functions, 2 words of the program, up to 3 values, a pool of 3 | results, the pool's discipline, where stale variables are used |
| `variables` | `MCVariables`, `MCVariables.cfg` | any 2 of the variables, negative and too large globals among them, 3 operands, `N_GLOBAL` = 2 | words implement named variables; what harms the machine |
| `library` | `MCLibrary`, `MCLibrary.cfg` | words of 6 bits; tags of 2 characters; about 40 values; texts to 9 characters; inputs to 4 | operators, tags, values, buffer, input, files; every call returns |
| `verified_run_local_callee`, `_wide_array`, `_shared_end`, `stack_nested`, `stack_roots` | | | see section 5 |

Why the bounds are enough for what they are meant to show:

* *Verifier.* A join needs a branch, two paths and a meeting point: four
  instructions behind a BEGIN, which programs of 6 instructions (`LongLen`) have
  with the backward jumps and the shared ends that 4 (`ShortLen`) are too few for.
  The short programs have the alphabet instead: pops, calls, a second public
  function reached by falling into it, FAIL, STOP, invalid opcodes.
  `NeverRejectsTyped` searches for a typing and does so for programs of up to
  `TypedLen` instructions, with depths up to their length; `TypingInvariant` is proved for
  programs of every length and typings by any integers.
* *What is proved* (section 6) holds for every value of the constants: the bounds of
  the runs `verifier`, `verified_run`, `stack_frames`, `variables` and `collector` matter
  only to `Termination` and `AllocationReturns`, and to the confidence
  that the hypotheses are met: every case the theorems speak of occurs in these runs.
* *Runs.* Six instructions suffice for a conditional jump with different
  operands on its sides, a backward jump into a loop, and a call, closure call or
  closure in it. The second function takes one argument, while calls count none, one or
  are closure calls; it underflows, overflows, strays, or calls a third one, so that it
  makes a nested call when it is a closure's body, and is public in one variant. Three
  frames are then what it takes for a flag that belongs to neither the running frame
  nor its caller.
* *Stack.* Three frames are the first number with a caller that is neither the
  outermost nor the running one. The arrays are large enough for most
  of the three-frame layouts and small enough for BEGIN, CLOSURE and push to run out of
  them. There are three instances (`MCBounds`) because locals, captures and collections
  together are too many: each pair of them meets in one. `MCView` takes states for one
  that differ only in free words and unassigned locals, unless such a word is a pointer
  that a collection could meet; an instruction can load such a word only as it is, so
  that what it does next does not depend on which number it is.
* *Collector.* The heap starts with 4 words, as `MINIMUM_HEAP_CAPACITY` does, so that
  the second allocation collects. Empty arrays put an object's content at the
  current pointer; strings, tags and closure entries put a word into objects that
  looks like a reference (`MCRawWords`). Two places for the heap are enough to
  leave and to come back. Five allocations give several garbage objects before
  live ones and three collections in a row. With five, the heap
  moves when it first grows and then stays. The two instances are one run: `bound`
  is chosen in `Init` and never changes, in `StackVM` as well.
* *Roots.* The longest chain of calls is two functions below the first, and a
  closure of three values does not fit into a pool of three; with `global_sysargs` in
  the pool one of two does not. Two calls make values of objects made before, the
  third uses them; one object inside another suffices for a field that is stale.
* *Variables.* An assignment and a later load need two variables; three operands are
  what `STA` takes. Two globals give both numbers at the limit: `N_GLOBAL - 1`, already
  outside of the array, and `N_GLOBAL`, let through by the check; the numbers after it and
  the negative ones (to the closure, the header and the local of the frame) are let
  through without checks.
* *Library.* Words of six bits have all boundaries of words of 32: the smallest and
  largest word and integer, products and differences that do not fit, carries between
  the halves. Operands are all words by a dozen around the boundaries. Tags have two
  digits, of which two characters count, names are one character longer. The hash
  looks one level deep (`HashDepth`), values are two levels deep. The buffer starts
  with one character, so that a text of nine has to be tried five times. Two files
  may be open at once; sessions have up to four calls.

Fairness. Verification and a collection are loops of one thread, and nothing else
runs meanwhile: weak fairness of `Next` in `Verifier`, and of the allocation and
the collector in `MarkCompact` (an allocation is one C call, it goes on until it
returns). The interpreter itself may stop at any time, so that nothing is assumed
of `Mutate`, `VerifiedRun`, `StackVM`, `Variables` and `RuntimeRoots`, and only safety is
claimed of them. In `MarkCompact` the fair action leaves the history variable out.
In `Library` a session is given and one thread makes its calls, so that `Next` is
weakly fair: `CallsReturn` then says that the retries of `vprintStringBuf` end.

## 4. What the checks and proofs say

**The verifier does what it is built for.** `WalkClosed`: in an accepted program the
passed pairs contain every public entry at depth 0 and are closed under the
declared control flow. `NeverRejectsTyped`: a program with any consistent
assignment of depths is not rejected for its depths. `JoinDepthUnique` (a conjunct
of `WalkInv`), and in programs without STOP and without falling into a public entry
`DepthUnique`: one depth per address. `IncomingExact`: the first pass finds exactly the targets that
can be reached, whatever the read past the vector gives.

**What it promises of execution has limits,** and the largest is calls. A call is
verified by the count CALL or CALLC carries and executed by the count of the callee's
BEGIN, and nothing compares the two; a call made by the body of a closure makes END
take one word too many, or leave the closure behind. After either, every later
instruction of the caller may underflow, and in a loop the words left behind outgrow
any reserved stack. `CallsMatch` says that these two are all: until one of them happens
(`risks = {}`) END takes from each caller, however deep the calls, what its instruction
declares. `FrameWalked`: a frame of a *public* function is at an address the walk has
passed, whatever calls do, and until then at a depth it was passed at (counts below
128). `VerifiedFrameSafe`: such a frame never leaves the code and until then takes only
operands it has, but for two instructions whose declared need is one less than the
words they use: END without a value to return, and CALLC, which declares its
arguments and not the closure below them (`diagnostic-visitor.h:129`,
`executing-visitor.h:332`). `MaxStackCovers` and `RoomSuffices` need more hypotheses, and the first only says that
some public function's record covers a depth (its own, where there is only one:
`OwnStackCovers`):
a maximum is recorded only at an END, and a tracker that comes to a JMP whose target
was visited is dropped with what it knows (`main.cpp:529`). `KeepsMax` says when
nothing is lost: there is no FAIL, and every JMP goes forward, to a target no other
jump has, from code that control enters in one way only. An END that two branches
share is one way to violate it. Without the last condition the claim is false:
`JoinBefore` in `MCVerifier` is a program of eleven instructions in which two paths
meet before the JMP, the deeper one second.

**The stack layout is right for calls,** for functions of any arguments and locals and
closures of any captures, until an END is off by a word; and as long as no closure's
body makes a call, none is (`FlagOfNewest`; otherwise section 5). `ImplementsFrames`
and `HeadersIntact` say what that means. This holds for stacks, frames and programs of
any size (section 6). The word below a base is the only root that may be stale
(`StaleOnlyBelowBase`) until a local 0 is read before it is assigned: `visit_ld` then
copies it among the operands, from where it can go anywhere.

**The collector is transparent** (`ImplementsGraph`), also where the heap grows and
moves, and this is proved for heaps, stacks, programs and graphs of every size (section 6).
That every allocation returns, or ends the process because `mremap` fails, is checked
on all instances. What
transparency rests on is proved as well: `QueueInvariant` is the invariant the
comment at `gc.c:512` states, with the slot count that makes an in-place queue
possible at all; exactly what can be reached is marked (`MarksReachable`); no reference
is left that leads to where an object was (`NoDangling`); and the second attempt of
`gc_alloc`, whose result nobody looks at, finds room (`RetryFits`; together `HeapIntact`).

**Variables are what their names say,** with and without the checks, until a
program uses a global without a word of its own or takes the address of a captured
variable (`ImplementsVariables`, `UndefinedOnlyAfterRisk`), for any number of variables
and any integers as indices of globals. The array has
`N_GLOBAL` words above `stack_begin` and the first of them, at `stack_begin`, belongs to
the operands: global `N_GLOBAL - 1` is the word behind the array, which holds
`stack_begin` itself, and global `N_GLOBAL`, which passes the check `index > N_GLOBAL`
(`executing-visitor.h:77`), is `base_pointer`. With checks these are all; without, every other index leads somewhere, negative ones
into the header and the closure. `ControlIntact` names exactly the index for each word.

**The allocating functions keep their variables,** all but two: `Ls__Infix_58`
registers its own arguments and gives copies of them to `Bsexp`, and `set_args`
depends on the order in which its assignment is evaluated (`StaleOnlyKnown`). Both are
functions of compiled programs. Everything else returns what it promised
(`ResultsAsPromised`), and the pool runs over only in `Bclosure` (`PoolErrors`), which registers as many words
as it captures values although they are the wrong ones and it needs none.

**Operators, tags and values agree** up to limits that the properties name: BINOP
computes on whatever it is given where the runtime's functions fail
(`OperatorsAgree`); tags that share their first five characters are one tag and one
that starts with an underscore ends the process, and the operand `check_depth` packs into BEGIN
comes out of it while both halves fit (`EncodingsExact`); `Lcompare` is an order only of integers less
than 2^30 apart, and strings that differ behind a NUL only are equal but hash
differently when their lengths differ (`ValuesAgree`). An empty line stops
`LreadLine` for ever (of the C functions only `fopen` sets `errno` in the model), and every `Lfexists` that finds its file leaves it open
(`OutsideAnswers`).

## 5. Disagreements between the code and what it says of itself

Each is a run whose only property states what the code, a comment or a declaration
says; TLC finds a behaviour of the code that violates it.

* `verified_run_local_callee` (`NoUnderflow`): the branch of `check_depth` that walks a
  callee (`main.cpp:516`) is dead, since `visit_call` reports the kind OTHER. Functions
  that are not public are never verified and run unchecked.
* `verified_run_wide_array` (`NoUnderflow`): an array literal of 200 elements has a
  declared need of -56.
* `verified_run_shared_end` (`NoOverflow`): two branches that jump to one end; the
  deeper one arrives second, and its maximum is dropped with its tracker.
* `stack_nested` (`OperandsAsDeclared`): one flag `in_closure` for all frames; any call
  made by a closure's body clears it, or is itself popped one word too far.
* `stack_roots` (`RootsPointToObjects`): BEGIN moves the top by `n_locals + 1` words and
  clears as many starting one word too low; the word below the base (local 0, before
  it is assigned) keeps an old pointer and is a root. `StaleOnlyBelowBase` shows that
  it is the only such word until a local 0 is read unassigned.

## 6. Proofs

A theorem is listed with the property it states and the argument. None bounds the
length of a program, the size of the stack or of the heap, or the number of frames,
operands, globals, arguments, locals, captured values or objects.

**The verifier** (`VerifierProofs`), for every set of programs that
satisfies `ProgramsAssumption` (each is well-formed: the loader's and decoders' part).

1. `TypeCorrect` (`TypeOK`). Not quite immediate: a depth is a natural number only
   because the two depth checks come before anything is pushed, and a target is an
   address only because a successor is decoded before it is used.
2. `WalkInvariant` (`WalkInv`). `WalkClosed` is not inductive: while the walk is going
   on, successors of passed pairs are still on the work stack, or were not pushed
   because the target had been visited. `WalkInv` says where each of them is: passed,
   on the stack, or visited *and registered at the same depth* (`WalkedFollowed`),
   and a visited target is itself passed or on the stack at its registered depth
   (`VisitedScheduled`). Pairs leave the stack only by being passed. With the stack
   empty this is `WalkClosed`: theorem `WalkSound`.
3. `JoinsSound` (`JoinDepthUnique`) from `JoinsRegistered`, one conjunct of `WalkInv`:
   a register once set never changes its value.
4. `WalkComplete` (`NeverRejectsTyped`) from a second invariant, `TypingInv`: if the
   program has a typing, every tracker and every register agrees with it, and each
   check of an iteration succeeds on what agrees with a typing.
5. `GatherExact` (`IncomingExact`). `GatherInv`: what the pass has seen is inside the
   least closed set, and what it has seen and no longer has on its stack it has
   followed. With the stack empty, what it has seen is closed, so that it is the
   least such set. The word past the end of the vector does no harm because the
   pass never goes on from there.
6. `DepthsUnique` (`DepthUnique`) from `OriginInv`: every scheduled pair is an entry
   at depth 0, or at a join, or has the passed pair it comes from right before it.
   The least address with two depths would then be a join, where there is only one
   (3), or have two depths right before it.
7. `MaxStackSound` (`MaxStackCovers`; with one public function `OwnMaxStackSound`) from `MaxInv`: every passed depth is covered by a
   recorded maximum or by a tracker that is still on its way. What must not happen
   is that this tracker is dropped. It can be only at a JMP whose target was visited,
   which takes two trackers at one target; up to the last JMP no address is passed
   twice (`OnceEach`) and whatever is there came the one way in (`CameBy`).

**Verified execution** (`VerifierProofs` too), with `RunAssumption`: public symbols name a
BEGIN, control enters a BEGIN only by a call (`CallsOnly`), and calls and closures name
functions (`NamesFunctions`; the decoder checks the latter where it comes by, and not in
the bodies of closures). That is what the Lama compiler emits. Nothing is assumed of
the counts of calls nor of what closures' bodies do.

8. `RunTypeCorrect` (`RunTypeOK`): the execution adds to `TypeCorrect` that a frame's
   depth is a natural number, because a step that would take operands that are not
   there is an underflow instead (lemma `DepthStaysNat`), in the caller of a return as
   well, and that control is never further out than the end of the code.
9. `CallsAreMatched` (`CallsMatch`): by induction over steps only the newest pair of
   frames changes. What is needed of the older ones is that no frame below the newest
   is a closure's, so that the flag END resets was its own.
10. `FrameIsWalked`, `VerifiedFramesAreSafe`: by `WalkSound`, the executed step from a
    passed pair leads to a passed pair, because executed and declared effects agree
    where counts fit an `int8_t` (`DeclaredIsExecuted`), apart from the two instructions
    above; a call and its return together are such a step by `CallsMatch`. That frames
    stay at passed addresses needs none of this.
11. `ReservedRoomSuffices` (`RoomSuffices`) from 7, 9 and 10: depths are covered by the
    recorded maximum, and an instruction pushes at most two words more than the walk
    knows of (`PeakBound`), or three for CLOSURE, whose result the walk has counted.
    `visit_begin` reserves these two words.

**The interpreter's stack** (`StackVMProofs`), under `StackAssumption`: the
array is larger than the globals, and functions have numbers of arguments and locals.
Closures' bodies may call, in which case the theorems hold up to the END that is off.

12. `LayoutInvariant` (`LayoutInv`) and with it `VMTypeCorrect`, `HeadersStayIntact`,
    `StaleStaysBelowBase`, from `VMInv`, their conjunction. `HeadersIntact` is not
    inductive: that a push or a store misses a header is a matter of distances.
    `LayoutInv` has them: each frame's operands end where its callee's arguments
    begin, its base is as far below them as `BEGIN` computes from the counts, and the
    newest frame's are the registers', and its flag is `in_closure` as long as no
    closure's body has called (`FlagOfNewest`). Each action changes one region, and the
    others are apart from it.
13. `WordsImplementFrames` (`ImplementsFrames`): every step of the words is a step of
    `FrameStack` or leaves the frames as they were, up to the END that is `shifted`. By `VMInv` every frame of the
    abstract state is read from words at places known from `shape` (`Shown`). Between
    CALL and BEGIN the return address and the closure are in words that belong to
    no frame yet (`CallPending`).

**Variables** (`VariablesProofs`), under `VariablesAssumption`.

14. `VarTypeCorrect`, `ControlStaysIntact`, `UndefinedNeedsRisk` from `VarInv`. Its core
    is `AddressesAmongOperands`: an address on the stack is the reference of a variable
    that is used and was accepted, and it is accounted for in `risks` if it can harm;
    variables and members never hold one. `ReferencesDiffer` is the arithmetic:
    the four formulas of `create_reference` never give two variables one word.
15. `WordsImplementVariables` (`ImplementsVariables`): with (14), an assignment to a
    word changes the value of one name, and operands that are addresses are names.

**The root discipline** (`ScriptProofs`, `RuntimeRootsProofs`), for any number of calls, of
the program's words and of values (`RootsAssumption`: `MaxValues` is at least two, and the
names for arguments and for words are different) and for every pool of at least three places. The code
has 32 (`MAX_EXTRA_ROOTS_NUMBER`); three are needed, since two variables are registered
at a time above the place `global_sysargs` has for ever.

16. *Plans* (`ScriptProofs`). A plan says, between two steps of a script, which variables
    are registered and in which order, whether PRE_GC or POST_GC has been passed, which
    variables hold references, and which of them no collection has left behind.
    `MayStep` says what an instruction may do to a plan: pop only the last variable,
    follow only good ones, and have left, after a call or an allocation, only those the
    collector has new addresses for (`Kept`: registered, or in the scanned frame), the
    result and the C text. `Planned` says that the rest of a script can be carried out
    so. Each script has a lemma with its plan, those of a number of values for every
    number (`BclosurePlanned` with the words it registers and the values it keeps
    without); this one and `SetArgsPlanned` find theirs by positions. Two rules
    have the exceptions the code needs (`Excused`).
17. `RootsInvariant` (`RRInv`): every function on the stack has a plan, which the rest of its
    script follows; a waiting one has a plan that goes on with the callee's result
    (`Awaits`); the pool is made of one part for each function, in the order of the
    calls, each the plan's stack (`Parts`); what a plan says of variables is so
    (`Words`, `Keeps`); the scanned stack ends in the frame that set the stack top
    (`TopSet`). One lemma for each action (`NewObjectKeeps` for a collection). What the
    collection rests on is `KeptFixed`: each word that is kept is moved *exactly once*,
    those of the scanned stack there and any other because it is in the pool once
    (`RegisteredOnce`), and `ReachableIsClosed`: what such a word leads to survives.
18. From it `RootsTypeCorrect` (`RootsTypeOK`), `PoolFollows` (`PoolFollowsCalls`),
    `PoolErrorsKnown` (`PoolErrors`) and `StaleOnlyWhereKnown` (`StaleOnlyKnown`): the pool
    properties are about where a plan's stack is in the pool, the last one about the
    exceptions in the rules.

**The heap and its collector** (`CollectorProofs`), under `CollectorAssumption`: raw words
are numbers or look like references, lengths are natural numbers, a closure has its
entry. Objects may have any length, the heap may move to any place, and there is no
bound on the stack, the objects or the allocations but those `bound` and `MaxStack` name.

19. `CollectorInvariant` (`MCInv`): what each pass of a collection leaves to the next.
    The words are never described one by one. *Some* set of offsets `O` is the set of
    objects: they lie side by side from the first word to current (`Tiles`: each has its
    header and forward word, and the next one begins where it ends). Of `O` the invariant
    says, by phase:
    * the interpreter runs, or an allocation is tried (`Quiet`): no flag is set, fields,
      stack and extra roots lead to objects of `O`, and a retried allocation has room;
    * marking (`Marking`): the queue is the objects between head and tail, their forward
      words hold the contents of exactly the enqueued objects, each once, and behind
      the tail there are as many objects as are still unseen (`QueueOf`); the
      fields of marked objects, but for those the iterator is still to come to, and the
      roots that were looked at lead to seen objects; and what is seen is in every set
      that the roots and its own fields do not leave (`Least`);
    * computing (`Computing`): the marked objects before `scan` have places that fill the
      heap from its start without gap or overlap, in their order (`Slides`);
    * updating (`Updating`): the objects before `scan` lead to new places in the new heap,
      the others to old ones in the old heap;
    * sliding (`Relocating`): the objects that have moved fill the heap up to `to`, those
      that have not fill it from `scan` on, and `to` is not behind `scan`: this is why
      no object is overwritten before it has moved, although an object's new place
      may overlap its old one (`MovedEffect`).
    One lemma for each action. Those about single words of `mem` come first
    (`OnlyForwards`, `EnqueueEffect`, `DequeuedEffect`, `FieldWrites`, `NewObject`,
    `MovedEffect`): they say which objects stay as they are (`Alike`, `Kept`) when forward
    words, fields, free words or a whole object are written.
20. From it `TypeIsKept` (`HeapTypeOK`), `HeapIsWalkable` (`HeapWalkable`), `QueueIsSound`
    (`QueueInvariant`) and `HeapStaysIntact` (`HeapIntact`, which is `FlagsClear`,
    `NoDangling` and `RetryFits`). The properties speak of the headers that a walk over
    the heap meets, which is a recursive function of the number of allocations; `HeadersMet` shows
    that it meets exactly `O`, because there are never more objects than allocations.
21. `MarkingIsExact` (`MarksReachable`): at the end of marking the marked objects are closed
    under references and inside every closed set. So is what `Reach` computes in rounds:
    a round that adds nothing comes before there are more rounds than objects
    (`IterationSettles` in `BasicFacts`, which `ReachableIsClosed` in (17) rests on as well).

**The graph of objects** (`GraphProofs`), under the same assumption.

22. `HeapImplementsGraph` (`ImplementsGraph`): every step of heap and collector is a step of
    `ObjectGraph` or leaves the graph as it was. `graph` is what the last instruction has
    left; `GraphInv` says that it still stands for the words, whatever phase an allocation is
    in (`GraphStands`). *Some* rising sequence of offsets `at` tells where object number
    `k` has its header, so that a value of the graph is a word (`Shown`), an object is a
    header with its words (`DrawnObject`), and the operands are those of the stack together
    with the one that only C variables hold during `Lclone` (`OperandWords`).
    * Before and during marking, and while places are computed, `at` stays; every object of
      the graph can be reached, so that it is marked and survives (`Held`).
    * While references are updated, objects before `scan` are drawn with new places `to`
      and the others with old ones (`Renewed`). `Fixed` changes a word from the one
      to the other (`Renews`). New places are in the order of the old ones
      (`Slides`), so that `to` rises where `at` does.
    * While objects slide, all references lead to new places and each object is either there
      already or still where it was (`Sliding`).
    * Back in an instruction, the graph of the model is *numbered anew*: `Trim` takes away what
      the instruction has made unreachable, and `GraphOf` numbers what is left in the
      order of addresses. Both numberings agree because `at` rises
      (`RankFacts`, `RankKept`), and both sets of objects do because reaching in rounds on the
      graph and on the words is closed on each side (`TrimDraws`).
    There is one lemma for each instruction (`ConstGraph`, `LoadGraph`, `DropGraph`, `ElemGraph`,
    `AssignGraph`; `AllocateGraph` for a new object and a copy) and one for each step of a collection.

The library has no induction that can be cited for an operator, but well-founded
induction is usable in the form of a fact about sets: `NatInSet` and `LeastNat` in
`BasicFacts`. Proofs that go along a sequence or a path use one of the two.

Only model-checked, and why:

* `Termination`, `AllocationReturns` and `CallsReturn`: liveness under fairness is
  beyond the prover.
* `ResultsAsPromised`: the plans know which variables hold references, and not what the
  objects are made of.
* `Library` and `Values`: their functions recurse over values, so that what they
  compute for all of them needs induction over data.

## 7. Not modelled, and why

* The loader and the byte layout of instructions: I/O and formats. Only the result
  enters (`WellFormed`).
* Assigning characters to strings, and indices of elements out of bounds, are not in
  `MarkCompact`: the former write no references, the latter are undefined.
* A string with an inner NUL byte in `MarkCompact` (`Lclone` copies up to the first one).
* Values that contain themselves in `Values`: printing and comparing them never returns.
* Indices of locals, arguments and captured variables beyond those of the function: no
  check looks at them, and what they lead to is another frame's.
* The arguments of `main` in `StackVM`, and words of frames above a compiled program's
  scanned stack that `Bclosure` might register in `RuntimeRoots`.
* The static data area (`LAMA_ENV`), debug dumps and the `FULL_INVARIANT_CHECKS` build.
* Regular expressions, the formats of the printf family, substring matching,
  character classes, `fopen`, `fwrite`, `fclose`, `Lrandom`, `Ltime`, `Lsystem`: calls of
  the C library with no state of the runtime around them. Of the formats only the
  resulting text matters, which is a sequence of characters.
* A file that cannot be read although it could be opened.
* The command line, the test harness, the Lama programs.

## 8. Plan

In this order; earlier items are more important.

1. `ResultsAsPromised` for any number of values: plans extended by what the object
   under construction has been filled with.
2. Lemmas about `Words`: boxing and unboxing, the patched word, for words of any size.
3. A composition of `VerifiedRun` with `StackVM`, so that what the verifier allows is
   executed on the words of the stack.
