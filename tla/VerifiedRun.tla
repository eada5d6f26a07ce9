---------------------------- MODULE VerifiedRun ----------------------------
(***************************************************************************)
(* What the interpreter does with a program check_depth has accepted       *)
(* (run_with_verifier_checks): myInterpret<false> executes it with every   *)
(* check of the operand stack compiled out.                                *)
(*                                                                         *)
(* The frames of the run are followed, each with the number of its operand *)
(* words.  A call does what the interpreter does and not what CALL and     *)
(* CALLC declare: END takes the arguments that the callee's own BEGIN      *)
(* counts, and one word more when in_closure is set at that moment.  What  *)
(* the words hold is left out; a CALLC finds some closure of the program.  *)
(* The run is followed up to the first word that is not there.             *)
(***************************************************************************)
EXTENDS Verifier

CONSTANTS MaxFrames, \* bound: so many frames are followed
          MaxDepth   \* bound: so many operands of a frame are followed

(* Control enters a BEGIN only by a call.                                  *)
CallsOnly(p) ==
  \A a \in Address(p) :
    \A s \in Address(p) :
      \/ s = a + 1 /\ DeclaredKind(p.code[a]) \in {"CJMP", "OTHER"}
      \/ s = p.code[a].to /\ DeclaredKind(p.code[a]) \in {"JMP", "CJMP"}
      => p.code[s].op # "BEGIN"

(* Calls and closures lead to functions.  Where the decoder comes by, it   *)
(* checks that (DecodeOk); in the bodies of closures it does not.          *)
NamesFunctions(p) ==
  \A a \in Address(p) :
    p.code[a].op \in {"CALL", "CLOSURE"} =>
      p.code[a].to \in Address(p) /\ p.code[p.code[a].to].op = "BEGIN"

ASSUME RunAssumption ==
  /\ MaxFrames \in Nat /\ MaxDepth \in Nat
  /\ \A p \in Programs :
       /\ CallsOnly(p)
       /\ NamesFunctions(p)
       /\ p.code[0].op = "BEGIN"
       /\ \A k \in DOMAIN p.pub : p.code[p.pub[k]].op = "BEGIN"

VARIABLES
  run,        \* "idle", "running", or how the run ended
  frames,     \* the frames of the run, the running one last
  inClosure,  \* in_closure, one flag for all frames
  risks       \* history: what calls did that check_depth does not know of

runVars == <<run, frames, inClosure, risks>>
allVars == <<vars, runVars>>

Running == run = "running"

Frame(f, byClosure) == [entry |-> f, pc |-> f, depth |-> 0, byClosure |-> byClosure]

Top == frames[Len(frames)]

(* the last frame of s goes on at a with d operands                        *)
Advance(s, a, d) == [s EXCEPT ![Len(s)] = [@ EXCEPT !.pc = a, !.depth = d]]

InCode == Top.pc < CodeEnd(prog)

Current == Code[Top.pc]

Ends(op) == op \in {"END", "FAIL", "STOP"}

Calls(op) == op \in {"CALL", "CALLC"}

(* fault: no instruction looks whether its operands are there              *)
FrameNeedNone(i) == 0

(* END of the outermost frame ends the run and takes no value              *)
FrameNeed(i) == IF i.op = "END" /\ Len(frames) = 1 THEN 0 ELSE ExecutedNeed(i)

(* The words BEGIN has made sure of: it demands n_args + n_locals + 4 +    *)
(* required_stack free words, takes n_locals + 3 of them, and one more     *)
(* word is writable than it counts.                                        *)
Room == maxStack[Top.entry] + Code[Top.entry].n + 2

RunInit ==
  /\ Init
  /\ run = "idle"
  /\ frames = << >>
  /\ inClosure = FALSE
  /\ risks = {}

Verify == Next /\ UNCHANGED runVars

(* myInterpret starts at the beginning of the code                         *)
Start ==
  /\ phase = "accepted"
  /\ run = "idle"
  /\ run' = "running"
  /\ frames' = <<Frame(0, FALSE)>>
  /\ UNCHANGED <<vars, inClosure, risks>>

(* Where the interpreter goes after the instruction at pc.                 *)
ExecutedSuccessors ==
  CASE Current.op = "JMP" -> {Current.to}
    [] Current.op = "CJMP" -> {Current.to, Top.pc + 1}
    [] OTHER -> {Top.pc + 1}

Executes == Running /\ InCode /\ Current.op # "INVALID"

Step ==
  /\ Executes
  /\ ~Ends(Current.op) /\ ~Calls(Current.op)
  /\ FrameNeed(Current) <= Top.depth
  /\ Top.depth + ExecutedChange(Current) <= MaxDepth
  /\ \E a \in ExecutedSuccessors :
       frames' = Advance(frames, a, Top.depth + ExecutedChange(Current))
  /\ UNCHANGED <<vars, run, inClosure, risks>>

(* The functions a call can enter: CALL names one, CALLC finds a closure   *)
(* of any CLOSURE of the program.                                          *)
Callees(i) ==
  IF i.op = "CALL"
    THEN {i.to}
    ELSE {Code[a].to : a \in {b \in Address(prog) : Code[b].op = "CLOSURE"}}

(* The words of the caller a call of f uses: the arguments f counts, and   *)
(* what CALLC reads to find the closure.                                   *)
CallNeed(i, f) == Maximum(FrameNeed(i), Code[f].n)

(* Nothing checks that a call counts the arguments as its callee does, and *)
(* END has one flag to tell by which call the running frame was entered.   *)
CallRisks(i, f) ==
  {r \in {"count", "nested"} :
     (r = "count" /\ Code[f].n # i.n) \/ (r = "nested" /\ Top.byClosure)}

(* visit_call and visit_call_closure                                       *)
Call ==
  /\ Executes
  /\ Calls(Current.op)
  /\ Len(frames) < MaxFrames
  /\ \E f \in Callees(Current) :
       /\ CallNeed(Current, f) <= Top.depth
       /\ frames' = Append(frames, Frame(f, Current.op = "CALLC"))
       /\ risks' = risks \cup CallRisks(Current, f)
  /\ inClosure' = (inClosure \/ Current.op = "CALLC")
  /\ UNCHANGED <<vars, run>>

(* The words END takes from the caller: the arguments its own BEGIN has    *)
(* counted, and the closure below them if the flag says there is one.      *)
Removed == Code[Top.entry].n + (IF inClosure THEN 1 ELSE 0)

Caller == frames[Len(frames) - 1]

(* fault: the flag stays set                                               *)
FlagAfterEndKept == inClosure

FlagAfterEnd == FALSE

Return ==
  /\ Executes
  /\ Current.op = "END"
  /\ Len(frames) > 1
  /\ FrameNeed(Current) <= Top.depth
  /\ Removed <= Caller.depth
  /\ Caller.depth - Removed + 1 <= MaxDepth
  /\ frames' = Advance(Front(frames), Caller.pc + 1, Caller.depth - Removed + 1)
  /\ inClosure' = FlagAfterEnd
  /\ UNCHANGED <<vars, run, risks>>

(* END of the outermost frame, visit_fail, visit_stop, and the error       *)
(* "stack overflow" of BEGIN                                               *)
Leave ==
  /\ Executes
  /\ \/ Current.op = "END" /\ Len(frames) = 1 /\ run' = "returned"
     \/ Current.op \in {"FAIL", "STOP", "BEGIN"} /\ run' = "stopped"
  /\ FrameNeed(Current) <= Top.depth
  /\ UNCHANGED <<vars, frames, inClosure, risks>>

(* The frame takes an operand it does not have: a local or the frame's own *)
(* bookkeeping is read as one.                                             *)
Underflow ==
  /\ Executes
  /\ FrameNeed(Current) > Top.depth
  /\ run' = "underflow"
  /\ UNCHANGED <<vars, frames, inClosure, risks>>

(* The callee takes words for its arguments the caller does not have.      *)
CallUnderflow ==
  /\ Executes
  /\ Calls(Current.op)
  /\ FrameNeed(Current) <= Top.depth
  /\ \E f \in Callees(Current) :
       /\ CallNeed(Current, f) > Top.depth
       /\ risks' = risks \cup CallRisks(Current, f)
  /\ run' = "underflow"
  /\ UNCHANGED <<vars, frames, inClosure>>

(* END takes more words from the caller than it has.                       *)
ReturnUnderflow ==
  /\ Executes
  /\ Current.op = "END"
  /\ Len(frames) > 1
  /\ FrameNeed(Current) <= Top.depth
  /\ Removed > Caller.depth
  /\ run' = "underflow"
  /\ UNCHANGED <<vars, frames, inClosure, risks>>

(* The frame pushes beyond the words BEGIN made sure of, when these are    *)
(* the last of the stack.                                                  *)
Overflow ==
  /\ Executes
  /\ FrameNeed(Current) <= Top.depth
  /\ Top.depth + ExecutedPeak(Current) > Room
  /\ run' = "overflow"
  /\ UNCHANGED <<vars, frames, inClosure, risks>>

(* Execution runs out of the code, or into an opcode that does not exist.  *)
Stray ==
  /\ Running
  /\ InCode => Current.op = "INVALID"
  /\ run' = "stray"
  /\ UNCHANGED <<vars, frames, inClosure, risks>>

RunNext ==
  \/ Verify \/ Start \/ Step \/ Call \/ Return \/ Leave
  \/ Underflow \/ CallUnderflow \/ ReturnUnderflow \/ Overflow \/ Stray

RunSpec == RunInit /\ [][RunNext]_allVars

-----------------------------------------------------------------------------
(***************************************************************************)
(* Correctness                                                             *)
(***************************************************************************)

RunTypeOK ==
  /\ TypeOK
  /\ run \in {"idle", "running", "returned", "stopped", "underflow", "overflow", "stray"}
  /\ frames \in Seq([entry : Address(prog), pc : 0 .. CodeEnd(prog), depth : Nat,
                     byClosure : BOOLEAN])
  /\ run # "idle" => frames # << >>
  /\ inClosure \in BOOLEAN
  /\ risks \subseteq {"count", "nested"}

(* No count of the program wraps around in an int8_t.                      *)
CountsFit(p) == \A a \in Address(p) : p.code[a].n <= 127

CallUnderWay(k) == frames[k].pc < CodeEnd(prog) /\ Calls(Code[frames[k].pc].op)

CallMatches(k) ==
  LET i == Code[frames[k].pc]
      called == frames[k + 1]
  IN  /\ Code[called.entry].n = i.n
      /\ called.byClosure <=> i.op = "CALLC"
      /\ i.n + (IF i.op = "CALLC" THEN 1 ELSE 0) <= frames[k].depth
      /\ ~frames[k].byClosure

(* While no call has miscounted and no closure's body has made a call, END *)
(* takes from every caller what its CALL or CALLC declares: the arguments  *)
(* are counted alike, the words are there, and the flag is set exactly     *)
(* while a frame runs that CALLC has entered.                              *)
CallsMatch ==
  /\ IF run = "idle" THEN frames = << >> /\ ~inClosure ELSE phase = "accepted"
  /\ \A k \in 1 .. Len(frames) - 1 : CallUnderWay(k)
  /\ risks = {} =>
       /\ \A k \in 1 .. Len(frames) - 1 : CallMatches(k)
       /\ frames # << >> => (inClosure <=> Top.byClosure)

(* A frame of a public function is where check_depth has been: whatever    *)
(* branch is taken and whoever has called it, it stands at a walked        *)
(* address, and while calls match at the walked depth.                     *)
FrameWalked ==
  \A k \in DOMAIN frames :
    LET f == frames[k] IN
    f.entry \in Entries =>
      /\ \E w \in walked : w[1] = f.pc
      /\ CountsFit(prog) /\ risks = {} => <<f.pc, f.depth>> \in walked

(* The promise of verification, as far as it goes: a frame of a public     *)
(* function stays inside the code.  It takes only operands it has, unless  *)
(* a call has miscounted or a closure's body has made one, with two more   *)
(* exceptions: an END that finds no value to return, and a CALLC that finds*)
(* its arguments but no closure below them.                                *)
VerifiedFrameSafe ==
  run # "idle" /\ Top.entry \in Entries =>
    /\ run # "stray"
    /\ run = "underflow" /\ CountsFit(prog) /\ risks = {} =>
         \/ Current.op = "END" /\ Top.depth = 0
         \/ Current.op = "CALLC" /\ Top.depth = Current.n

(* No closure captures so many values that pushing them first needs more   *)
(* than the two words BEGIN has to spare.                                  *)
SmallClosures(p) ==
  \A a \in Address(p) : p.code[a].op = "CLOSURE" => p.code[a].n <= 3

(* The stack check_depth has written into the only public BEGIN is enough  *)
(* for its frames, in a program whose walk loses no maximum, while calls   *)
(* match.                                                                  *)
RoomSuffices ==
  run = "overflow" =>
    ~ /\ Top.entry \in Entries
      /\ Cardinality(Entries) = 1
      /\ CountsFit(prog) /\ KeepsMax(prog) /\ SmallClosures(prog)
      /\ risks = {}

(* What check_depth says of a program by not reporting "stack underflow"   *)
(* (main.cpp:505): no instruction takes more operands than there are.      *)
NoUnderflow == run # "underflow"

(* What the "stack overflow" check of BEGIN (executing-visitor.h:260) is   *)
(* for: once it passes, the frame has the words it pushes.                 *)
NoOverflow == run # "overflow"
=============================================================================
