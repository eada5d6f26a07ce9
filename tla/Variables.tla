----------------------------- MODULE Variables -----------------------------
(***************************************************************************)
(* The variables of a running function (create_reference in                *)
(* executing-visitor.h) and the instructions that reach them: LD, ST, LDA  *)
(* with STI or STA, and CLOSURE.                                           *)
(*                                                                         *)
(* A variable is a word at an address: a global above stack_begin, a local *)
(* or an argument next to the base of the frame, a captured variable in    *)
(* the closure, which is in the heap and moves.  LDA pushes the address.   *)
(*                                                                         *)
(* The stack array has Size words.  What is in memory after it are the     *)
(* members of the same object: stack_begin, base_pointer and n_args.  Only *)
(* the index of a global is ever compared with anything, and only when the *)
(* interpreter checks.                                                     *)
(***************************************************************************)
EXTENDS Integers, Sequences, SequencesExt, FiniteSets

CONSTANTS NGlobal,    \* N_GLOBAL
          NLocals, NArgs, NCaptured,   \* of the function that runs
          Globals,    \* the indices of globals that the program uses
          MaxVars,    \* bound: variables of all these that a program uses
          MaxOps      \* bound: operands

ASSUME VariablesAssumption ==
  /\ NGlobal \in Nat \ {0} /\ Globals \subseteq Int
  /\ NLocals \in Nat /\ NArgs \in Nat /\ NCaptured \in Nat
  /\ MaxVars \in Nat /\ MaxOps \in Nat

VARIABLES
  uses,      \* the variables the program uses
  checked,   \* whether the interpreter checks (BytecodeChecks)
  mem,       \* the words of the array and of the members after it
  top,       \* __gc_stack_top
  captured,  \* the captured variables, in the closure
  status,    \* "running", "error", or "corrupt": undefined from here on
  risks,     \* history: the captured variables and the globals without a word
             \* of their own whose address the program has taken or assigned
             \* to, and those with other indices that it has used at all
  ins        \* history: the last instruction

varVars == <<uses, checked, mem, top, captured, status, risks, ins>>

(* A word: a number, a string, a closure (of its captured values), the     *)
(* address of a word of the array, that of a captured variable, or what a  *)
(* member is at first.                                                     *)
Word(kind, v) == [kind |-> kind, v |-> v]
Number == Word("int", 0)
Text == Word("string", 0)
Code == Word("code", 0)
AddressWord(a) == Word("addr", a)
InClosure(i) == Word("inner", i)

IsAddress(w) == w.kind \in {"addr", "inner"}

Size == MaxOps + NLocals + NArgs + NGlobal + 7

StackBegin == Size - NGlobal

(* visit_begin has left the frame of a function that was called through a  *)
(* closure.                                                                *)
Base == StackBegin - NArgs - 3

BeginMember == Size
BaseMember == Size + 1
ArgsMember == Size + 2

Members == {BeginMember, BaseMember, ArgsMember}

(* stack_begin, base_pointer and n_args of this frame                      *)
MemberAtStart(a) == Word("member", a)

ClosureAtStart == Word("closure", << >>)

Variable(kind, index) == [kind |-> kind, index |-> index]

(* The variables with a word that nothing else is, unless a member of the  *)
(* array's object is in its place.                                         *)
Vars ==
  {Variable("global", i) : i \in Globals \cap (0 .. NGlobal + 1)}
    \cup {Variable("local", i) : i \in 0 .. NLocals - 1}
    \cup {Variable("arg", i) : i \in 0 .. NArgs - 1}
    \cup {Variable("captured", i) : i \in 0 .. NCaptured - 1}

(* Globals with any other index: words of the stack, when it is negative,  *)
(* or what comes after the members.                                        *)
Strays == {Variable("global", i) : i \in Globals \ (0 .. NGlobal + 1)}

(* fault: no place for the locals                                          *)
TopAtStartOverLocals == Base - 2

TopAtStart == Base - 2 - NLocals

Instr(op, vs) == [op |-> op, vars |-> vs]

VarInit ==
  /\ uses \in {S \in SUBSET (Vars \cup Strays) : Cardinality(S) = MaxVars}
  /\ checked \in BOOLEAN
  /\ mem = [a \in 0 .. Size + 2 |->
              CASE a \in Members -> MemberAtStart(a)
                [] a = StackBegin -> ClosureAtStart
                [] a \in Base .. Base + 2 -> Code
                [] OTHER -> Number]
  /\ top = TopAtStart
  /\ captured = [i \in 0 .. NCaptured - 1 |-> Number]
  /\ status = "running"
  /\ risks = {}
  /\ ins = Instr("BEGIN", << >>)

-----------------------------------------------------------------------------
(***************************************************************************)
(* References                                                              *)
(***************************************************************************)
(* fault: all indices are taken                                            *)
RejectsNone(v) == FALSE

(* the check of create_reference; the index is unsigned                    *)
Rejects(v) == checked /\ v.kind = "global" /\ (v.index > NGlobal \/ v.index < 0)

(* the members create_reference reads                                      *)
ReadFor(v) ==
  CASE v.kind = "global" -> {BeginMember}
    [] v.kind = "local" -> {BaseMember}
    [] OTHER -> {BaseMember, ArgsMember}

(* v is a variable, and its reference is what it should be                 *)
Resolves(v) == v \in Vars /\ ~Rejects(v) /\ \A a \in ReadFor(v) : mem[a] = MemberAtStart(a)

(* fault: the case of an argument goes on into that of a captured variable *)
ReferenceFallsThrough(v) ==
  CASE v.kind = "global" -> AddressWord(StackBegin + 1 + v.index)
    [] v.kind = "local" -> AddressWord(Base - 1 - v.index)
    [] OTHER -> InClosure(v.index)

(* create_reference                                                        *)
Reference(v) ==
  CASE v.kind = "global" -> AddressWord(StackBegin + 1 + v.index)
    [] v.kind = "local" -> AddressWord(Base - 1 - v.index)
    [] v.kind = "arg" -> AddressWord(Base + 2 + NArgs - v.index)
    [] v.kind = "captured" -> InClosure(v.index)

At(reference) ==
  IF reference.kind = "addr" THEN mem[reference.v] ELSE captured[reference.v]

(* write_reference, in memory m                                            *)
Write(m, reference, w) ==
  IF reference.kind = "addr"
    THEN mem' = [m EXCEPT ![reference.v] = w] /\ UNCHANGED captured
    ELSE mem' = m /\ captured' = [captured EXCEPT ![reference.v] = w]

OutsideArray(v) == v.kind = "global" /\ v.index >= NGlobal - 1

Goes(v) == v \in Strays /\ ~Rejects(v)

-----------------------------------------------------------------------------
(***************************************************************************)
(* Instructions                                                            *)
(***************************************************************************)
Running == status = "running"

Ops == Base - 2 - NLocals - top

TopWord(k) == mem[top + 1 + k]

(* memory with ws pushed, the first one first                              *)
Pushed(ws) ==
  [a \in DOMAIN mem |-> IF a \in top - Len(ws) + 1 .. top THEN ws[top + 1 - a] ELSE mem[a]]

(* Bound: nothing is pushed while a closure is among the operands.         *)
PushWords(ws) ==
  /\ \A k \in 1 .. Ops : TopWord(k - 1).kind # "closure"
  /\ Ops + Len(ws) <= MaxOps
  /\ mem' = Pushed(ws)
  /\ top' = top - Len(ws)
  /\ UNCHANGED captured

Unhurt == UNCHANGED <<uses, checked, status, risks>>

Const ==
  /\ Running
  /\ PushWords(<<Number>>)
  /\ ins' = Instr("CONST", << >>)
  /\ Unhurt

LoadVar ==
  /\ Running
  /\ \E v \in uses :
       /\ Resolves(v)
       /\ PushWords(<<At(Reference(v))>>)
       /\ ins' = Instr("LD", <<v>>)
  /\ Unhurt

LoadAddress ==
  /\ Running
  /\ \E v \in uses :
       /\ Resolves(v)
       /\ PushWords(<<Reference(v), Reference(v)>>)
       /\ ins' = Instr("LDA", <<v>>)
       /\ risks' = risks \cup (IF OutsideArray(v) \/ v.kind = "captured" THEN {v} ELSE {})
  /\ UNCHANGED <<uses, checked, status>>

DropWord ==
  /\ Running /\ Ops > 0
  /\ top' = top + 1
  /\ ins' = Instr("DROP", << >>)
  /\ UNCHANGED <<mem, captured>> /\ Unhurt

SwapWords ==
  /\ Running /\ Ops > 1
  /\ mem' = [mem EXCEPT ![top + 1] = TopWord(1), ![top + 2] = TopWord(0)]
  /\ ins' = Instr("SWAP", << >>)
  /\ UNCHANGED <<top, captured>> /\ Unhurt

(* A compiler never stores an address in a variable.  Bound: nor a closure.*)
MayStore == ~IsAddress(TopWord(0)) /\ TopWord(0).kind # "closure"

StoreVar ==
  /\ Running /\ Ops > 0 /\ MayStore
  /\ \E v \in uses :
       /\ Resolves(v)
       /\ Write(mem, Reference(v), TopWord(0))
       /\ ins' = Instr("ST", <<v>>)
       /\ risks' = risks \cup (IF OutsideArray(v) THEN {v} ELSE {})
  /\ UNCHANGED <<uses, checked, top, status>>

(* STI: the value goes where the reference was, the other word LDA pushed  *)
(* stays under it                                                          *)
StoreIndirect ==
  /\ Running /\ Ops > 1 /\ MayStore /\ IsAddress(TopWord(1))
  /\ Write([mem EXCEPT ![top + 2] = TopWord(0)], TopWord(1), TopWord(0))
  /\ top' = top + 1
  /\ ins' = Instr("STI", << >>)
  /\ Unhurt

(* fault: STA pops two words of three                                      *)
ResultPlaceOfTwo == top + 2

(* STA, in Bsta with an i that is not boxed: x is a reference              *)
ResultPlace == top + 3

StoreAny ==
  /\ Running /\ Ops > 2
  /\ MayStore /\ TopWord(1).kind # "int" /\ IsAddress(TopWord(2))
  /\ Write([mem EXCEPT ![ResultPlace] = TopWord(0)], TopWord(2), TopWord(0))
  /\ top' = ResultPlace - 1
  /\ ins' = Instr("STA", << >>)
  /\ Unhurt

(* what the collector takes as roots                                       *)
Scanned == top + 1 .. Size - 1

MeetsInner == \E a \in Scanned : mem[a].kind = "inner"

(* An instruction that pushes w allocates: the heap has room or is        *)
(* collected.  All that is on the stack follows its object; the address of *)
(* a captured variable is taken for that of an object.                     *)
Allocates(op, vs, w) ==
  \/ /\ PushWords(<<w>>)
     /\ ins' = Instr(op, vs)
     /\ UNCHANGED status
  \/ /\ MeetsInner
     /\ status' = "corrupt"
     /\ UNCHANGED <<mem, top, captured, ins>>

String ==
  /\ Running
  /\ Allocates("CONST", << >>, Text)
  /\ UNCHANGED <<uses, checked, risks>>

(* fault: the values are popped into the first place first                 *)
PoppedFirst(ws) == Reverse(ws)

(* myBclosure: what is popped goes to the last place first                 *)
Popped(ws) == [i \in DOMAIN ws |-> Reverse(ws)[Len(ws) + 1 - i]]

(* CLOSURE: loads its variables, allocates, and pops them                  *)
MakeClosure ==
  /\ Running
  /\ \E vs \in UNION {[1 .. n -> uses] : n \in 0 .. 2} :
       /\ \A i \in DOMAIN vs : Resolves(vs[i])
       /\ Ops + Len(vs) <= MaxOps
       /\ Allocates("CLOSURE", vs, Word("closure", Popped([i \in DOMAIN vs |-> At(Reference(vs[i]))])))
  /\ UNCHANGED <<uses, checked, risks>>

(* create_reference exits                                                  *)
RejectVar ==
  /\ Running
  /\ \E v \in uses : Rejects(v)
  /\ status' = "error"
  /\ UNCHANGED <<uses, checked, mem, top, captured, risks, ins>>

(* An instruction goes by a member that holds something else, or reads what*)
(* is no variable.                                                         *)
Undefined ==
  /\ Running
  /\ \E v \in uses : ~Rejects(v) /\ ~Resolves(v) /\ risks' = risks \cup ({v} \cap Strays)
  /\ status' = "corrupt"
  /\ UNCHANGED <<uses, checked, mem, top, captured, ins>>

(* ST goes where there is no variable.                                     *)
StoreAstray ==
  /\ Running /\ Ops > 0
  /\ \E v \in uses :
       /\ Goes(v) /\ mem[BeginMember] = MemberAtStart(BeginMember)
       /\ mem' = [a \in DOMAIN mem |-> IF a = Reference(v).v THEN TopWord(0) ELSE mem[a]]
       /\ risks' = risks \cup {v}
  /\ status' = "corrupt"
  /\ UNCHANGED <<uses, checked, top, captured, ins>>

VarNext ==
  \/ Const \/ LoadVar \/ LoadAddress \/ DropWord \/ SwapWords
  \/ StoreVar \/ StoreIndirect \/ StoreAny
  \/ String \/ MakeClosure \/ RejectVar \/ Undefined \/ StoreAstray

VarSpec == VarInit /\ [][VarNext]_varVars

-----------------------------------------------------------------------------
(***************************************************************************)
(* Correctness                                                             *)
(***************************************************************************)

(* The words are of known kinds, the top stays in the frame.               *)
VarTypeOK ==
  /\ uses \subseteq Vars \cup Strays /\ risks \subseteq uses /\ checked \in BOOLEAN
  /\ DOMAIN mem = 0 .. Size + 2
  /\ \A a \in DOMAIN mem :
       mem[a].kind \in {"int", "string", "closure", "code", "addr", "inner", "member"}
  /\ DOMAIN captured = 0 .. NCaptured - 1
  /\ Ops \in 0 .. MaxOps
  /\ status \in {"running", "error", "corrupt"}

(* the words the machine goes by, and what they are                        *)
Control == {StackBegin} \cup Base .. Base + 2 \cup Members

AtStart(a) ==
  IF a \in Members THEN MemberAtStart(a)
  ELSE IF a = StackBegin THEN ClosureAtStart ELSE Code

(* Assignments stay away from the words the machine goes by: the header of *)
(* the frame, the closure and the members of the stack.  A program reaches *)
(* them with the index of a global that leads there, and no other way.  The*)
(* check leaves two of them: N_GLOBAL - 1, the last there should be, is the*)
(* word stack_begin, and N_GLOBAL, which it lets through, is the word      *)
(* base_pointer.                                                           *)
ControlIntact ==
  \A a \in Control : mem[a] # AtStart(a) =>
    /\ Variable("global", a - StackBegin - 1) \in risks
    /\ checked => a \in {BeginMember, BaseMember}

(* Nothing undefined happens to a program that only uses globals with words*)
(* of their own and takes no address of a captured variable.               *)
UndefinedOnlyAfterRisk == status = "corrupt" => risks # {}

(***************************************************************************)
(* The names and values the words stand for.                               *)
(***************************************************************************)
Operand(w) ==
  IF IsAddress(w)
    THEN [kind |-> "name", v |-> CHOOSE v \in Vars : Reference(v) = w]
    ELSE [kind |-> "value", v |-> w]

NamedValues == [v \in Vars |-> At(Reference(v))]

NamedOps == [j \in 1 .. Ops |-> Operand(mem[top + 1 + Ops - j])]

Named ==
  INSTANCE NamedVariables WITH
    Literals <- {Number, Text},
    Initial <- {Number} \cup {MemberAtStart(a) : a \in Members},
    vals <- NamedValues, ops <- NamedOps

(* The words implement named variables: until the machine stops, or until  *)
(* what it does is undefined, every instruction does to them what it should*)
(* do to variables with values and names of their own.                     *)
ImplementsVariables ==
  Named!NVInit /\ [][status' = "corrupt" \/ Named!NVNext]_(Named!nvVars)
=============================================================================
