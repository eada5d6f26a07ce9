--------------------------- MODULE VariablesProofs ---------------------------
(***************************************************************************)
(* The words a function reaches its variables through implement variables  *)
(* with names and values of their own, for every number of globals, locals,*)
(* arguments, captured variables and operands.                             *)
(***************************************************************************)
EXTENDS Variables, BasicFacts

-----------------------------------------------------------------------------
(***************************************************************************)
(* The memory and the references into it                                   *)
(***************************************************************************)

(* The first operand is here.                                              *)
OpsBase == Base - 2 - NLocals

LEMMA Layout ==
  /\ MaxOps \in Nat /\ NLocals \in Nat /\ NArgs \in Nat /\ NGlobal \in Nat \ {0}
  /\ NCaptured \in Nat
  /\ Base \in Nat /\ StackBegin \in Nat /\ Size \in Nat /\ OpsBase \in Nat
  /\ OpsBase = MaxOps + 2 /\ Base = OpsBase + NLocals + 2
  /\ StackBegin = Base + NArgs + 3 /\ Size = StackBegin + NGlobal
  /\ Members = {Size, Size + 1, Size + 2}
  BY VariablesAssumption
  DEF OpsBase, Base, StackBegin, Size, Members, BeginMember, BaseMember, ArgsMember

(* A variable is in memory, or in the closure.                             *)
InMemory(v) == v.kind \in {"global", "local", "arg"}

Place(v) ==
  CASE v.kind = "global" -> StackBegin + 1 + v.index
    [] v.kind = "local" -> Base - 1 - v.index
    [] v.kind = "arg" -> Base + 2 + NArgs - v.index
    [] OTHER -> v.index

LEMMA VarForms ==
  ASSUME NEW v \in Vars
  PROVE  /\ v = Variable(v.kind, v.index)
         /\ \/ v.kind = "global" /\ v.index \in 0 .. NGlobal + 1
            \/ v.kind = "local" /\ v.index \in 0 .. NLocals - 1
            \/ v.kind = "arg" /\ v.index \in 0 .. NArgs - 1
            \/ v.kind = "captured" /\ v.index \in 0 .. NCaptured - 1
  BY VariablesAssumption DEF Vars, Variable

LEMMA ReferenceForms ==
  ASSUME NEW v \in Vars
  PROVE  /\ InMemory(v) => Reference(v) = AddressWord(Place(v))
         /\ ~InMemory(v) => v.kind = "captured" /\ Reference(v) = InClosure(Place(v))
<1>1. /\ v.kind = "global" \/ v.kind = "local" \/ v.kind = "arg" \/ v.kind = "captured"
  BY VarForms
<1> QED
  BY <1>1 DEF InMemory, Reference, Place

(* Variables are away from the operands, the header of the frame and the   *)
(* closure, and only globals with indices from N_GLOBAL - 1 on are members.*)
LEMMA Places ==
  ASSUME NEW v \in Vars
  PROVE  /\ InMemory(v) =>
              /\ Place(v) \in OpsBase + 1 .. Size + 2
              /\ Place(v) \notin Base .. Base + 2 /\ Place(v) # StackBegin
         /\ ~InMemory(v) => Place(v) \in 0 .. NCaptured - 1
         /\ InMemory(v) /\ Place(v) \in Members =>
              v = Variable("global", Place(v) - StackBegin - 1) /\ OutsideArray(v)
<1>1. PICK i : i = v.index
  OBVIOUS
<1>2. CASE v.kind = "global"
  <2>1. i \in 0 .. NGlobal + 1 /\ Place(v) = StackBegin + 1 + i /\ v = Variable("global", i)
    BY <1>1, <1>2, VarForms DEF Place
  <2>2. Place(v) \in Members => OutsideArray(v) /\ i = Place(v) - StackBegin - 1
    BY <1>1, <1>2, <2>1, Layout DEF OutsideArray
  <2> QED
    BY <1>2, <2>1, <2>2, Layout DEF InMemory
<1>3. CASE v.kind = "local"
  <2>1. i \in 0 .. NLocals - 1 /\ Place(v) = Base - 1 - i
    BY <1>1, <1>3, VarForms DEF Place
  <2> QED
    BY <1>3, <2>1, Layout DEF InMemory
<1>4. CASE v.kind = "arg"
  <2>1. i \in 0 .. NArgs - 1 /\ Place(v) = Base + 2 + NArgs - i
    BY <1>1, <1>4, VarForms DEF Place
  <2> QED
    BY <1>4, <2>1, Layout DEF InMemory
<1>5. CASE v.kind = "captured"
  <2>1. i \in 0 .. NCaptured - 1 /\ Place(v) = i
    BY <1>1, <1>5, VarForms DEF Place
  <2> QED
    BY <1>5, <2>1 DEF InMemory
<1> QED
  BY <1>2, <1>3, <1>4, <1>5, VarForms

(* What is at a place tells which variable it is.                          *)
LEMMA Regions ==
  ASSUME NEW v \in Vars
  PROVE  /\ v.kind = "global" =>
              Place(v) \in Nat /\ StackBegin < Place(v) /\ v.index = Place(v) - StackBegin - 1
         /\ v.kind = "local" =>
              Place(v) \in Nat /\ Place(v) < Base /\ v.index = Base - 1 - Place(v)
         /\ v.kind = "arg" =>
              /\ Place(v) \in Nat /\ Base + 2 < Place(v) /\ Place(v) < StackBegin
              /\ v.index = Base + 2 + NArgs - Place(v)
         /\ v.kind = "captured" => v.index = Place(v)
<1>1. PICK i : i = v.index
  OBVIOUS
<1>2. v.kind = "global" => i \in 0 .. NGlobal + 1 /\ Place(v) = StackBegin + 1 + i
  BY <1>1, VarForms DEF Place
<1>3. v.kind = "local" => i \in 0 .. NLocals - 1 /\ Place(v) = Base - 1 - i
  BY <1>1, VarForms DEF Place
<1>4. v.kind = "arg" => i \in 0 .. NArgs - 1 /\ Place(v) = Base + 2 + NArgs - i
  BY <1>1, VarForms DEF Place
<1>5. v.kind = "captured" => i = Place(v)
  BY <1>1 DEF Place
<1> QED
  BY <1>1, <1>2, <1>3, <1>4, <1>5, Layout

(* No two variables share a reference.                                     *)
LEMMA ReferencesDiffer ==
  ASSUME NEW v \in Vars, NEW u \in Vars, Reference(v) = Reference(u)
  PROVE  v = u
<1>1. Place(v) = Place(u) /\ (InMemory(v) <=> InMemory(u))
  BY ReferenceForms DEF AddressWord, InClosure, Word
<1>2. PICK p : p = Place(v)
  OBVIOUS
<1>3. Place(u) = p
  BY <1>1, <1>2
<1>4. v.kind = u.kind
  <2>1. v.kind = "captured" <=> u.kind = "captured"
    BY <1>1, VarForms DEF InMemory
  <2>2. /\ v.kind = "global" => p \in Nat /\ StackBegin < p
        /\ v.kind = "local" => p \in Nat /\ p < Base
        /\ v.kind = "arg" => p \in Nat /\ Base + 2 < p /\ p < StackBegin
    BY <1>2, Regions
  <2>3. /\ u.kind = "global" => p \in Nat /\ StackBegin < p
        /\ u.kind = "local" => p \in Nat /\ p < Base
        /\ u.kind = "arg" => p \in Nat /\ Base + 2 < p /\ p < StackBegin
    BY <1>3, Regions
  <2>4. Base \in Nat /\ StackBegin \in Nat /\ Base < StackBegin
    BY Layout
  <2> QED
    BY <2>1, <2>2, <2>3, <2>4, VarForms
<1>5. v.index = u.index
  <2>1. CASE v.kind = "global"
    BY <1>2, <1>3, <1>4, <2>1, Regions
  <2>2. CASE v.kind = "local"
    BY <1>2, <1>3, <1>4, <2>2, Regions
  <2>3. CASE v.kind = "arg"
    BY <1>2, <1>3, <1>4, <2>3, Regions
  <2>4. CASE v.kind = "captured"
    BY <1>2, <1>3, <1>4, <2>4, Regions
  <2> QED
    BY <2>1, <2>2, <2>3, <2>4, VarForms
<1> QED
  BY <1>4, <1>5, VarForms, Zenon

(* So an address that is an operand is the name of one variable.           *)
LEMMA OperandForms ==
  /\ \A v \in Vars : IsAddress(Reference(v)) /\ Operand(Reference(v)) = [kind |-> "name", v |-> v]
  /\ \A w : ~IsAddress(w) => Operand(w) = [kind |-> "value", v |-> w]
<1>1. ASSUME NEW v \in Vars
      PROVE  IsAddress(Reference(v)) /\ Operand(Reference(v)) = [kind |-> "name", v |-> v]
  <2>1. IsAddress(Reference(v))
    BY ReferenceForms DEF IsAddress, AddressWord, InClosure, Word
  <2> DEFINE n == CHOOSE u \in Vars : Reference(u) = Reference(v)
  <2>2. n \in Vars /\ Reference(n) = Reference(v)
    OBVIOUS
  <2> HIDE DEF n
  <2>3. n = v
    BY <2>2, ReferencesDiffer
  <2> QED
    BY <2>1, <2>3 DEF Operand, n
<1> QED
  BY <1>1 DEF Operand

-----------------------------------------------------------------------------
(***************************************************************************)
(* The invariant                                                           *)
(***************************************************************************)

Kinds == {"int", "string", "closure", "code", "addr", "inner", "member"}

IsOver(f, D) == f = [x \in D |-> f[x]]

(* w is the address of a variable the program uses; when undefined things  *)
(* can come of that, it is one of R.                                       *)
Accounted(w, R) ==
  \E v \in uses \cap Vars :
    w = Reference(v) /\ ~Rejects(v) /\ (OutsideArray(v) \/ v.kind = "captured" => v \in R)

(* An address is only ever an operand, never in a variable, the header or a*)
(* member.                                                                 *)
AddressesAmongOperands ==
  /\ \A i \in 0 .. NCaptured - 1 : ~IsAddress(captured[i])
  /\ \A a \in 0 .. Size + 2 : OpsBase < a => ~IsAddress(mem[a])
  /\ \A a \in 0 .. Size + 2 : top < a /\ a <= OpsBase /\ IsAddress(mem[a]) => Accounted(mem[a], risks)

VarInv ==
  /\ VarTypeOK
  /\ ControlIntact
  /\ UndefinedOnlyAfterRisk
  /\ IsOver(mem, 0 .. Size + 2) /\ IsOver(captured, 0 .. NCaptured - 1) /\ top \in Nat
  /\ \A i \in 0 .. NCaptured - 1 : captured[i].kind \in Kinds
  /\ AddressesAmongOperands

LEMMA InitialWords ==
  ASSUME VarInit
  PROVE  /\ IsOver(mem, 0 .. Size + 2) /\ DOMAIN mem = 0 .. Size + 2
         /\ \A a \in 0 .. Size + 2 :
              /\ a \in Members => mem[a] = MemberAtStart(a)
              /\ a = StackBegin => mem[a] = ClosureAtStart
              /\ a \in Base .. Base + 2 => mem[a] = Code
              /\ a \notin Members /\ a # StackBegin /\ a \notin Base .. Base + 2 => mem[a] = Number
<1>1. mem = [a \in 0 .. Size + 2 |->
               CASE a \in Members -> MemberAtStart(a)
                 [] a = StackBegin -> ClosureAtStart
                 [] a \in Base .. Base + 2 -> Code
                 [] OTHER -> Number]
  BY DEF VarInit
<1>2. IsOver(mem, 0 .. Size + 2) /\ DOMAIN mem = 0 .. Size + 2
  BY ONLY <1>1 DEF IsOver
<1>3. ASSUME NEW a \in 0 .. Size + 2
      PROVE  /\ a \in Members => mem[a] = MemberAtStart(a)
             /\ a = StackBegin => mem[a] = ClosureAtStart
             /\ a \in Base .. Base + 2 => mem[a] = Code
             /\ a \notin Members /\ a # StackBegin /\ a \notin Base .. Base + 2 => mem[a] = Number
  <2>1. /\ a \in Members => a # StackBegin /\ a \notin Base .. Base + 2
        /\ a = StackBegin => a \notin Base .. Base + 2
    BY Layout
  <2>2. mem[a] = CASE a \in Members -> MemberAtStart(a)
                   [] a = StackBegin -> ClosureAtStart
                   [] a \in Base .. Base + 2 -> Code
                   [] OTHER -> Number
    BY ONLY <1>1, a \in 0 .. Size + 2
  <2> QED
    BY ONLY <2>1, <2>2
<1> QED
  BY <1>2, <1>3

LEMMA VarInitInv == VarInit => VarInv
<1> SUFFICES ASSUME VarInit PROVE VarInv
  OBVIOUS
<1>1. /\ IsOver(mem, 0 .. Size + 2) /\ DOMAIN mem = 0 .. Size + 2
      /\ \A a \in 0 .. Size + 2 :
           /\ a \in Members => mem[a] = MemberAtStart(a)
           /\ a = StackBegin => mem[a] = ClosureAtStart
           /\ a \in Base .. Base + 2 => mem[a] = Code
           /\ a \notin Members /\ a # StackBegin /\ a \notin Base .. Base + 2 => mem[a] = Number
  BY InitialWords
<1>2. /\ top = TopAtStart /\ risks = {} /\ status = "running" /\ uses \subseteq Vars \cup Strays
      /\ checked \in BOOLEAN
      /\ captured = [i \in 0 .. NCaptured - 1 |-> Number]
  BY DEF VarInit
<1>3. /\ top = OpsBase /\ Ops = 0 /\ top \in Nat
  BY <1>2, Layout DEF TopAtStart, OpsBase, Ops
<1>4. \A a \in 0 .. Size + 2 : mem[a].kind \in Kinds /\ ~IsAddress(mem[a])
  BY <1>1 DEF Kinds, IsAddress, MemberAtStart, ClosureAtStart, Code, Number, Word
<1>5. /\ IsOver(captured, 0 .. NCaptured - 1) /\ DOMAIN captured = 0 .. NCaptured - 1
      /\ \A i \in 0 .. NCaptured - 1 : captured[i] = Number
  BY <1>2 DEF IsOver
<1>6. Number.kind \in Kinds /\ ~IsAddress(Number)
  BY DEF Number, Word, IsAddress, Kinds
<1>7. VarTypeOK
  <2>1. Ops \in 0 .. MaxOps
    BY <1>3, Layout
  <2> QED
    BY <1>1, <1>2, <1>4, <1>5, <2>1 DEF VarTypeOK, Kinds
<1>8. ControlIntact
  <2>1. /\ StackBegin \in 0 .. Size + 2 /\ Base .. Base + 2 \subseteq 0 .. Size + 2
        /\ Members \subseteq 0 .. Size + 2
    BY Layout
  <2> QED
    BY <1>1, <2>1 DEF ControlIntact, Control, AtStart
<1>9. AddressesAmongOperands
  BY <1>3, <1>4, <1>5, <1>6, Layout DEF AddressesAmongOperands
<1> QED
  BY <1>1, <1>2, <1>3, <1>5, <1>6, <1>7, <1>8, <1>9 DEF VarInv, UndefinedOnlyAfterRisk

(* What the invariant says of a machine that runs.                         *)
LEMMA Facts ==
  ASSUME VarInv
  PROVE  /\ top \in Nat /\ Ops \in Nat /\ Ops <= MaxOps /\ top = OpsBase - Ops
         /\ OpsBase \in Nat /\ OpsBase < Size
         /\ DOMAIN mem = 0 .. Size + 2 /\ IsOver(mem, 0 .. Size + 2)
         /\ \A a \in 0 .. Size + 2 : mem[a].kind \in Kinds
         /\ uses \subseteq Vars \cup Strays /\ risks \subseteq uses
<1>1. top \in Nat /\ Ops \in 0 .. MaxOps
  BY DEF VarInv, VarTypeOK
<1>2. Ops = OpsBase - top
  BY DEF Ops, OpsBase
<1>3. /\ Ops \in Nat /\ Ops <= MaxOps /\ top = OpsBase - Ops /\ OpsBase \in Nat
      /\ OpsBase < Size
  BY <1>1, <1>2, Layout
<1> QED
  BY <1>1, <1>3 DEF VarInv, VarTypeOK, Kinds

LEMMA ReferenceValue ==
  ASSUME VarInv, NEW v \in Vars
  PROVE  At(Reference(v)).kind \in Kinds /\ ~IsAddress(At(Reference(v)))
<1>1. CASE InMemory(v)
  <2>1. PICK a : a = Place(v)
    OBVIOUS
  <2>2. At(Reference(v)) = mem[a] /\ a \in OpsBase + 1 .. Size + 2
    BY <1>1, <2>1, ReferenceForms, Places DEF At, AddressWord, Word
  <2>3. a \in 0 .. Size + 2 /\ OpsBase < a
    BY <2>2, Layout
  <2> QED
    BY <2>2, <2>3, Facts DEF VarInv, AddressesAmongOperands
<1>2. CASE ~InMemory(v)
  <2>1. PICK i : i = Place(v)
    OBVIOUS
  <2>2. At(Reference(v)) = captured[i] /\ i \in 0 .. NCaptured - 1
    BY <1>2, <2>1, ReferenceForms, Places DEF At, InClosure, Word
  <2> QED
    BY <2>2 DEF VarInv, AddressesAmongOperands
<1> QED
  BY <1>1, <1>2

(* The words below the top, the top one first.                             *)
LEMMA OperandWord ==
  ASSUME VarInv, NEW k \in Nat, k < Ops
  PROVE  /\ top + 1 + k \in 0 .. Size + 2 /\ top + 1 + k <= OpsBase
         /\ TopWord(k) = mem[top + 1 + k]
         /\ TopWord(k).kind \in Kinds
         /\ IsAddress(TopWord(k)) => Accounted(TopWord(k), risks)
<1>1. PICK a \in Nat : a = top + 1 + k
  BY Facts
<1>2. a \in 0 .. Size + 2 /\ a <= OpsBase /\ top < a
  BY <1>1, Facts, Layout
<1>3. TopWord(k) = mem[a]
  BY <1>1 DEF TopWord
<1> QED
  BY <1>1, <1>2, <1>3, Facts DEF VarInv, AddressesAmongOperands

-----------------------------------------------------------------------------
(***************************************************************************)
(* What every instruction keeps                                            *)
(***************************************************************************)

(* An assignment may change the word a.                                    *)
MayChange(a, R) ==
  a \in Control =>
    /\ Variable("global", a - StackBegin - 1) \in R
    /\ checked => a \in {BeginMember, BaseMember}

WordsKept ==
  /\ UNCHANGED <<uses, checked>> /\ risks \subseteq risks' /\ risks' \subseteq uses
  /\ status' = status
  /\ IsOver(mem', 0 .. Size + 2) /\ IsOver(captured', 0 .. NCaptured - 1)
  /\ top' \in Nat /\ OpsBase - top' \in 0 .. MaxOps
  /\ \A i \in 0 .. NCaptured - 1 : captured'[i].kind \in Kinds /\ ~IsAddress(captured'[i])
  /\ \A a \in 0 .. Size + 2 : mem'[a].kind \in Kinds
  /\ \A a \in 0 .. Size + 2 :
       OpsBase < a => mem'[a] = mem[a] \/ (~IsAddress(mem'[a]) /\ MayChange(a, risks'))
  /\ \A a \in 0 .. Size + 2 :
       top' < a /\ a <= OpsBase /\ IsAddress(mem'[a]) => Accounted(mem'[a], risks')

LEMMA KeptInv ==
  ASSUME VarInv, WordsKept
  PROVE  VarInv'
<1>1. /\ uses' = uses /\ checked' = checked /\ risks \subseteq risks' /\ risks' \subseteq uses
      /\ status' = status
      /\ IsOver(mem', 0 .. Size + 2) /\ IsOver(captured', 0 .. NCaptured - 1)
      /\ top' \in Nat /\ OpsBase - top' \in 0 .. MaxOps
  BY DEF WordsKept
<1>2. DOMAIN mem' = 0 .. Size + 2 /\ DOMAIN captured' = 0 .. NCaptured - 1
  BY <1>1 DEF IsOver
<1>3. Ops' \in 0 .. MaxOps
  BY <1>1 DEF Ops, OpsBase
<1>4. VarTypeOK'
  <2>1. \A a \in 0 .. Size + 2 : mem'[a].kind \in Kinds
    BY DEF WordsKept
  <2>2. uses \subseteq Vars \cup Strays /\ checked \in BOOLEAN /\ status \in {"running", "error", "corrupt"}
    BY DEF VarInv, VarTypeOK
  <2> QED
    BY <1>1, <1>2, <1>3, <2>1, <2>2 DEF VarTypeOK, Kinds
<1>5. ControlIntact'
  <2>1. \A a \in Control : a \in 0 .. Size + 2 /\ OpsBase < a
    BY Layout DEF Control
  <2>2. \A a \in 0 .. Size + 2 :
          OpsBase < a => mem'[a] = mem[a] \/ MayChange(a, risks')
    BY DEF WordsKept
  <2>3. ControlIntact
    BY DEF VarInv
  <2>4. ASSUME NEW a \in Control, mem'[a] # AtStart(a)
        PROVE  /\ Variable("global", a - StackBegin - 1) \in risks'
               /\ checked => a \in {BeginMember, BaseMember}
    <3>1. mem[a] # AtStart(a) \/ MayChange(a, risks')
      BY <2>1, <2>2, <2>4
    <3>2. CASE mem[a] # AtStart(a)
      BY <1>1, <2>3, <3>2 DEF ControlIntact
    <3>3. CASE MayChange(a, risks')
      BY <3>3 DEF MayChange
    <3> QED
      BY <3>1, <3>2, <3>3
  <2> QED
    BY <1>1, <2>4 DEF ControlIntact
<1>6. UndefinedOnlyAfterRisk'
  BY <1>1 DEF VarInv, UndefinedOnlyAfterRisk
<1>7. AddressesAmongOperands'
  <2>1. \A i \in 0 .. NCaptured - 1 : ~IsAddress(captured'[i])
    BY DEF WordsKept
  <2>2. \A a \in 0 .. Size + 2 : OpsBase < a => ~IsAddress(mem'[a])
    BY DEF WordsKept, VarInv, AddressesAmongOperands
  <2>3. ASSUME NEW a \in 0 .. Size + 2, top' < a, a <= OpsBase, IsAddress(mem'[a])
        PROVE  Accounted(mem[a], risks)'
    <3>1. Accounted(mem'[a], risks')
      BY <2>3 DEF WordsKept
    <3> QED
      BY <1>1, <3>1 DEF Accounted, Rejects
  <2> QED
    BY <2>1, <2>2, <2>3 DEF AddressesAmongOperands
<1>8. \A i \in 0 .. NCaptured - 1 : captured'[i].kind \in Kinds
  BY DEF WordsKept
<1> QED
  BY <1>1, <1>4, <1>5, <1>6, <1>7, <1>8 DEF VarInv

-----------------------------------------------------------------------------
(***************************************************************************)
(* Pushing and assigning                                                   *)
(***************************************************************************)

(* One word or two, the first one pushed first.                            *)
KnownWord(w, R) == w.kind \in Kinds /\ (IsAddress(w) => Accounted(w, R))

LEMMA PushWrites ==
  ASSUME VarInv, NEW ws, NEW n \in 1 .. 2, Len(ws) = n, PushWords(ws)
  PROVE  /\ top' \in Nat /\ top' = top - n /\ n <= top /\ Ops + n <= MaxOps
         /\ captured' = captured /\ IsOver(mem', 0 .. Size + 2)
         /\ \A a \in 0 .. Size + 2 : a > top \/ a <= top' => mem'[a] = mem[a]
         /\ \A k \in 1 .. n : mem'[top + 1 - k] = ws[k]
<1>1. mem' = Pushed(ws) /\ top' = top - n /\ Ops + n <= MaxOps /\ captured' = captured
  BY DEF PushWords
<1>2. top' \in Nat /\ n <= top
  BY <1>1, Facts, Layout
<1>3. mem' = [a \in 0 .. Size + 2 |->
                IF a \in top - n + 1 .. top THEN ws[top + 1 - a] ELSE mem[a]]
  BY <1>1, Facts DEF Pushed
<1>4. IsOver(mem', 0 .. Size + 2)
  BY <1>3 DEF IsOver
<1>5. ASSUME NEW a \in 0 .. Size + 2, a > top \/ a <= top'
      PROVE  mem'[a] = mem[a]
  <2>1. ~(a \in top - n + 1 .. top)
    BY <1>1, <1>5, Facts
  <2> QED
    BY <1>3, <2>1
<1>6. ASSUME NEW k \in 1 .. n
      PROVE  mem'[top + 1 - k] = ws[k]
  <2>1. PICK a \in Nat : a = top + 1 - k
    BY <1>2, Facts
  <2>2. a \in 0 .. Size + 2 /\ a \in top - n + 1 .. top /\ top + 1 - a = k
    BY <2>1, <1>2, Facts, Layout, SMTT(30)
  <2>3. mem'[a] = ws[top + 1 - a]
    BY <1>3, <2>2
  <2> QED
    BY <2>1, <2>2, <2>3
<1> QED
  BY <1>1, <1>2, <1>4, <1>5, <1>6

LEMMA PushKeeps ==
  ASSUME VarInv, NEW ws, NEW n \in 1 .. 2, Len(ws) = n, PushWords(ws),
         \A k \in 1 .. n : KnownWord(ws[k], risks'),
         UNCHANGED <<uses, checked, status>>, risks \subseteq risks', risks' \subseteq uses
  PROVE  WordsKept
<1>1. /\ top' \in Nat /\ top' = top - n /\ n <= top /\ Ops + n <= MaxOps
      /\ captured' = captured /\ IsOver(mem', 0 .. Size + 2)
      /\ \A a \in 0 .. Size + 2 : a > top \/ a <= top' => mem'[a] = mem[a]
      /\ \A k \in 1 .. n : mem'[top + 1 - k] = ws[k]
  BY PushWrites
<1>2. OpsBase - top' \in 0 .. MaxOps
  BY <1>1, Facts, Layout, SMTT(30)
<1>3. ASSUME NEW a \in 0 .. Size + 2
      PROVE  \/ mem'[a] = mem[a] /\ (a > top \/ a <= top')
             \/ a <= top /\ KnownWord(mem'[a], risks')
  <2>1. CASE a > top \/ a <= top'
    BY <1>1, <2>1
  <2>2. CASE a <= top /\ a > top'
    <3>1. PICK k \in 1 .. n : a = top + 1 - k
      <4>1. top + 1 - a \in 1 .. n /\ a = top + 1 - (top + 1 - a)
        BY <1>1, <2>2, Facts, SMTT(30)
      <4> QED
        BY <4>1
    <3> QED
      BY <1>1, <2>2, <3>1
  <2> QED
    BY <1>1, <2>1, <2>2, Facts
<1>4. \A a \in 0 .. Size + 2 : mem'[a].kind \in Kinds
  BY <1>3, Facts DEF KnownWord
<1>5. \A a \in 0 .. Size + 2 : OpsBase < a => mem'[a] = mem[a]
  BY <1>1, Facts
<1>6. ASSUME NEW a \in 0 .. Size + 2, top' < a, a <= OpsBase, IsAddress(mem'[a])
      PROVE  Accounted(mem'[a], risks')
  <2>1. CASE KnownWord(mem'[a], risks')
    BY <1>6, <2>1 DEF KnownWord
  <2>2. CASE mem'[a] = mem[a] /\ a > top
    <3>1. Accounted(mem[a], risks)
      BY <1>6, <2>2 DEF VarInv, AddressesAmongOperands
    <3> QED
      BY <2>2, <3>1 DEF Accounted
  <2> QED
    BY <1>1, <1>3, <1>6, <2>1, <2>2, Facts
<1>7. \A i \in 0 .. NCaptured - 1 : captured'[i].kind \in Kinds /\ ~IsAddress(captured'[i])
  BY <1>1 DEF VarInv, AddressesAmongOperands
<1>8. IsOver(captured', 0 .. NCaptured - 1)
  BY <1>1 DEF VarInv
<1> QED
  BY <1>1, <1>2, <1>4, <1>5, <1>6, <1>7, <1>8 DEF WordsKept

(* An assignment to a variable in use, in memory m, which has the variables*)
(* mem has: the variable gets w, no other word is touched.                 *)
LEMMA Writes ==
  ASSUME VarInv, NEW m, IsOver(m, 0 .. Size + 2),
         \A a \in 0 .. Size + 2 : OpsBase < a => m[a] = mem[a],
         NEW v \in uses, v \in Vars, ~Rejects(v), OutsideArray(v) => v \in risks',
         NEW w, w.kind \in Kinds, ~IsAddress(w),
         Write(m, Reference(v), w)
  PROVE  /\ IsOver(mem', 0 .. Size + 2) /\ IsOver(captured', 0 .. NCaptured - 1)
         /\ \A i \in 0 .. NCaptured - 1 : captured'[i].kind \in Kinds /\ ~IsAddress(captured'[i])
         /\ \A a \in 0 .. Size + 2 : a <= OpsBase => mem'[a] = m[a]
         /\ \A a \in 0 .. Size + 2 :
              OpsBase < a => mem'[a] = mem[a] \/ (mem'[a] = w /\ MayChange(a, risks'))
         /\ \A u \in Vars : At(Reference(u))' = IF u = v THEN w ELSE At(Reference(u))
<1>1. v \in Vars
  OBVIOUS
<1>2. \A i \in 0 .. NCaptured - 1 : captured[i].kind \in Kinds /\ ~IsAddress(captured[i])
  BY DEF VarInv, AddressesAmongOperands
<1>3. IsOver(captured, 0 .. NCaptured - 1)
  BY DEF VarInv
<1>4. CASE InMemory(v)
  <2>1. PICK p : p = Place(v)
    OBVIOUS
  <2>2. /\ Reference(v) = AddressWord(p) /\ p \in OpsBase + 1 .. Size + 2
        /\ p \notin Base .. Base + 2 /\ p # StackBegin
        /\ p \in Members => v = Variable("global", p - StackBegin - 1) /\ OutsideArray(v)
    BY <1>1, <1>4, <2>1, ReferenceForms, Places
  <2>3. p \in 0 .. Size + 2 /\ OpsBase < p
    BY ONLY <2>2, Layout, SMTT(30)
  <2>4. mem' = [m EXCEPT ![p] = w] /\ captured' = captured
    BY <2>2 DEF Write, AddressWord, Word
  <2>5. /\ IsOver(mem', 0 .. Size + 2) /\ mem'[p] = w
        /\ \A a \in 0 .. Size + 2 : a # p => mem'[a] = m[a]
    <3>1. PICK D, g : D = 0 .. Size + 2 /\ g = mem'
      OBVIOUS
    <3>2. IsOver(m, D) /\ p \in D /\ g = [m EXCEPT ![p] = w]
      BY <2>3, <2>4, <3>1
    <3>3. IsOver(g, D) /\ g[p] = w /\ \A a \in D : a # p => g[a] = m[a]
      BY ONLY <3>2 DEF IsOver
    <3> QED
      BY <3>1, <3>3
  <2>6. MayChange(p, risks')
    <3>1. p \in Control => p \in Members
      BY <2>2 DEF Control
    <3>2. p \in Members => Variable("global", p - StackBegin - 1) \in risks'
      BY <2>2
    <3>3. ASSUME checked, p \in Members
          PROVE  p \in {BeginMember, BaseMember}
      <4>1. v.kind = "global" /\ v.index = p - StackBegin - 1
        BY <2>2, <3>3 DEF Variable
      <4>2. ~(p - StackBegin - 1 > NGlobal)
        BY <3>3, <4>1 DEF Rejects
      <4>3. p # ArgsMember
        BY <2>3, <4>2, Layout DEF ArgsMember
      <4> QED
        BY <3>3, <4>3 DEF Members
    <3> QED
      BY <3>1, <3>2, <3>3 DEF MayChange
  <2>7. \A a \in 0 .. Size + 2 : a <= OpsBase => mem'[a] = m[a]
    BY <2>3, <2>5, Layout
  <2>8. \A a \in 0 .. Size + 2 :
          OpsBase < a => mem'[a] = mem[a] \/ (mem'[a] = w /\ MayChange(a, risks'))
    BY <2>5, <2>6
  <2>9. ASSUME NEW u \in Vars
        PROVE  At(Reference(u))' = IF u = v THEN w ELSE At(Reference(u))
    <3>1. CASE InMemory(u)
      <4>1. PICK q : q = Place(u)
        OBVIOUS
      <4>2. Reference(u) = AddressWord(q) /\ q \in OpsBase + 1 .. Size + 2
        BY <3>1, <4>1, ReferenceForms, Places
      <4>3. At(Reference(u)) = mem[q] /\ At(Reference(u))' = mem'[q]
        BY <4>2 DEF At, AddressWord, Word
      <4>4. q \in 0 .. Size + 2 /\ OpsBase < q
        BY <4>2, Layout
      <4>5. q = p => u = v
        BY <1>1, <2>2, <4>2, ReferencesDiffer
      <4>6. u = v => q = p
        BY <2>1, <4>1
      <4> QED
        BY <2>5, <4>3, <4>4, <4>5, <4>6
    <3>2. CASE ~InMemory(u)
      <4>1. At(Reference(u))' = At(Reference(u))
        BY <2>4, <3>2, ReferenceForms DEF At, InClosure, Word
      <4> QED
        BY <1>4, <3>2, <4>1
    <3> QED
      BY <3>1, <3>2
  <2> QED
    BY <1>2, <1>3, <2>4, <2>5, <2>7, <2>8, <2>9
<1>5. CASE ~InMemory(v)
  <2>1. PICK p : p = Place(v)
    OBVIOUS
  <2>2. Reference(v) = InClosure(p) /\ p \in 0 .. NCaptured - 1
    BY <1>1, <1>5, <2>1, ReferenceForms, Places
  <2>3. mem' = m /\ captured' = [captured EXCEPT ![p] = w]
    BY <2>2 DEF Write, InClosure, Word
  <2>4. /\ IsOver(captured', 0 .. NCaptured - 1) /\ captured'[p] = w
        /\ \A i \in 0 .. NCaptured - 1 : i # p => captured'[i] = captured[i]
    <3>1. PICK D, f, g : D = 0 .. NCaptured - 1 /\ f = captured /\ g = captured'
      OBVIOUS
    <3>2. IsOver(f, D) /\ p \in D /\ g = [f EXCEPT ![p] = w]
      BY <1>3, <2>2, <2>3, <3>1
    <3>3. IsOver(g, D) /\ g[p] = w /\ \A a \in D : a # p => g[a] = f[a]
      BY ONLY <3>2 DEF IsOver
    <3> QED
      BY <3>1, <3>3
  <2>5. \A i \in 0 .. NCaptured - 1 : captured'[i].kind \in Kinds /\ ~IsAddress(captured'[i])
    BY <1>2, <2>4
  <2>6. ASSUME NEW u \in Vars
        PROVE  At(Reference(u))' = IF u = v THEN w ELSE At(Reference(u))
    <3>1. CASE InMemory(u)
      <4>1. PICK q : q = Place(u)
        OBVIOUS
      <4>2. Reference(u) = AddressWord(q) /\ q \in OpsBase + 1 .. Size + 2
        BY <3>1, <4>1, ReferenceForms, Places
      <4>3. At(Reference(u)) = mem[q] /\ At(Reference(u))' = mem'[q]
        BY <4>2 DEF At, AddressWord, Word
      <4>4. q \in 0 .. Size + 2 /\ OpsBase < q
        BY <4>2, Layout
      <4> QED
        BY <1>5, <2>3, <3>1, <4>3, <4>4
    <3>2. CASE ~InMemory(u)
      <4>1. PICK q : q = Place(u)
        OBVIOUS
      <4>2. Reference(u) = InClosure(q) /\ q \in 0 .. NCaptured - 1
        BY <3>2, <4>1, ReferenceForms, Places
      <4>3. At(Reference(u)) = captured[q] /\ At(Reference(u))' = captured'[q]
        BY <4>2 DEF At, InClosure, Word
      <4>4. q = p => u = v
        BY <1>1, <2>2, <4>2, ReferencesDiffer
      <4>5. u = v => q = p
        BY <2>1, <4>1
      <4> QED
        BY <2>4, <4>2, <4>3, <4>4, <4>5
    <3> QED
      BY <3>1, <3>2
  <2> QED
    BY <2>3, <2>4, <2>5, <2>6
<1> QED
  BY <1>4, <1>5

-----------------------------------------------------------------------------
(***************************************************************************)
(* The instructions                                                        *)
(***************************************************************************)

LEMMA KnownLiterals ==
  \A R : KnownWord(Number, R) /\ KnownWord(Text, R)
  BY DEF KnownWord, Number, Text, Word, Kinds, IsAddress

LEMMA PushOneKeeps ==
  ASSUME VarInv, NEW w, KnownWord(w, risks), PushWords(<<w>>),
         UNCHANGED <<uses, checked, status, risks>>
  PROVE  WordsKept
<1> DEFINE ws == <<w>>
<1>1. Len(ws) = 1 /\ ws[1] = w /\ PushWords(ws) /\ 1 \in 1 .. 2
  OBVIOUS
<1> HIDE DEF ws
<1>2. risks' = risks /\ risks \subseteq uses
  BY Facts
<1>3. \A k \in 1 .. 1 : KnownWord(ws[k], risks')
  BY <1>1, <1>2
<1> QED
  BY <1>1, <1>2, <1>3, PushKeeps

LEMMA ReferPushes ==
  ASSUME VarInv, NEW v \in uses, Resolves(v), PushWords(<<Reference(v), Reference(v)>>),
         risks' = risks \cup (IF OutsideArray(v) \/ v.kind = "captured" THEN {v} ELSE {}),
         UNCHANGED <<uses, checked, status>>
  PROVE  WordsKept
<1> DEFINE ws == <<Reference(v), Reference(v)>>
<1>1. Len(ws) = 2 /\ (\A k \in 1 .. 2 : ws[k] = Reference(v)) /\ PushWords(ws) /\ 2 \in 1 .. 2
  OBVIOUS
<1> HIDE DEF ws
<1>2. risks \subseteq risks' /\ risks' \subseteq uses
  BY Facts
<1>3. Accounted(Reference(v), risks')
  BY DEF Accounted, Resolves
<1>4. Reference(v).kind \in Kinds
  <2>1. v \in Vars
    BY DEF Resolves
  <2> QED
    BY <2>1, ReferenceForms DEF AddressWord, InClosure, Word, Kinds
<1>5. \A k \in 1 .. 2 : KnownWord(ws[k], risks')
  BY <1>1, <1>3, <1>4 DEF KnownWord
<1> QED
  BY <1>1, <1>2, <1>5, PushKeeps

LEMMA DropKeeps ==
  ASSUME VarInv, DropWord
  PROVE  WordsKept
<1>1. /\ top' = top + 1 /\ 0 < Ops /\ mem' = mem /\ captured' = captured
      /\ UNCHANGED <<uses, checked, status, risks>>
  BY DEF DropWord, Unhurt
<1>2. top' \in Nat /\ OpsBase - top' \in 0 .. MaxOps
  BY <1>1, Facts, Layout
<1>3. \A a \in 0 .. Size + 2 : top' < a => top < a
  BY <1>1, Facts
<1> QED
  BY <1>1, <1>2, <1>3, Facts DEF WordsKept, VarInv, AddressesAmongOperands, Accounted

LEMMA SwapWrites ==
  ASSUME VarInv, SwapWords
  PROVE  /\ Ops > 1 /\ top' = top /\ captured' = captured
         /\ IsOver(mem', 0 .. Size + 2)
         /\ mem'[top + 1] = TopWord(1) /\ mem'[top + 2] = TopWord(0)
         /\ \A a \in 0 .. Size + 2 : a # top + 1 /\ a # top + 2 => mem'[a] = mem[a]
<1>1. /\ Ops > 1 /\ top' = top /\ captured' = captured
      /\ mem' = [mem EXCEPT ![top + 1] = TopWord(1), ![top + 2] = TopWord(0)]
  BY DEF SwapWords
<1>2. PICK a \in Nat, b \in Nat : a = top + 1 /\ b = top + 2
  BY Facts
<1>3. a \in 0 .. Size + 2 /\ b \in 0 .. Size + 2 /\ a # b
  BY <1>1, <1>2, Facts, Layout
<1>4. PICK D, f, g, x, y : D = 0 .. Size + 2 /\ f = mem /\ g = mem' /\ x = TopWord(1) /\ y = TopWord(0)
  OBVIOUS
<1>5. IsOver(f, D) /\ a \in D /\ b \in D /\ a # b /\ g = [f EXCEPT ![a] = x, ![b] = y]
  BY <1>1, <1>2, <1>3, <1>4, Facts
<1>6. IsOver(g, D) /\ g[a] = x /\ g[b] = y /\ \A c \in D : c # a /\ c # b => g[c] = f[c]
  BY ONLY <1>5 DEF IsOver
<1> QED
  BY <1>1, <1>2, <1>4, <1>6

LEMMA SwapKeeps ==
  ASSUME VarInv, SwapWords
  PROVE  WordsKept
<1>1. /\ Ops > 1 /\ top' = top /\ captured' = captured
      /\ IsOver(mem', 0 .. Size + 2)
      /\ mem'[top + 1] = TopWord(1) /\ mem'[top + 2] = TopWord(0)
      /\ \A a \in 0 .. Size + 2 : a # top + 1 /\ a # top + 2 => mem'[a] = mem[a]
  BY SwapWrites
<1>2. UNCHANGED <<uses, checked, status, risks>>
  BY DEF SwapWords, Unhurt
<1>3. KnownWord(TopWord(0), risks) /\ KnownWord(TopWord(1), risks)
  BY <1>1, Facts, OperandWord DEF KnownWord
<1>4. ASSUME NEW a \in 0 .. Size + 2
      PROVE  mem'[a] = mem[a] \/ (a <= OpsBase /\ KnownWord(mem'[a], risks))
  <2>1. CASE a = top + 1 \/ a = top + 2
    BY <1>1, <1>3, <2>1, Facts
  <2>2. CASE a # top + 1 /\ a # top + 2
    BY <1>1, <2>2
  <2> QED
    BY <2>1, <2>2
<1>5. \A a \in 0 .. Size + 2 : mem'[a].kind \in Kinds
  BY <1>4, Facts DEF KnownWord
<1>6. \A a \in 0 .. Size + 2 : OpsBase < a => mem'[a] = mem[a]
  BY <1>4, Facts
<1>7. \A a \in 0 .. Size + 2 :
        top' < a /\ a <= OpsBase /\ IsAddress(mem'[a]) => Accounted(mem'[a], risks')
  BY <1>1, <1>2, <1>4 DEF KnownWord, VarInv, AddressesAmongOperands
<1>8. OpsBase - top' \in 0 .. MaxOps /\ top' \in Nat
  BY <1>1, Facts, Layout
<1>9. /\ IsOver(captured', 0 .. NCaptured - 1)
      /\ \A i \in 0 .. NCaptured - 1 : captured'[i].kind \in Kinds /\ ~IsAddress(captured'[i])
  BY <1>1 DEF VarInv, AddressesAmongOperands
<1> QED
  BY <1>1, <1>2, <1>5, <1>6, <1>7, <1>8, <1>9, Facts DEF WordsKept

LEMMA StoreKeeps ==
  ASSUME VarInv, Running, Ops > 0, MayStore, NEW v \in uses, Resolves(v),
         Write(mem, Reference(v), TopWord(0)),
         risks' = risks \cup (IF OutsideArray(v) THEN {v} ELSE {}),
         UNCHANGED <<uses, checked, top, status>>
  PROVE  /\ WordsKept
         /\ \A a \in 0 .. Size + 2 : a <= OpsBase => mem'[a] = mem[a]
         /\ \A u \in Vars : At(Reference(u))' = IF u = v THEN TopWord(0) ELSE At(Reference(u))
<1>1. PICK w : w = TopWord(0)
  OBVIOUS
<1>2. w.kind \in Kinds /\ ~IsAddress(w) /\ ~Rejects(v) /\ (OutsideArray(v) => v \in risks')
  BY <1>1, Facts, OperandWord DEF MayStore, Resolves
<1>3. IsOver(mem, 0 .. Size + 2) /\ Write(mem, Reference(v), w)
  BY <1>1, Facts
<1>4. /\ IsOver(mem', 0 .. Size + 2) /\ IsOver(captured', 0 .. NCaptured - 1)
      /\ \A i \in 0 .. NCaptured - 1 : captured'[i].kind \in Kinds /\ ~IsAddress(captured'[i])
      /\ \A a \in 0 .. Size + 2 : a <= OpsBase => mem'[a] = mem[a]
      /\ \A a \in 0 .. Size + 2 :
           OpsBase < a => mem'[a] = mem[a] \/ (mem'[a] = w /\ MayChange(a, risks'))
      /\ \A u \in Vars : At(Reference(u))' = IF u = v THEN w ELSE At(Reference(u))
  <2>1. v \in Vars
    BY DEF Resolves
  <2> QED
    BY <1>2, <1>3, <2>1, Writes
<1>5. risks \subseteq risks' /\ risks' \subseteq uses
  BY Facts
<1>6. ASSUME NEW a \in 0 .. Size + 2
      PROVE  /\ mem'[a].kind \in Kinds
             /\ OpsBase < a => mem'[a] = mem[a] \/ (~IsAddress(mem'[a]) /\ MayChange(a, risks'))
             /\ top' < a /\ a <= OpsBase /\ IsAddress(mem'[a]) => Accounted(mem'[a], risks')
  <2>1. CASE OpsBase < a
    <3>1. mem'[a] = mem[a] \/ (mem'[a] = w /\ MayChange(a, risks'))
      BY <1>4, <2>1
    <3>2. ~(a <= OpsBase) /\ mem[a].kind \in Kinds
      BY <2>1, Facts, Layout
    <3> QED
      BY <1>2, <3>1, <3>2, Zenon
  <2>2. CASE a <= OpsBase
    <3>1. mem'[a] = mem[a]
      BY <1>4, <2>2
    <3>2. top < a /\ IsAddress(mem[a]) => Accounted(mem[a], risks)
      BY <2>2 DEF VarInv, AddressesAmongOperands
    <3> QED
      BY <1>5, <2>2, <3>1, <3>2, Facts DEF Accounted
  <2> QED
    BY <2>1, <2>2, Facts
<1>7. top' \in Nat /\ OpsBase - top' \in 0 .. MaxOps
  BY Facts, Layout
<1>8. WordsKept
  BY <1>4, <1>5, <1>6, <1>7 DEF WordsKept
<1> QED
  BY <1>1, <1>4, <1>8

(* STI and STA: the word k below the top is a reference.                   *)
ThroughWord(k) ==
  /\ Running /\ Ops > k /\ MayStore /\ IsAddress(TopWord(k))
  /\ Write([mem EXCEPT ![top + 1 + k] = TopWord(0)], TopWord(k), TopWord(0))
  /\ top' = top + k
  /\ Unhurt

LEMMA IndirectForms ==
  ASSUME VarInv
  PROVE  /\ StoreIndirect => ThroughWord(1)
         /\ StoreAny => ThroughWord(2)
<1>1. top \in Nat /\ top + 2 = top + 1 + 1 /\ top + 3 = top + 1 + 2 /\ top + 3 - 1 = top + 2
  BY Facts
<1>2. StoreIndirect => ThroughWord(1)
  BY <1>1 DEF StoreIndirect, ThroughWord
<1>3. StoreAny => ThroughWord(2)
  BY <1>1 DEF StoreAny, ThroughWord, ResultPlace
<1> QED
  BY <1>2, <1>3

LEMMA ThroughKeeps ==
  ASSUME VarInv, NEW k \in 1 .. 2, ThroughWord(k)
  PROVE  /\ WordsKept
         /\ \A a \in 0 .. Size + 2 :
              a <= OpsBase => mem'[a] = IF a = top + 1 + k THEN TopWord(0) ELSE mem[a]
         /\ \E v \in uses \cap Vars :
              /\ TopWord(k) = Reference(v)
              /\ \A u \in Vars : At(Reference(u))' = IF u = v THEN TopWord(0) ELSE At(Reference(u))
<1>1. /\ Ops > k /\ MayStore /\ IsAddress(TopWord(k)) /\ top' = top + k
      /\ UNCHANGED <<uses, checked, status, risks>>
      /\ Write([mem EXCEPT ![top + 1 + k] = TopWord(0)], TopWord(k), TopWord(0))
  BY DEF ThroughWord, Unhurt
<1>2. PICK w : w = TopWord(0)
  OBVIOUS
<1>3. w.kind \in Kinds /\ ~IsAddress(w)
  BY <1>1, <1>2, Facts, OperandWord DEF MayStore
<1>4. PICK v \in uses \cap Vars :
        TopWord(k) = Reference(v) /\ ~Rejects(v) /\ (OutsideArray(v) => v \in risks')
  <2>1. Accounted(TopWord(k), risks)
    BY <1>1, OperandWord
  <2> QED
    BY <1>1, <2>1 DEF Accounted
<1>5. PICK p \in Nat : p = top + 1 + k
  BY Facts
<1>6. p \in 0 .. Size + 2 /\ p <= OpsBase /\ top < p
  BY <1>1, <1>5, Facts, Layout, SMTT(30)
<1>7. PICK m : m = [mem EXCEPT ![p] = w]
  OBVIOUS
<1>8. IsOver(m, 0 .. Size + 2) /\ m[p] = w /\ \A a \in 0 .. Size + 2 : a # p => m[a] = mem[a]
  <2>1. PICK D, f : D = 0 .. Size + 2 /\ f = mem
    OBVIOUS
  <2>2. IsOver(f, D) /\ p \in D /\ m = [f EXCEPT ![p] = w]
    BY <1>6, <1>7, <2>1, Facts
  <2>3. IsOver(m, D) /\ m[p] = w /\ \A a \in D : a # p => m[a] = f[a]
    BY ONLY <2>2 DEF IsOver
  <2> QED
    BY <2>1, <2>3
<1>9. Write(m, Reference(v), w)
  BY <1>1, <1>2, <1>4, <1>5, <1>7
<1>10. \A a \in 0 .. Size + 2 : OpsBase < a => m[a] = mem[a]
  BY <1>6, <1>8, Layout
<1>11. /\ IsOver(mem', 0 .. Size + 2) /\ IsOver(captured', 0 .. NCaptured - 1)
       /\ \A i \in 0 .. NCaptured - 1 : captured'[i].kind \in Kinds /\ ~IsAddress(captured'[i])
       /\ \A a \in 0 .. Size + 2 : a <= OpsBase => mem'[a] = m[a]
       /\ \A a \in 0 .. Size + 2 :
            OpsBase < a => mem'[a] = mem[a] \/ (mem'[a] = w /\ MayChange(a, risks'))
       /\ \A u \in Vars : At(Reference(u))' = IF u = v THEN w ELSE At(Reference(u))
  BY <1>3, <1>4, <1>8, <1>9, <1>10, Writes
<1>12. risks \subseteq risks' /\ risks' \subseteq uses
  BY <1>1, Facts
<1>13. ASSUME NEW a \in 0 .. Size + 2, a <= OpsBase
       PROVE  mem'[a] = IF a = p THEN w ELSE mem[a]
  BY <1>8, <1>11, <1>13
<1>14. ASSUME NEW a \in 0 .. Size + 2
       PROVE  /\ mem'[a].kind \in Kinds
              /\ OpsBase < a => mem'[a] = mem[a] \/ (~IsAddress(mem'[a]) /\ MayChange(a, risks'))
              /\ top' < a /\ a <= OpsBase /\ IsAddress(mem'[a]) => Accounted(mem'[a], risks')
  <2>1. CASE OpsBase < a
    <3>1. mem'[a] = mem[a] \/ (mem'[a] = w /\ MayChange(a, risks'))
      BY <1>11, <2>1
    <3>2. ~(a <= OpsBase) /\ mem[a].kind \in Kinds
      BY <2>1, Facts, Layout
    <3> QED
      BY <1>3, <3>1, <3>2, Zenon
  <2>2. CASE a <= OpsBase
    <3>1. mem'[a] = IF a = p THEN w ELSE mem[a]
      BY <1>13, <2>2
    <3>2. top' < a => top < a
      BY <1>1, Facts
    <3>3. top < a /\ IsAddress(mem[a]) => Accounted(mem[a], risks)
      BY <2>2 DEF VarInv, AddressesAmongOperands
    <3>4. mem[a].kind \in Kinds
      BY Facts
    <3>5. ~(OpsBase < a)
      BY <2>2, Layout
    <3> QED
      BY <1>1, <1>3, <3>1, <3>2, <3>3, <3>4, <3>5
  <2> QED
    BY <2>1, <2>2, Facts
<1>15. top' \in Nat /\ OpsBase - top' \in 0 .. MaxOps
  BY <1>1, Facts, Layout, SMTT(30)
<1>16. WordsKept
  BY <1>1, <1>11, <1>12, <1>14, <1>15 DEF WordsKept
<1> QED
  BY <1>2, <1>4, <1>5, <1>11, <1>13, <1>16

LEMMA PoppedWords ==
  ASSUME NEW n \in Nat, NEW ws, ws = [i \in 1 .. n |-> ws[i]]
  PROVE  Popped(ws) = ws
<1>1. Len(ws) = n /\ DOMAIN ws = 1 .. n
  <2> DEFINE S == {ws[i] : i \in 1 .. n}
  <2>1. ws \in Seq(S)
    BY SeqByPositions
  <2> QED
    BY <2>1, LenProperties
<1>2. ASSUME NEW i \in 1 .. n
      PROVE  Reverse(ws)[Len(ws) + 1 - i] = ws[i]
  <2>1. n + 1 - i \in 1 .. n /\ n - (n + 1 - i) + 1 = i
    OBVIOUS
  <2> QED
    BY <1>1, <2>1 DEF Reverse
<1>3. Popped(ws) = [i \in 1 .. n |-> ws[i]]
  BY <1>1, <1>2 DEF Popped
<1> QED
  BY <1>3

(* The collector meets the address of a captured variable only when the    *)
(* program has taken it.                                                   *)
LEMMA InnerIsRisk ==
  ASSUME VarInv, MeetsInner
  PROVE  risks # {}
<1>1. PICK a \in top + 1 .. Size - 1 : mem[a].kind = "inner"
  BY DEF MeetsInner, Scanned
<1>2. a \in 0 .. Size + 2 /\ top < a /\ IsAddress(mem[a])
  <2>1. top \in Nat /\ Size \in Nat
    BY Facts, Layout
  <2>2. a \in 0 .. Size + 2 /\ top < a
    BY <2>1
  <2> QED
    BY <1>1, <2>2 DEF IsAddress
<1>3. a <= OpsBase
  BY <1>2, Facts DEF VarInv, AddressesAmongOperands
<1>4. Accounted(mem[a], risks)
  BY <1>2, <1>3 DEF VarInv, AddressesAmongOperands
<1>5. PICK v \in uses \cap Vars : mem[a] = Reference(v) /\ (v.kind = "captured" => v \in risks)
  BY <1>4 DEF Accounted
<1>6. v.kind = "captured"
  <2>1. v \in Vars
    OBVIOUS
  <2> QED
    BY <1>1, <1>5, <2>1, ReferenceForms DEF AddressWord, Word
<1> QED
  BY <1>5, <1>6

LEMMA StopKeeps ==
  ASSUME VarInv, UNCHANGED <<uses, checked, mem, top, captured, risks>>,
         status' \in {"running", "error", "corrupt"}, status' = "corrupt" => risks # {}
  PROVE  VarInv'
<1>1. VarTypeOK'
  BY DEF VarInv, VarTypeOK, Ops
<1>2. ControlIntact'
  BY DEF VarInv, ControlIntact
<1>3. AddressesAmongOperands'
  BY DEF VarInv, AddressesAmongOperands, Accounted, Rejects
<1>4. UndefinedOnlyAfterRisk'
  BY DEF UndefinedOnlyAfterRisk
<1> QED
  BY <1>1, <1>2, <1>3, <1>4 DEF VarInv

LEMMA AllocatesKeeps ==
  ASSUME VarInv, NEW op, NEW vs, NEW w, KnownWord(w, risks), Allocates(op, vs, w),
         UNCHANGED <<uses, checked, risks>>
  PROVE  VarInv'
<1>1. CASE PushWords(<<w>>) /\ UNCHANGED status
  <2>1. WordsKept
    BY <1>1, PushOneKeeps
  <2> QED
    BY <2>1, KeptInv
<1>2. CASE MeetsInner /\ status' = "corrupt" /\ UNCHANGED <<mem, top, captured>>
  BY <1>2, InnerIsRisk, StopKeeps
<1> QED
  BY <1>1, <1>2 DEF Allocates

(* What holds even when a store has gone astray.                           *)
Shown == VarTypeOK /\ ControlIntact /\ UndefinedOnlyAfterRisk

Stands == Shown /\ (status # "corrupt" => VarInv)

(* Undefined behaviour leaves the words, but for one a store goes astray   *)
(* to.                                                                     *)
LEMMA UndefinedStops ==
  ASSUME VarInv, Undefined
  PROVE  Stands'
<1>1. PICK v \in uses : ~Rejects(v) /\ ~Resolves(v) /\ risks' = risks \cup ({v} \cap Strays)
  BY DEF Undefined
<1>2. UNCHANGED <<uses, checked, mem, top, captured>> /\ status' = "corrupt"
  BY DEF Undefined
<1>3. risks \subseteq risks' /\ risks' \subseteq uses
  BY <1>1, Facts
<1>4. VarTypeOK'
  BY <1>2, <1>3 DEF VarInv, VarTypeOK, Ops
<1>5. ControlIntact'
  BY <1>2, <1>3 DEF VarInv, ControlIntact
<1>6. risks' # {}
  <2>1. CASE v \in Strays
    BY <1>1, <2>1
  <2>2. CASE v \notin Strays
    <3>1. v \in Vars
      BY <2>2, Facts
    <3>2. PICK a \in Members : mem[a] # MemberAtStart(a)
      BY <1>1, <3>1 DEF Resolves, ReadFor, Members
    <3>3. a \in Control /\ AtStart(a) = MemberAtStart(a)
      BY DEF Control, AtStart
    <3> QED
      BY <1>3, <3>2, <3>3 DEF VarInv, ControlIntact
  <2> QED
    BY <2>1, <2>2
<1> QED
  BY <1>2, <1>4, <1>5, <1>6 DEF Stands, Shown, UndefinedOnlyAfterRisk

LEMMA StraysStop ==
  ASSUME VarInv, StoreAstray
  PROVE  Stands'
<1>1. PICK v \in uses :
        /\ Goes(v)
        /\ mem' = [a \in DOMAIN mem |-> IF a = Reference(v).v THEN TopWord(0) ELSE mem[a]]
        /\ risks' = risks \cup {v}
  BY DEF StoreAstray
<1>2. Ops > 0 /\ UNCHANGED <<uses, checked, top, captured>> /\ status' = "corrupt"
  BY DEF StoreAstray
<1>3. risks \subseteq risks' /\ risks' \subseteq uses /\ v \in risks'
  BY <1>1, Facts
<1>4. PICK w, p : w = TopWord(0) /\ p = Reference(v).v
  OBVIOUS
<1>5. w.kind \in Kinds
  BY <1>2, <1>4, Facts, OperandWord
<1>6. /\ DOMAIN mem' = 0 .. Size + 2
      /\ \A a \in 0 .. Size + 2 : mem'[a] = IF a = p THEN w ELSE mem[a]
  <2>1. DOMAIN mem = 0 .. Size + 2
    BY Facts
  <2> QED
    BY ONLY <1>1, <1>4, <2>1
<1>7. \A a \in 0 .. Size + 2 : mem'[a].kind \in Kinds
  BY <1>5, <1>6, Facts
<1>8. VarTypeOK'
  BY <1>2, <1>3, <1>6, <1>7 DEF VarInv, VarTypeOK, Ops, Kinds
<1>9. PICK i \in Int : v = Variable("global", i) /\ i \notin 0 .. NGlobal + 1
  BY <1>1, VariablesAssumption DEF Goes, Strays
<1>10. p = StackBegin + 1 + i /\ ~checked
  <2>1. v.kind = "global" /\ v.index = i
    BY <1>9 DEF Variable
  <2>2. p = StackBegin + 1 + i
    BY <1>4, <2>1 DEF Reference, AddressWord, Word
  <2>3. i > NGlobal \/ i < 0
    BY <1>9, Layout
  <2> QED
    BY <1>1, <2>1, <2>2, <2>3 DEF Goes, Rejects
<1>11. ControlIntact'
  <2>1. ASSUME NEW a \in Control, mem'[a] # AtStart(a)
        PROVE  Variable("global", a - StackBegin - 1) \in risks'
    <3>1. a \in 0 .. Size + 2
      BY Layout DEF Control
    <3>2. CASE a = p
      <4>1. a - StackBegin - 1 = i
        BY <1>10, <3>2, Layout
      <4> QED
        BY <1>3, <1>9, <4>1
    <3>3. CASE a # p
      <4>1. mem[a] # AtStart(a)
        BY <1>6, <2>1, <3>1, <3>3
      <4> QED
        BY <1>3, <4>1 DEF VarInv, ControlIntact
    <3> QED
      BY <3>2, <3>3
  <2>2. ~checked'
    BY <1>2, <1>10
  <2> QED
    BY <2>1, <2>2 DEF ControlIntact
<1>12. risks' # {}
  BY <1>3
<1> QED
  BY <1>2, <1>8, <1>11, <1>12 DEF Stands, Shown, UndefinedOnlyAfterRisk

LEMMA VarStep ==
  ASSUME VarInv, [VarNext]_varVars
  PROVE  VarInv' \/ Undefined \/ StoreAstray
<1>1. CASE Const
  <2>1. PushWords(<<Number>>) /\ UNCHANGED <<uses, checked, status, risks>>
    BY <1>1 DEF Const, Unhurt
  <2>2. KnownWord(Number, risks)
    BY KnownLiterals
  <2> QED
    BY <2>1, <2>2, PushOneKeeps, KeptInv
<1>2. CASE LoadVar
  <2>1. PICK v \in uses : /\ Resolves(v) /\ PushWords(<<At(Reference(v))>>)
                          /\ UNCHANGED <<uses, checked, status, risks>>
    BY <1>2 DEF LoadVar, Unhurt
  <2>2. KnownWord(At(Reference(v)), risks)
    BY <2>1, ReferenceValue DEF KnownWord, Resolves
  <2> QED
    BY <2>1, <2>2, PushOneKeeps, KeptInv
<1>3. CASE LoadAddress
  <2>1. PICK v \in uses :
          /\ Resolves(v) /\ PushWords(<<Reference(v), Reference(v)>>)
          /\ risks' = risks \cup (IF OutsideArray(v) \/ v.kind = "captured" THEN {v} ELSE {})
          /\ UNCHANGED <<uses, checked, status>>
    BY <1>3 DEF LoadAddress
  <2> QED
    BY <2>1, ReferPushes, KeptInv
<1>4. CASE DropWord
  BY <1>4, DropKeeps, KeptInv
<1>5. CASE SwapWords
  BY <1>5, SwapKeeps, KeptInv
<1>6. CASE StoreVar
  <2>1. PICK v \in uses :
          /\ Running /\ Ops > 0 /\ MayStore
          /\ Resolves(v) /\ Write(mem, Reference(v), TopWord(0))
          /\ risks' = risks \cup (IF OutsideArray(v) THEN {v} ELSE {})
          /\ UNCHANGED <<uses, checked, top, status>>
    BY <1>6 DEF StoreVar
  <2> QED
    BY <2>1, StoreKeeps, KeptInv
<1>7. CASE StoreIndirect \/ StoreAny
  <2>1. PICK k \in 1 .. 2 : ThroughWord(k)
    <3>1. 1 \in 1 .. 2 /\ 2 \in 1 .. 2
      OBVIOUS
    <3> QED
      BY <1>7, <3>1, IndirectForms
  <2>2. WordsKept
    BY <2>1, ThroughKeeps
  <2> QED
    BY <2>2, KeptInv
<1>8. CASE String
  BY <1>8, KnownLiterals, AllocatesKeeps DEF String
<1>9. CASE MakeClosure
  <2>1. PICK vs : /\ Allocates("CLOSURE", vs,
                               Word("closure", Popped([i \in DOMAIN vs |-> At(Reference(vs[i]))])))
                  /\ UNCHANGED <<uses, checked, risks>>
    BY <1>9 DEF MakeClosure
  <2>2. PICK w : w = Word("closure", Popped([i \in DOMAIN vs |-> At(Reference(vs[i]))]))
    OBVIOUS
  <2>3. KnownWord(w, risks)
    BY <2>2 DEF KnownWord, Word, Kinds, IsAddress
  <2>4. Allocates("CLOSURE", vs, w)
    BY <2>1, <2>2
  <2> QED
    BY <2>1, <2>3, <2>4, AllocatesKeeps
<1>10. CASE RejectVar
  BY <1>10, StopKeeps DEF RejectVar
<1>11. CASE UNCHANGED varVars
  <2>1. /\ UNCHANGED <<uses, checked, mem, top, captured, risks>> /\ status' = status
        /\ status \in {"running", "error", "corrupt"} /\ (status = "corrupt" => risks # {})
    BY <1>11 DEF varVars, VarInv, VarTypeOK, UndefinedOnlyAfterRisk
  <2> QED
    BY <2>1, StopKeeps
<1> QED
  BY <1>1, <1>2, <1>3, <1>4, <1>5, <1>6, <1>7, <1>8, <1>9, <1>10, <1>11 DEF VarNext

(* A corrupt machine stands still.                                         *)
LEMMA CorruptStands ==
  ASSUME Stands, status = "corrupt", [VarNext]_varVars
  PROVE  Stands' /\ UNCHANGED varVars
<1>1. ~VarNext
  BY DEF VarNext, Running, Const, LoadVar, LoadAddress, DropWord, SwapWords, StoreVar,
         StoreIndirect, StoreAny, String, MakeClosure, RejectVar, Undefined, StoreAstray
<1>2. UNCHANGED varVars
  BY <1>1
<1>3. VarTypeOK' /\ ControlIntact' /\ UndefinedOnlyAfterRisk'
  BY <1>2 DEF Stands, Shown, varVars, VarTypeOK, ControlIntact, UndefinedOnlyAfterRisk, Ops
<1>4. status' = "corrupt"
  BY <1>2 DEF varVars
<1> QED
  BY <1>2, <1>3, <1>4 DEF Stands, Shown

LEMMA StandsStep ==
  ASSUME Stands, [VarNext]_varVars
  PROVE  Stands'
<1>1. CASE status = "corrupt"
  BY <1>1, CorruptStands
<1>2. CASE status # "corrupt"
  <2>1. VarInv
    BY <1>2 DEF Stands
  <2>2. VarInv' => Stands'
    BY DEF Stands, Shown, VarInv
  <2> QED
    BY <2>1, <2>2, VarStep, UndefinedStops, StraysStop
<1> QED
  BY <1>1, <1>2

LEMMA VarInvariant == VarSpec => []Stands
<1>1. VarInit => Stands
  BY VarInitInv DEF Stands, Shown, VarInv
<1>2. Stands /\ [VarNext]_varVars => Stands'
  BY StandsStep
<1> QED
  BY <1>1, <1>2, PTL DEF VarSpec

-----------------------------------------------------------------------------
(***************************************************************************)
(* Theorems about the words                                                *)
(***************************************************************************)

(* VarTypeOK of create_reference and the instructions that go through it:  *)
(* the words are of known kinds, and the top stays in the frame.           *)
THEOREM VarTypeCorrect == VarSpec => []VarTypeOK
<1>1. Stands => VarTypeOK
  BY DEF Stands, Shown
<1> QED
  BY <1>1, VarInvariant, PTL

(* Assignments stay away from the words the machine goes by, but for those *)
(* to the one global whose index leads to the word; the check leaves two   *)
(* such indices (create_reference).                                        *)
THEOREM ControlStaysIntact == VarSpec => []ControlIntact
<1>1. Stands => ControlIntact
  BY DEF Stands, Shown
<1> QED
  BY <1>1, VarInvariant, PTL

(* Undefined behaviour of LD, ST, LDA, STI, STA, CLOSURE and of a          *)
(* collection comes of a global without a word of its own, or of the       *)
(* address of a captured variable (create_reference, visit_load_addr).     *)
THEOREM UndefinedNeedsRisk == VarSpec => []UndefinedOnlyAfterRisk
<1>1. Stands => UndefinedOnlyAfterRisk
  BY DEF Stands, Shown
<1> QED
  BY <1>1, VarInvariant, PTL

-----------------------------------------------------------------------------
(***************************************************************************)
(* The operands as names and values                                        *)
(***************************************************************************)

(* the operands that are in memory m above the top t, the last one at t + 1*)
OpsIn(m, t) == [j \in 1 .. OpsBase - t |-> Operand(m[OpsBase + 1 - j])]

OpsShown == NamedOps = OpsIn(mem, top) /\ Ops = OpsBase - top /\ Ops \in Nat

LEMMA OperandsAreShown == VarInv => OpsShown
<1> SUFFICES ASSUME VarInv PROVE OpsShown
  OBVIOUS
<1>1. Ops = OpsBase - top /\ Ops \in Nat /\ top \in Nat /\ OpsBase \in Nat
  BY Facts DEF Ops, OpsBase
<1>2. \A j \in 1 .. Ops : top + 1 + Ops - j = OpsBase + 1 - j
  BY <1>1
<1>3. NamedOps = OpsIn(mem, top)
  BY <1>1, <1>2 DEF NamedOps, OpsIn
<1> QED
  BY <1>1, <1>3 DEF OpsShown

LEMMA OpsEntries ==
  ASSUME NEW m, NEW t \in Nat, NEW n \in Nat, n = OpsBase - t
  PROVE  /\ Indexed(OpsIn(m, t), n) /\ Len(OpsIn(m, t)) = n
         /\ \A j \in 1 .. n : OpsIn(m, t)[j] = Operand(m[OpsBase + 1 - j])
<1>1. OpsIn(m, t) = [j \in 1 .. n |-> Operand(m[OpsBase + 1 - j])]
  BY DEF OpsIn
<1>2. Indexed(OpsIn(m, t), n)
  BY <1>1 DEF Indexed
<1>3. Len(OpsIn(m, t)) = n
  BY <1>2, IndexedLen
<1> QED
  BY <1>1, <1>2, <1>3

(* The operands that have their own words before and after an instruction. *)
LEMMA SameEntries ==
  ASSUME NEW m, NEW t \in Nat, t <= OpsBase, NEW l, NEW u \in Nat, u <= OpsBase,
         NEW p \in Nat, p <= OpsBase - t, p <= OpsBase - u,
         \A a \in 0 .. Size + 2 : a <= OpsBase /\ OpsBase < a + p => l[a] = m[a]
  PROVE  Repeats(OpsIn(l, u), OpsIn(m, t), 0, p)
<1>1. PICK n \in Nat, q \in Nat : n = OpsBase - t /\ q = OpsBase - u
  BY Layout
<1>2. ASSUME NEW j \in 1 .. p
      PROVE  OpsIn(l, u)[j] = OpsIn(m, t)[0 + j]
  <2>1. j \in 1 .. n /\ j \in 1 .. q /\ 0 + j = j
    BY <1>1
  <2>2. PICK a \in Nat : a = OpsBase + 1 - j
    BY <1>1, <2>1, Layout
  <2>3. a \in 0 .. Size + 2 /\ a <= OpsBase /\ OpsBase < a + p
    BY <2>2, Layout
  <2>4. l[a] = m[a]
    BY <2>3
  <2>5. OpsIn(l, u)[j] = Operand(l[a]) /\ OpsIn(m, t)[j] = Operand(m[a])
    BY <1>1, <2>1, <2>2, OpsEntries
  <2> QED
    BY <2>1, <2>4, <2>5
<1> QED
  BY <1>2 DEF Repeats

LEMMA TopOperand ==
  ASSUME VarInv, OpsShown, NEW k \in Nat, k < Ops
  PROVE  /\ Named!Top(k) = Operand(TopWord(k))
         /\ Len(NamedOps) = Ops /\ NamedOps # << >>
<1>1. PICK n \in Nat : n = Ops /\ n = OpsBase - top
  BY DEF OpsShown
<1>2. NamedOps = OpsIn(mem, top) /\ top \in Nat /\ OpsBase \in Nat
  BY Facts DEF OpsShown
<1>3. /\ Indexed(NamedOps, n) /\ Len(NamedOps) = n
      /\ \A j \in 1 .. n : NamedOps[j] = Operand(mem[OpsBase + 1 - j])
  BY <1>1, <1>2, OpsEntries
<1>4. PICK j \in 1 .. n : j = n - k
  BY <1>1
<1>5. OpsBase + 1 - j = top + 1 + k
  BY <1>1, <1>2, <1>4
<1>6. NamedOps[n - k] = Operand(TopWord(k))
  BY <1>3, <1>4, <1>5 DEF TopWord
<1>7. NamedOps # << >>
  BY <1>1, <1>3, IndexedLen
<1> QED
  BY <1>1, <1>3, <1>6, <1>7 DEF Named!Top

(* An instruction that touches nothing above the operands keeps the values.*)
LEMMA ValuesKept ==
  ASSUME VarInv, captured' = captured,
         \A a \in 0 .. Size + 2 : OpsBase < a => mem'[a] = mem[a]
  PROVE  NamedValues' = NamedValues
<1>1. ASSUME NEW u \in Vars
      PROVE  At(Reference(u))' = At(Reference(u))
  <2>1. CASE InMemory(u)
    <3>1. PICK q : q = Place(u)
      OBVIOUS
    <3>2. Reference(u) = AddressWord(q) /\ q \in OpsBase + 1 .. Size + 2
      BY <2>1, <3>1, ReferenceForms, Places
    <3>3. At(Reference(u)) = mem[q] /\ At(Reference(u))' = mem'[q]
      BY <3>2 DEF At, AddressWord, Word
    <3>4. q \in 0 .. Size + 2 /\ OpsBase < q
      BY <3>2, Layout
    <3> QED
      BY <3>3, <3>4
  <2>2. CASE ~InMemory(u)
    BY <2>2, ReferenceForms DEF At, InClosure, Word
  <2> QED
    BY <2>1, <2>2
<1> QED
  BY <1>1 DEF NamedValues

LEMMA ValueAssigned ==
  ASSUME NEW v \in Vars, NEW w,
         \A u \in Vars : At(Reference(u))' = IF u = v THEN w ELSE At(Reference(u))
  PROVE  NamedValues' = [NamedValues EXCEPT ![v] = w]
  BY DEF NamedValues

LEMMA PushShows ==
  ASSUME VarInv, OpsShown, OpsShown', NEW w, PushWords(<<w>>)
  PROVE  /\ NamedOps' = Append(NamedOps, Operand(w))
         /\ NamedValues' = NamedValues
<1> DEFINE ws == <<w>>
<1>1. Len(ws) = 1 /\ ws[1] = w /\ PushWords(ws) /\ 1 \in 1 .. 2
  OBVIOUS
<1> HIDE DEF ws
<1>2. /\ top' \in Nat /\ top' = top - 1 /\ 1 <= top /\ captured' = captured
      /\ \A a \in 0 .. Size + 2 : a > top \/ a <= top' => mem'[a] = mem[a]
      /\ \A k \in 1 .. 1 : mem'[top + 1 - k] = ws[k]
  BY <1>1, PushWrites
<1>3. PICK n \in Nat : n = Ops /\ n = OpsBase - top /\ NamedOps = OpsIn(mem, top)
  BY DEF OpsShown
<1>4. PICK q \in Nat : q = OpsBase - top' /\ NamedOps' = OpsIn(mem', top')
  BY DEF OpsShown
<1>5. top \in Nat /\ OpsBase \in Nat /\ top <= OpsBase /\ q = n + 1
  BY <1>2, <1>3, <1>4, Facts, SMTT(30)
<1>6. mem'[top] = w
  <2>1. 1 \in 1 .. 1 /\ top + 1 - 1 = top
    BY <1>5
  <2> QED
    BY <1>1, <1>2, <2>1
<1>7. Repeats(NamedOps', NamedOps, 0, n)
  <2>1. \A a \in 0 .. Size + 2 : a <= OpsBase /\ OpsBase < a + n => mem'[a] = mem[a]
    BY <1>2, <1>3, <1>5
  <2>2. n <= OpsBase - top /\ n <= OpsBase - top' /\ top' <= OpsBase
    BY <1>2, <1>3, <1>4, <1>5
  <2> QED
    BY <1>2, <1>3, <1>4, <1>5, <2>1, <2>2, SameEntries
<1>8. Indexed(NamedOps, n) /\ Indexed(NamedOps', q) /\ NamedOps'[q] = Operand(w)
  <2>1. Indexed(NamedOps, n)
    BY <1>3, <1>5, OpsEntries
  <2>2. Indexed(NamedOps', q) /\ \A j \in 1 .. q : NamedOps'[j] = Operand(mem'[OpsBase + 1 - j])
    BY <1>2, <1>4, OpsEntries
  <2>3. q \in 1 .. q /\ OpsBase + 1 - q = top
    BY <1>2, <1>4, <1>5
  <2> QED
    BY <1>6, <2>1, <2>2, <2>3
<1>9. NamedOps' = Append(NamedOps, NamedOps'[q])
  BY <1>5, <1>7, <1>8, LastAdded
<1>10. NamedValues' = NamedValues
  <2>1. \A a \in 0 .. Size + 2 : OpsBase < a => mem'[a] = mem[a]
    BY <1>2, <1>5
  <2> QED
    BY <1>2, <2>1, ValuesKept
<1> QED
  BY <1>8, <1>9, <1>10

LEMMA ReferShows ==
  ASSUME VarInv, OpsShown, OpsShown', NEW w, PushWords(<<w, w>>)
  PROVE  /\ NamedOps' = NamedOps \o <<Operand(w), Operand(w)>>
         /\ NamedValues' = NamedValues
<1> DEFINE ws == <<w, w>>
<1>1. Len(ws) = 2 /\ ws[1] = w /\ ws[2] = w /\ PushWords(ws) /\ 2 \in 1 .. 2
  OBVIOUS
<1> HIDE DEF ws
<1>2. /\ top' \in Nat /\ top' = top - 2 /\ 2 <= top /\ captured' = captured
      /\ \A a \in 0 .. Size + 2 : a > top \/ a <= top' => mem'[a] = mem[a]
      /\ \A k \in 1 .. 2 : mem'[top + 1 - k] = ws[k]
  BY <1>1, PushWrites
<1>3. PICK n \in Nat : n = Ops /\ n = OpsBase - top /\ NamedOps = OpsIn(mem, top)
  BY DEF OpsShown
<1>4. PICK r \in Nat : r = OpsBase - top' /\ NamedOps' = OpsIn(mem', top')
  BY DEF OpsShown
<1>5. top \in Nat /\ OpsBase \in Nat /\ top <= OpsBase
  BY Facts, <1>3
<1>6. PICK q \in Nat : q = n + 1 /\ r = q + 1
  BY <1>2, <1>3, <1>4, <1>5
<1>7. mem'[top] = w /\ mem'[top - 1] = w
  <2>1. 1 \in 1 .. 2 /\ 2 \in 1 .. 2 /\ top + 1 - 1 = top /\ top + 1 - 2 = top - 1
    BY <1>5
  <2> QED
    BY <1>1, <1>2, <2>1
<1>8. Repeats(NamedOps', NamedOps, 0, n)
  <2>1. \A a \in 0 .. Size + 2 : a <= OpsBase /\ OpsBase < a + n => mem'[a] = mem[a]
    BY <1>2, <1>3, <1>5
  <2>2. n <= OpsBase - top /\ n <= OpsBase - top' /\ top' <= OpsBase
    BY <1>2, <1>3, <1>4, <1>5
  <2> QED
    BY <1>2, <1>3, <1>4, <1>5, <2>1, <2>2, SameEntries
<1>9. Indexed(NamedOps, n)
  BY <1>3, <1>5, OpsEntries
<1>10. Indexed(NamedOps', r) /\ NamedOps'[q] = Operand(w) /\ NamedOps'[r] = Operand(w)
  <2>1. Indexed(NamedOps', r) /\ \A j \in 1 .. r : NamedOps'[j] = Operand(mem'[OpsBase + 1 - j])
    BY <1>2, <1>4, OpsEntries
  <2>2. /\ q \in 1 .. r /\ OpsBase + 1 - q = top
        /\ r \in 1 .. r /\ OpsBase + 1 - r = top - 1
    BY <1>2, <1>3, <1>4, <1>5, <1>6
  <2> QED
    BY <1>7, <2>1, <2>2
<1>11. NamedOps' = SubSeq(NamedOps, 1, n) \o <<NamedOps'[q], NamedOps'[r]>>
  <2>1. n <= n
    OBVIOUS
  <2> QED
    BY <1>6, <1>8, <1>9, <1>10, <2>1, TwoOver
<1>12. SubSeq(NamedOps, 1, n) = NamedOps
  <2>1. 0 \in Nat /\ 0 + n <= n /\ 0 + 1 = 1 /\ 0 + n = n
    OBVIOUS
  <2>2. Repeats(NamedOps, NamedOps, 0, n)
    BY DEF Repeats
  <2>3. NamedOps = SubSeq(NamedOps, 0 + 1, 0 + n)
    BY <1>9, <2>1, <2>2, PartOf
  <2> QED
    BY <2>1, <2>3
<1>13. NamedValues' = NamedValues
  <2>1. \A a \in 0 .. Size + 2 : OpsBase < a => mem'[a] = mem[a]
    BY <1>2, <1>5
  <2> QED
    BY <1>2, <2>1, ValuesKept
<1> QED
  BY <1>10, <1>11, <1>12, <1>13

LEMMA DropShows ==
  ASSUME VarInv, OpsShown, OpsShown', DropWord
  PROVE  /\ NamedOps # << >> /\ NamedOps' = Named!Below(1)
         /\ NamedValues' = NamedValues
<1>1. top' = top + 1 /\ Ops > 0 /\ mem' = mem /\ captured' = captured
  BY DEF DropWord
<1>2. PICK n \in Nat : n = Ops /\ n = OpsBase - top /\ NamedOps = OpsIn(mem, top)
  BY DEF OpsShown
<1>3. top \in Nat /\ top' \in Nat /\ OpsBase \in Nat /\ top' <= OpsBase
  BY <1>1, <1>2, Facts
<1>4. PICK p \in Nat : p = n - 1 /\ p = OpsBase - top'
  BY <1>1, <1>2, <1>3
<1>5. NamedOps' = OpsIn(mem', top')
  BY DEF OpsShown
<1>6. Indexed(NamedOps, n) /\ Len(NamedOps) = n /\ NamedOps # << >>
  BY <1>1, <1>2, <1>3, OpsEntries, IndexedLen
<1>7. Indexed(NamedOps', p)
  BY <1>3, <1>4, <1>5, OpsEntries
<1>8. Repeats(NamedOps', NamedOps, 0, p)
  <2>1. p <= OpsBase - top /\ p <= OpsBase - top' /\ top <= OpsBase
    BY <1>1, <1>2, <1>3, <1>4
  <2> QED
    BY <1>1, <1>2, <1>3, <1>5, <2>1, SameEntries
<1>9. NamedOps' = SubSeq(NamedOps, 1, p)
  <2>1. 0 \in Nat /\ 0 + p <= n /\ 0 + 1 = 1 /\ 0 + p = p
    BY <1>4
  <2>2. NamedOps' = SubSeq(NamedOps, 0 + 1, 0 + p)
    BY <1>6, <1>7, <1>8, <2>1, PartOf
  <2> QED
    BY <2>1, <2>2
<1>10. Named!Below(1) = SubSeq(NamedOps, 1, p)
  BY <1>4, <1>6 DEF Named!Below
<1>11. NamedValues' = NamedValues
  BY <1>1, ValuesKept
<1> QED
  BY <1>6, <1>9, <1>10, <1>11

LEMMA SwapShows ==
  ASSUME VarInv, OpsShown, OpsShown', SwapWords
  PROVE  /\ Len(NamedOps) > 1
         /\ NamedOps' = Named!Below(2) \o <<Named!Top(0), Named!Top(1)>>
         /\ NamedValues' = NamedValues
<1>1. /\ Ops > 1 /\ top' = top /\ captured' = captured
      /\ mem'[top + 1] = TopWord(1) /\ mem'[top + 2] = TopWord(0)
      /\ \A a \in 0 .. Size + 2 : a # top + 1 /\ a # top + 2 => mem'[a] = mem[a]
  BY SwapWrites
<1>2. PICK n \in Nat : n = Ops /\ n = OpsBase - top /\ NamedOps = OpsIn(mem, top)
  BY DEF OpsShown
<1>3. top \in Nat /\ OpsBase \in Nat /\ top <= OpsBase
  BY <1>2, Facts
<1>4. NamedOps' = OpsIn(mem', top)
  BY <1>1 DEF OpsShown
<1>5. PICK p \in Nat, q \in Nat : p = n - 2 /\ q = p + 1 /\ n = q + 1
  <2>1. n - 2 \in Nat /\ n - 1 \in Nat
    BY <1>1, <1>2
  <2> QED
    BY <2>1
<1>6. Indexed(NamedOps, n) /\ Len(NamedOps) = n
  BY <1>2, <1>3, OpsEntries
<1>7. Indexed(NamedOps', n) /\ NamedOps'[q] = Operand(TopWord(0)) /\ NamedOps'[n] = Operand(TopWord(1))
  <2>1. Indexed(NamedOps', n) /\ \A j \in 1 .. n : NamedOps'[j] = Operand(mem'[OpsBase + 1 - j])
    BY <1>2, <1>3, <1>4, OpsEntries
  <2>2. /\ q \in 1 .. n /\ OpsBase + 1 - q = top + 2
        /\ n \in 1 .. n /\ OpsBase + 1 - n = top + 1
    BY <1>2, <1>3, <1>5
  <2> QED
    BY <1>1, <2>1, <2>2
<1>8. Repeats(NamedOps', NamedOps, 0, p)
  <2>1. \A a \in 0 .. Size + 2 : a <= OpsBase /\ OpsBase < a + p => mem'[a] = mem[a]
    <3>1. ASSUME NEW a \in 0 .. Size + 2, OpsBase < a + p
          PROVE  a # top + 1 /\ a # top + 2
      BY <1>2, <1>3, <1>5, <3>1
    <3> QED
      BY <1>1, <3>1
  <2>2. p <= OpsBase - top
    BY <1>2, <1>5
  <2> QED
    BY <1>2, <1>3, <1>4, <2>1, <2>2, SameEntries
<1>9. NamedOps' = SubSeq(NamedOps, 1, p) \o <<NamedOps'[q], NamedOps'[n]>>
  <2>1. p <= n
    BY <1>5
  <2> QED
    BY <1>5, <1>6, <1>7, <1>8, <2>1, TwoOver
<1>10. Named!Below(2) = SubSeq(NamedOps, 1, p)
  BY <1>5, <1>6 DEF Named!Below
<1>11. Named!Top(0) = Operand(TopWord(0)) /\ Named!Top(1) = Operand(TopWord(1))
  BY <1>1, TopOperand
<1>12. NamedValues' = NamedValues
  <2>1. \A a \in 0 .. Size + 2 : OpsBase < a => mem'[a] = mem[a]
    <3>1. ASSUME NEW a \in 0 .. Size + 2, OpsBase < a
          PROVE  a # top + 1 /\ a # top + 2
      BY <1>1, <1>2, <1>3, <3>1
    <3> QED
      BY <1>1, <3>1
  <2> QED
    BY <1>1, <2>1, ValuesKept
<1>13. Len(NamedOps) > 1
  BY <1>1, <1>2, <1>6
<1> QED
  BY <1>7, <1>9, <1>10, <1>11, <1>12, <1>13

LEMMA ThroughShows ==
  ASSUME VarInv, OpsShown, OpsShown', NEW k \in 1 .. 2, ThroughWord(k)
  PROVE  /\ Len(NamedOps) > k /\ Named!Top(0).kind = "value" /\ Named!Top(k).kind = "name"
         /\ NamedValues' = [NamedValues EXCEPT ![Named!Top(k).v] = Named!Top(0).v]
         /\ NamedOps' = Append(Named!Below(k + 1), Named!Top(0))
<1>1. Ops > k /\ MayStore /\ IsAddress(TopWord(k)) /\ top' = top + k
  BY DEF ThroughWord
<1>2. \A a \in 0 .. Size + 2 :
        a <= OpsBase => mem'[a] = IF a = top + 1 + k THEN TopWord(0) ELSE mem[a]
  BY ThroughKeeps
<1>3. PICK v \in uses \cap Vars :
        /\ TopWord(k) = Reference(v)
        /\ \A u \in Vars : At(Reference(u))' = IF u = v THEN TopWord(0) ELSE At(Reference(u))
  BY ThroughKeeps
<1>4. v \in uses /\ v \in Vars
  OBVIOUS
<1>5. PICK n \in Nat : n = Ops /\ n = OpsBase - top /\ NamedOps = OpsIn(mem, top)
  BY DEF OpsShown
<1>6. top \in Nat /\ top' \in Nat /\ OpsBase \in Nat /\ top <= OpsBase /\ top' <= OpsBase
  BY <1>1, <1>5, Facts
<1>7. NamedOps' = OpsIn(mem', top')
  BY DEF OpsShown
<1>8. PICK p \in Nat, q \in Nat : p = n - (k + 1) /\ q = p + 1 /\ q = OpsBase - top'
  <2>1. n - (k + 1) \in Nat /\ n - k \in Nat /\ n - k = OpsBase - top'
    BY <1>1, <1>5, <1>6
  <2> QED
    BY <2>1
<1>9. Indexed(NamedOps, n) /\ Len(NamedOps) = n
  BY <1>5, <1>6, OpsEntries
<1>10. Named!Top(0) = Operand(TopWord(0)) /\ Named!Top(k) = Operand(TopWord(k))
  <2>1. 0 \in Nat /\ 0 < Ops /\ k \in Nat /\ k < Ops
    BY <1>1, Facts
  <2> QED
    BY <2>1, TopOperand
<1>11. /\ Named!Top(0) = [kind |-> "value", v |-> TopWord(0)]
       /\ Named!Top(k) = [kind |-> "name", v |-> v]
  BY <1>1, <1>3, <1>4, <1>10, OperandForms DEF MayStore
<1>12. Indexed(NamedOps', q) /\ NamedOps'[q] = Operand(TopWord(0))
  <2>1. Indexed(NamedOps', q) /\ \A j \in 1 .. q : NamedOps'[j] = Operand(mem'[OpsBase + 1 - j])
    <3>1. q \in Nat /\ top' \in Nat /\ q = OpsBase - top'
      BY <1>6, <1>8
    <3> QED
      BY <1>7, <3>1, OpsEntries
  <2>2. PICK a \in Nat : a = top + 1 + k
    BY <1>6
  <2>3. q \in 1 .. q /\ OpsBase + 1 - q = a /\ a <= OpsBase /\ a \in 0 .. Size + 2
    BY <1>1, <1>5, <1>6, <1>8, <2>2, Layout
  <2>4. mem'[a] = TopWord(0)
    BY <1>2, <2>2, <2>3
  <2> QED
    BY <2>1, <2>3, <2>4
<1>13. Repeats(NamedOps', NamedOps, 0, p)
  <2>1. \A a \in 0 .. Size + 2 : a <= OpsBase /\ OpsBase < a + p => mem'[a] = mem[a]
    <3>1. ASSUME NEW a \in 0 .. Size + 2, OpsBase < a + p
          PROVE  a # top + 1 + k
      BY <1>5, <1>6, <1>8, <3>1
    <3> QED
      BY <1>2, <3>1
  <2>2. p <= OpsBase - top
    BY <1>5, <1>6, <1>8
  <2>3. p <= OpsBase - top'
    <3>1. p <= q
      BY <1>8
    <3> QED
      BY <1>8, <3>1
  <2> QED
    BY <1>5, <1>6, <1>7, <2>1, <2>2, <2>3, SameEntries
<1>14. NamedOps' = Append(SubSeq(NamedOps, 1, p), NamedOps'[q])
  <2>1. p <= n
    BY <1>8
  <2> QED
    BY <1>8, <1>9, <1>12, <1>13, <2>1, OneOver
<1>15. Named!Below(k + 1) = SubSeq(NamedOps, 1, p)
  BY <1>8, <1>9 DEF Named!Below
<1>16. NamedValues' = [NamedValues EXCEPT ![v] = TopWord(0)]
  BY <1>3, <1>4, ValueAssigned
<1>17. Len(NamedOps) > k
  BY <1>1, <1>5, <1>9
<1>18. /\ Named!Top(0).kind = "value" /\ Named!Top(0).v = TopWord(0)
       /\ Named!Top(k).kind = "name" /\ Named!Top(k).v = v
  BY <1>11
<1>19. NamedValues' = [NamedValues EXCEPT ![Named!Top(k).v] = Named!Top(0).v]
  BY <1>16, <1>18, Zenon
<1>20. NamedOps' = Append(Named!Below(k + 1), Named!Top(0))
  BY <1>10, <1>12, <1>14, <1>15, Zenon
<1> QED
  BY <1>17, <1>18, <1>19, <1>20

LEMMA SameOperands ==
  ASSUME VarInv, OpsShown, OpsShown', top' = top,
         \A a \in 0 .. Size + 2 : a <= OpsBase => mem'[a] = mem[a]
  PROVE  NamedOps' = NamedOps
<1>1. PICK n \in Nat : n = OpsBase - top /\ NamedOps = OpsIn(mem, top) /\ NamedOps' = OpsIn(mem', top)
  BY DEF OpsShown
<1>2. ASSUME NEW j \in 1 .. n
      PROVE  mem'[OpsBase + 1 - j] = mem[OpsBase + 1 - j]
  <2>1. PICK a \in Nat : a = OpsBase + 1 - j
    BY <1>1, Facts
  <2>2. a \in 0 .. Size + 2 /\ a <= OpsBase
    BY <2>1, Facts, Layout
  <2> QED
    BY <2>1, <2>2
<1>3. OpsIn(mem', top) = OpsIn(mem, top)
  BY <1>1, <1>2 DEF OpsIn
<1> QED
  BY <1>1, <1>3

LEMMA SameNames ==
  ASSUME UNCHANGED <<mem, top, captured>>
  PROVE  UNCHANGED <<NamedValues, NamedOps>>
  BY DEF NamedValues, NamedOps, At, Ops, TopWord

-----------------------------------------------------------------------------
(***************************************************************************)
(* The refinement                                                          *)
(***************************************************************************)

LEMMA InitIsNamed == VarInit /\ VarInv => Named!NVInit
<1> SUFFICES ASSUME VarInit, VarInv PROVE Named!NVInit
  OBVIOUS
<1> DEFINE I == {Number} \cup {MemberAtStart(a) : a \in Members}
<1>1. ASSUME NEW v \in Vars
      PROVE  At(Reference(v)) \in I
  <2>1. CASE InMemory(v)
    <3>1. PICK p : p = Place(v)
      OBVIOUS
    <3>2. /\ Reference(v) = AddressWord(p) /\ p \in OpsBase + 1 .. Size + 2
          /\ p \notin Base .. Base + 2 /\ p # StackBegin
      BY <2>1, <3>1, ReferenceForms, Places
    <3>3. At(Reference(v)) = mem[p] /\ p \in 0 .. Size + 2
      BY <3>2, Layout DEF At, AddressWord, Word
    <3>4. mem[p] = IF p \in Members THEN MemberAtStart(p) ELSE Number
      BY <3>2, <3>3, InitialWords
    <3> QED
      BY <3>3, <3>4
  <2>2. CASE ~InMemory(v)
    <3>1. PICK p : p = Place(v)
      OBVIOUS
    <3>2. Reference(v) = InClosure(p) /\ p \in 0 .. NCaptured - 1
      BY <2>2, <3>1, ReferenceForms, Places
    <3>3. At(Reference(v)) = captured[p]
      BY <3>2 DEF At, InClosure, Word
    <3>4. captured[p] = Number
      BY <3>2 DEF VarInit
    <3> QED
      BY <3>3, <3>4
  <2> QED
    BY <2>1, <2>2
<1> HIDE DEF I
<1>2. NamedValues \in [Vars -> I]
  BY <1>1 DEF NamedValues
<1>3. NamedOps = << >>
  <2>1. top = TopAtStart
    BY DEF VarInit
  <2>2. Ops = 0
    BY <2>1, Layout DEF Ops, TopAtStart
  <2> QED
    BY <2>2 DEF NamedOps
<1>4. ins = Instr("BEGIN", << >>)
  BY DEF VarInit
<1> QED
  BY <1>2, <1>3, <1>4 DEF Named!NVInit, Named!Instr, Instr, I

LEMMA StepIsNamed ==
  ASSUME VarInv, OpsShown, [VarNext]_varVars, status' = "corrupt" \/ OpsShown'
  PROVE  status' = "corrupt" \/ [Named!NVNext]_Named!nvVars
<1> SUFFICES ASSUME status' # "corrupt", OpsShown'
             PROVE  [Named!NVNext]_Named!nvVars
  OBVIOUS
<1>1. CASE Const
  <2>1. PushWords(<<Number>>) /\ ins' = Instr("CONST", << >>)
    BY <1>1 DEF Const
  <2>2. NamedOps' = Append(NamedOps, Operand(Number)) /\ NamedValues' = NamedValues
    BY <2>1, PushShows
  <2>3. Operand(Number) = Named!Value(Number)
    BY OperandForms DEF Number, Word, IsAddress, Named!Value
  <2>4. Named!Literal
    BY <2>1, <2>2, <2>3 DEF Named!Literal, Named!Instr, Instr
  <2> QED
    BY <2>4 DEF Named!NVNext
<1>2. CASE LoadVar
  <2>1. PICK v \in uses : /\ Resolves(v) /\ PushWords(<<At(Reference(v))>>)
                          /\ ins' = Instr("LD", <<v>>)
    BY <1>2 DEF LoadVar
  <2>2. v \in Vars
    BY <2>1 DEF Resolves
  <2>3. PICK w : w = At(Reference(v))
    OBVIOUS
  <2>4. ~IsAddress(w) /\ NamedValues[v] = w
    BY <2>2, <2>3, ReferenceValue DEF NamedValues
  <2>5. NamedOps' = Append(NamedOps, Operand(w)) /\ NamedValues' = NamedValues
    BY <2>1, <2>3, PushShows
  <2>6. Operand(w) = Named!Value(NamedValues[v])
    BY <2>4, OperandForms DEF Named!Value
  <2>7. Named!Load
    BY <2>1, <2>2, <2>5, <2>6 DEF Named!Load, Named!Instr, Instr
  <2> QED
    BY <2>7 DEF Named!NVNext
<1>3. CASE LoadAddress
  <2>1. PICK v \in uses : /\ Resolves(v) /\ PushWords(<<Reference(v), Reference(v)>>)
                          /\ ins' = Instr("LDA", <<v>>)
    BY <1>3 DEF LoadAddress
  <2>2. v \in Vars
    BY <2>1 DEF Resolves
  <2>3. /\ NamedOps' = NamedOps \o <<Operand(Reference(v)), Operand(Reference(v))>>
        /\ NamedValues' = NamedValues
    BY <2>1, ReferShows
  <2>4. Operand(Reference(v)) = Named!Name(v)
    BY <2>2, OperandForms DEF Named!Name
  <2>5. Named!Refer
    BY <2>1, <2>2, <2>3, <2>4 DEF Named!Refer, Named!Instr, Instr
  <2> QED
    BY <2>5 DEF Named!NVNext
<1>4. CASE DropWord
  <2>1. ins' = Instr("DROP", << >>)
    BY <1>4 DEF DropWord
  <2>2. Named!Drop
    BY <1>4, <2>1, DropShows DEF Named!Drop, Named!Instr, Instr
  <2> QED
    BY <2>2 DEF Named!NVNext
<1>5. CASE SwapWords
  <2>1. ins' = Instr("SWAP", << >>)
    BY <1>5 DEF SwapWords
  <2>2. Named!Swap
    BY <1>5, <2>1, SwapShows DEF Named!Swap, Named!Instr, Instr
  <2> QED
    BY <2>2 DEF Named!NVNext
<1>6. CASE StoreVar
  <2>1. PICK v \in uses :
          /\ Running /\ Ops > 0 /\ MayStore
          /\ Resolves(v) /\ Write(mem, Reference(v), TopWord(0))
          /\ risks' = risks \cup (IF OutsideArray(v) THEN {v} ELSE {})
          /\ UNCHANGED <<uses, checked, top, status>>
          /\ ins' = Instr("ST", <<v>>)
    BY <1>6 DEF StoreVar
  <2>2. v \in Vars
    BY <2>1 DEF Resolves
  <2>3. /\ \A a \in 0 .. Size + 2 : a <= OpsBase => mem'[a] = mem[a]
        /\ \A u \in Vars : At(Reference(u))' = IF u = v THEN TopWord(0) ELSE At(Reference(u))
    BY <2>1, StoreKeeps
  <2>4. Named!Top(0) = Operand(TopWord(0)) /\ NamedOps # << >>
    BY <2>1, TopOperand
  <2>5. Named!Top(0).kind = "value" /\ Named!Top(0).v = TopWord(0)
    BY <2>1, <2>4, OperandForms DEF MayStore
  <2>6. NamedValues' = [NamedValues EXCEPT ![v] = Named!Top(0).v]
    BY <2>2, <2>3, <2>5, ValueAssigned, Zenon
  <2>7. NamedOps' = NamedOps
    BY <2>1, <2>3, SameOperands
  <2>8. Named!Store
    BY <2>1, <2>2, <2>4, <2>5, <2>6, <2>7 DEF Named!Store, Named!Instr, Instr
  <2> QED
    BY <2>8 DEF Named!NVNext
<1>7. CASE StoreIndirect
  <2>1. ThroughWord(1) /\ 1 \in 1 .. 2
    BY <1>7, IndirectForms
  <2>2. ins' = Instr("STI", << >>)
    BY <1>7 DEF StoreIndirect
  <2>3. Named!AssignThrough("STI", 1)
    BY <2>1, <2>2, ThroughShows DEF Named!AssignThrough, Named!Instr, Instr
  <2> QED
    BY <2>3 DEF Named!NVNext
<1>8. CASE StoreAny
  <2>1. ThroughWord(2) /\ 2 \in 1 .. 2
    BY <1>8, IndirectForms
  <2>2. ins' = Instr("STA", << >>)
    BY <1>8 DEF StoreAny
  <2>3. Named!AssignThrough("STA", 2)
    BY <2>1, <2>2, ThroughShows DEF Named!AssignThrough, Named!Instr, Instr
  <2> QED
    BY <2>3 DEF Named!NVNext
<1>9. CASE String
  <2>1. CASE PushWords(<<Text>>) /\ ins' = Instr("CONST", << >>)
    <3>1. NamedOps' = Append(NamedOps, Operand(Text)) /\ NamedValues' = NamedValues
      BY <2>1, PushShows
    <3>2. Operand(Text) = Named!Value(Text)
      BY OperandForms DEF Text, Word, IsAddress, Named!Value
    <3>3. Named!Literal
      BY <2>1, <3>1, <3>2 DEF Named!Literal, Named!Instr, Instr
    <3> QED
      BY <3>3 DEF Named!NVNext
  <2>2. CASE UNCHANGED <<mem, top, captured, ins>>
    BY <2>2, SameNames DEF Named!nvVars
  <2> QED
    BY <1>9, <2>1, <2>2 DEF String, Allocates
<1>10. CASE MakeClosure
  <2>1. PICK vs \in UNION {[1 .. n -> uses] : n \in 0 .. 2} :
          /\ \A i \in DOMAIN vs : Resolves(vs[i])
          /\ Allocates("CLOSURE", vs,
               Word("closure", Popped([i \in DOMAIN vs |-> At(Reference(vs[i]))])))
    BY <1>10 DEF MakeClosure
  <2>2. PICK n \in 0 .. 2 : vs \in [1 .. n -> uses]
    BY <2>1
  <2>3. vs \in UNION {[1 .. k -> Vars] : k \in 0 .. 2}
    <3>1. vs \in [1 .. n -> Vars]
      BY <2>1, <2>2 DEF Resolves
    <3> QED
      BY <3>1
  <2>4. PICK ws : ws = [i \in DOMAIN vs |-> At(Reference(vs[i]))]
    OBVIOUS
  <2>5. Popped(ws) = ws
    <3>1. n \in Nat /\ ws = [i \in 1 .. n |-> ws[i]]
      BY <2>2, <2>4
    <3> QED
      BY <3>1, PoppedWords
  <2>6. ws = [i \in DOMAIN vs |-> NamedValues[vs[i]]]
    <3>1. \A i \in DOMAIN vs : NamedValues[vs[i]] = At(Reference(vs[i]))
      BY <2>1, <2>2 DEF NamedValues, Resolves
    <3> QED
      BY <2>4, <3>1
  <2>7. PICK w : w = Word("closure", ws)
    OBVIOUS
  <2>8. Allocates("CLOSURE", vs, w)
    BY <2>1, <2>4, <2>5, <2>7
  <2>9. CASE PushWords(<<w>>) /\ ins' = Instr("CLOSURE", vs)
    <3>1. NamedOps' = Append(NamedOps, Operand(w)) /\ NamedValues' = NamedValues
      BY <2>9, PushShows
    <3>2. Operand(w) = Named!Value(w)
      BY <2>7, OperandForms DEF Word, IsAddress, Named!Value
    <3>3. w = [kind |-> "closure", v |-> [i \in DOMAIN vs |-> NamedValues[vs[i]]]]
      BY <2>6, <2>7 DEF Word
    <3>4. Named!Capture
      BY <2>3, <2>9, <3>1, <3>2, <3>3 DEF Named!Capture, Named!Instr, Instr
    <3> QED
      BY <3>4 DEF Named!NVNext
  <2>10. CASE UNCHANGED <<mem, top, captured, ins>>
    BY <2>10, SameNames DEF Named!nvVars
  <2> QED
    BY <2>8, <2>9, <2>10 DEF Allocates
<1>11. CASE RejectVar \/ Undefined \/ StoreAstray \/ UNCHANGED varVars
  <2>1. UNCHANGED <<mem, top, captured, ins>>
    BY <1>11 DEF RejectVar, Undefined, StoreAstray, varVars
  <2> QED
    BY <2>1, SameNames DEF Named!nvVars
<1> QED
  BY <1>1, <1>2, <1>3, <1>4, <1>5, <1>6, <1>7, <1>8, <1>9, <1>10, <1>11 DEF VarNext

(* The words of create_reference, read_reference, write_reference and of   *)
(* the instructions that use them implement variables that have names and  *)
(* values of their own.                                                    *)
THEOREM WordsImplementVariables == VarSpec => ImplementsVariables
<1>1. VarInit => VarInv
  BY VarInitInv
<1>2. VarInit /\ VarInv => Named!NVInit
  BY InitIsNamed
<1>3. Stands /\ Stands' /\ [VarNext]_varVars =>
        [status' = "corrupt" \/ Named!NVNext]_(Named!nvVars)
  <2> SUFFICES ASSUME Stands, Stands', [VarNext]_varVars
               PROVE  [status' = "corrupt" \/ Named!NVNext]_(Named!nvVars)
    OBVIOUS
  <2>1. CASE status = "corrupt"
    <3>1. status' = "corrupt"
      BY <2>1, CorruptStands DEF varVars
    <3> QED
      BY <3>1
  <2>2. CASE status # "corrupt"
    <3>1. VarInv /\ OpsShown
      BY <2>2, OperandsAreShown DEF Stands
    <3>2. status' = "corrupt" \/ VarInv'
      BY DEF Stands
    <3>3. (VarInv => OpsShown)'
      BY OperandsAreShown, PTL
    <3> QED
      BY <3>1, <3>2, <3>3, StepIsNamed
  <2> QED
    BY <2>1, <2>2
<1> QED
  BY <1>1, <1>2, <1>3, VarInvariant, PTL DEF VarSpec, ImplementsVariables
=============================================================================
