--------------------------- MODULE VerifierProofs ---------------------------
(***************************************************************************)
(* What the bytecode verifier guarantees, for every set of programs: type  *)
(* correctness, soundness of the walk (WalkClosed), one depth per join     *)
(* (JoinDepthUnique), that no program with a typing is rejected, the       *)
(* addresses that jumps and calls lead to (IncomingExact), one depth for   *)
(* every instruction of a disciplined program (DepthUnique), and for every *)
(* depth of the walk some public function whose record covers it           *)
(* (MaxStackCovers), its own where there is no other (OwnStackCovers).     *)
(*                                                                         *)
(* And what acceptance means for the unchecked interpreter.  While no call *)
(* has miscounted and no closure's body has made one, END takes from every *)
(* caller what its CALL or CALLC declares (CallsMatch).  A frame of a      *)
(* public function is at an address of the walk, and while calls match at  *)
(* the walked depth (FrameWalked), so that it stays in the code and takes  *)
(* only operands it has, apart from the two exceptions of                  *)
(* VerifiedFrameSafe, and the stack its BEGIN has reserved is enough where *)
(* the walk loses no maximum.                                              *)
(***************************************************************************)
EXTENDS VerifiedRun, BasicFacts

-----------------------------------------------------------------------------
(***************************************************************************)
(* Type correctness                                                        *)
(***************************************************************************)

(* The declared effect is a number, whatever the count wraps to.           *)
LEMMA DeclaredInt ==
  ASSUME NEW i \in Instr
  PROVE  DeclaredChange(i) \in Int /\ DeclaredNeed(i) \in Int
<1>1. i.n \in Nat
  BY DEF Instr
<1>2. \A x \in Int : I8(x) \in Int
  BY DEF I8
<1>3. I8(1 - i.n) \in Int /\ I8(-i.n) \in Int /\ I8(i.n) \in Int
  BY <1>1, <1>2
<1>4. DeclaredChange(i) \in Int
  BY <1>3 DEF DeclaredChange
<1>5. DeclaredNeed(i) \in Int
  BY <1>3 DEF DeclaredNeed
<1> QED
  BY <1>4, <1>5

(* The program never changes, and stays well-formed.                       *)
LEMMA ProgramTypes ==
  ASSUME WellFormed(prog)
  PROVE  /\ prog.len \in Nat \ {0}
         /\ CodeEnd(prog) = prog.len
         /\ Address(prog) = 0 .. prog.len - 1
         /\ \A a \in Address(prog) :
              /\ Code[a] \in Instr
              /\ Code[a].op \in {"JMP", "CJMP"} => Code[a].to \in Address(prog)
              /\ DecodeOk(Code, a) /\ Code[a].op = "CALL" => Code[a].to \in Address(prog)
         /\ Len(prog.pub) \in Nat
         /\ DOMAIN prog.pub = 1 .. Len(prog.pub)
         /\ \A k \in DOMAIN prog.pub : prog.pub[k] \in Address(prog)
<1>1. prog.pub \in Seq(Address(prog))
  BY DEF WellFormed
<1>2. /\ Len(prog.pub) \in Nat
      /\ DOMAIN prog.pub = 1 .. Len(prog.pub)
      /\ \A k \in DOMAIN prog.pub : prog.pub[k] \in Address(prog)
  BY <1>1, LenProperties, ElementOfSeq
<1>3. Code \in [Address(prog) -> Instr] /\ DOMAIN Code = Address(prog)
  BY DEF WellFormed, Code
<1>4. \A a \in Address(prog) :
        /\ Code[a] \in Instr
        /\ Code[a].op \in {"JMP", "CJMP"} => Code[a].to \in Address(prog)
        /\ DecodeOk(Code, a) /\ Code[a].op = "CALL" => Code[a].to \in Address(prog)
  BY <1>3 DEF WellFormed, Code, DecodeOk
<1> QED
  BY <1>2, <1>4 DEF WellFormed, CodeEnd, Address

Table == [Address(prog) -> Nat \cup {None}]

(* What one successful iteration of check_depth computes from the tracker  *)
(* it pops has the types its next state needs.                             *)
LEMMA WalkTypes ==
  ASSUME TypeOK, work # << >>, Passes(Last(work)),
         NEW t, t = Last(work), NEW i, i = Code[t.ip]
  PROVE  /\ t \in Trackers /\ t.ip \in Address(prog) /\ t.ip + 1 \in 0 .. CodeEnd(prog)
         /\ i \in Instr
         /\ DeclaredKind(i) \in {"JMP", "CJMP"} => i.to \in Address(prog)
         /\ NewDepth(t) \in Nat
         /\ NewDepth(t) = t.depth + DeclaredChange(i)
         /\ RegisteredHere(t) \in Table
         /\ \A a \in 0 .. CodeEnd(prog) :
              /\ Follow(t, a) \in Trackers
              /\ Follow(t, a).ip = a
              /\ Follow(t, a).depth = NewDepth(t)
         /\ Front(work) \in Seq(Trackers)
         /\ ToSet(work) = ToSet(Front(work)) \cup {t}
<1>1. WellFormed(prog) /\ work \in Seq(Trackers)
  BY DEF TypeOK
<1>2. /\ t \in Trackers /\ Front(work) \in Seq(Trackers)
      /\ ToSet(work) = ToSet(Front(work)) \cup {t}
  BY <1>1, PopSeq
<1>3. /\ t.ip \in 0 .. CodeEnd(prog) /\ t.depth \in Nat /\ t.max \in Nat
      /\ t.fn \in Address(prog)
  BY <1>2 DEF Trackers
<1>4. t.ip < CodeEnd(prog) /\ NewDepth(t) >= 0
  BY DEF Passes, Decodes, DepthFits
<1>5. t.ip \in Address(prog) /\ t.ip + 1 \in 0 .. CodeEnd(prog)
  BY <1>1, <1>3, <1>4, ProgramTypes
<1>6. i \in Instr
  BY <1>1, <1>5, ProgramTypes
<1>7. DeclaredKind(i) \in {"JMP", "CJMP"} => i.op \in {"JMP", "CJMP"}
  BY DEF DeclaredKind
<1>8. DeclaredKind(i) \in {"JMP", "CJMP"} => i.to \in Address(prog)
  BY <1>1, <1>5, <1>7, ProgramTypes
<1>9. NewDepth(t) = t.depth + DeclaredChange(i)
  BY DEF NewDepth
<1>10. NewDepth(t) \in Nat
  BY <1>3, <1>4, <1>6, <1>9, DeclaredInt
<1>11. RegisteredHere(t) \in Table
  BY <1>3, <1>5 DEF RegisteredHere, Register, Table, TypeOK
<1>12. ASSUME NEW a \in 0 .. CodeEnd(prog)
       PROVE  /\ Follow(t, a) \in Trackers
              /\ Follow(t, a).ip = a
              /\ Follow(t, a).depth = NewDepth(t)
  <2>1. Maximum(t.max, NewDepth(t)) \in Nat
    BY <1>3, <1>10 DEF Maximum
  <2> QED
    BY <1>3, <1>10, <2>1 DEF Follow, Tracker, Trackers
<1> QED
  BY <1>2, <1>5, <1>6, <1>8, <1>9, <1>10, <1>11, <1>12

(* The work a jump adds: a tracker for its target unless it was visited.   *)
LEMMA JumpTypes ==
  ASSUME TypeOK, work # << >>, Passes(Last(work)),
         NEW t, t = Last(work), DeclaredKind(Code[t.ip]) \in {"JMP", "CJMP"}
  PROVE  /\ Front(work) \o JumpWork(t) \in Seq(Trackers)
         /\ ToSet(Front(work) \o JumpWork(t)) =
              ToSet(Front(work)) \cup
                (IF Code[t.ip].to \in visited THEN {} ELSE {Follow(t, Code[t.ip].to)})
         /\ Register(RegisteredHere(t), Code[t.ip].to, NewDepth(t)) \in Table
<1> DEFINE to == Code[t.ip].to
<1>1. /\ to \in Address(prog) /\ NewDepth(t) \in Nat
      /\ Front(work) \in Seq(Trackers) /\ RegisteredHere(t) \in Table
  BY WalkTypes
<1>2. Follow(t, to) \in Trackers
  <2>1. to \in 0 .. CodeEnd(prog)
    BY <1>1, ProgramTypes DEF TypeOK
  <2> QED
    BY <2>1, WalkTypes
<1>3. /\ JumpWork(t) \in Seq(Trackers)
      /\ ToSet(JumpWork(t)) = IF to \in visited THEN {} ELSE {Follow(t, to)}
  BY <1>2, ShortSeq, Zenon DEF JumpWork
<1>4. Register(RegisteredHere(t), to, NewDepth(t)) \in Table
  BY <1>1 DEF Register, Table
<1>5. /\ Front(work) \o JumpWork(t) \in Seq(Trackers)
      /\ ToSet(Front(work) \o JumpWork(t)) = ToSet(Front(work)) \cup ToSet(JumpWork(t))
  <2>1. Front(work) \in Seq(Trackers)
    BY <1>1
  <2>2. JumpWork(t) \in Seq(Trackers)
    BY <1>3
  <2> QED
    BY <2>1, <2>2, PushSeq
<1> QED
  BY <1>3, <1>4, <1>5, Zenon

(* The initial states have the types: the only program data they hold is   *)
(* one of Programs, which are well-formed.                                 *)
THEOREM TypeInit == Init => TypeOK
<1> SUFFICES ASSUME Init PROVE TypeOK
  OBVIOUS
<1>1. WellFormed(prog)
  BY ProgramsAssumption DEF Init
<1>2. prog.len \in Nat \ {0} /\ Len(prog.pub) \in Nat
  BY <1>1, ProgramTypes
<1>3. gstack \in Seq(0 .. CodeEnd(prog)) /\ work \in Seq(Trackers)
  BY ShortSeq DEF Init
<1> QED
  BY <1>1, <1>2, <1>3 DEF Init, TypeOK, Address, CodeEnd, None

(* The two passes change no program.                                       *)
LEMMA ProgramUnchanged ==
  ASSUME UNCHANGED prog
  PROVE  /\ Address(prog)' = Address(prog) /\ CodeEnd(prog)' = CodeEnd(prog)
         /\ Code' = Code /\ Trackers' = Trackers /\ Entries' = Entries
         /\ Table' = Table
         /\ WellFormed(prog) <=> WellFormed(prog)'
  BY DEF Address, CodeEnd, Code, Trackers, Entries, Table, WellFormed

(* One iteration of gather_incoming_cf keeps the types.                    *)
LEMMA GatherKeepsTypes ==
  ASSUME TypeOK, GatherEntry \/ Gather \/ GatherReject \/ GatherDone
  PROVE  TypeOK'
<1>1. UNCHANGED prog
  BY DEF GatherEntry, Gather, GatherReject, GatherDone
<1>2. /\ WellFormed(prog) /\ gstack \in Seq(0 .. CodeEnd(prog)) /\ CodeEnd(prog) \in Nat
      /\ Address(prog) = 0 .. CodeEnd(prog) - 1 /\ WellFormed(prog)'
  BY <1>1, ProgramTypes, ProgramUnchanged DEF TypeOK
<1>3. CASE GatherEntry
  <2> DEFINE a == prog.pub[entries + 1]
             new == PushIfNotVisited(a)
  <2>1. a \in 0 .. CodeEnd(prog) /\ entries + 1 \in 0 .. Len(prog.pub)
    BY <1>2, <1>3, ProgramTypes DEF TypeOK, GatherEntry
  <2>2. new \in Seq(0 .. CodeEnd(prog)) /\ ToSet(new) \subseteq 0 .. CodeEnd(prog)
    BY <2>1, ShortSeq DEF PushIfNotVisited
  <2>3. gstack \o new \in Seq(0 .. CodeEnd(prog))
    BY <1>2, <2>2, PushSeq
  <2> QED
    BY <1>1, <1>2, <1>3, <2>1, <2>2, <2>3, ProgramUnchanged
    DEF TypeOK, GatherEntry, depthVars
<1>4. CASE Gather
  <2> DEFINE a == Last(gstack)
  <2>1. a \in Address(prog) /\ a + 1 \in 0 .. CodeEnd(prog) /\ DecodeOk(Code, a)
    <3>1. /\ gstack # << >> /\ Last(gstack) < CodeEnd(prog)
          /\ DecodeOk(Code, Last(gstack))
      BY <1>4 DEF Gather
    <3>2. a \in 0 .. CodeEnd(prog)
      BY <1>2, <3>1, PopSeq
    <3> QED
      BY <1>2, <3>1, <3>2
  <2>2. JumpTargets(Code[a]) \subseteq Address(prog)
    BY <1>2, <2>1, ProgramTypes DEF JumpTargets
  <2>3. JumpTargets(Code[a]) # {} => Code[a].to \in 0 .. CodeEnd(prog)
    BY <1>2, <2>2 DEF JumpTargets
  <2>4. JumpPush(a) \in Seq(0 .. CodeEnd(prog)) /\ ToSet(JumpPush(a)) \subseteq 0 .. CodeEnd(prog)
    BY <2>3, ShortSeq DEF JumpPush, PushIfNotVisited
  <2>5. PICK seen \in NextSeen(a) :
          LET new == JumpPush(a) \o NextPush(a, seen)
          IN  /\ gstack' = Front(gstack) \o new
              /\ gvisited' = gvisited \cup ToSet(new)
    BY <1>4 DEF Gather
  <2>6. /\ NextPush(a, seen) \in Seq(0 .. CodeEnd(prog))
        /\ ToSet(NextPush(a, seen)) \subseteq 0 .. CodeEnd(prog)
    BY <2>1, ShortSeq DEF NextPush
  <2> DEFINE new == JumpPush(a) \o NextPush(a, seen)
  <2>7. new \in Seq(0 .. CodeEnd(prog)) /\ ToSet(new) \subseteq 0 .. CodeEnd(prog)
    BY <2>4, <2>6, PushSeq
  <2>8. Front(gstack) \in Seq(0 .. CodeEnd(prog))
    BY <1>2, <1>4, PopSeq DEF Gather
  <2>9. Front(gstack) \o new \in Seq(0 .. CodeEnd(prog))
    BY <2>7, <2>8, PushSeq
  <2>10. incoming' = incoming \cup JumpTargets(Code[a])
    BY <1>4 DEF Gather
  <2> QED
    BY <1>1, <1>2, <1>4, <2>2, <2>5, <2>7, <2>9, <2>10, ProgramUnchanged
    DEF TypeOK, Gather, depthVars
<1>5. CASE GatherReject
  BY <1>1, <1>5, ProgramUnchanged
  DEF TypeOK, GatherReject, Verdicts, gatherVars, depthVars
<1>6. CASE GatherDone
  <2>1. ASSUME NEW k \in DOMAIN prog.pub
        PROVE  Tracker(prog.pub[k], prog.pub[k], 0, 0) \in Trackers
    BY <1>2, ProgramTypes DEF Tracker, Trackers
  <2>2. work' \in Seq(Trackers)
    <3>1. /\ DOMAIN prog.pub = 1 .. Len(prog.pub) /\ Len(prog.pub) \in Nat
          /\ work' = [k \in DOMAIN prog.pub |-> Tracker(prog.pub[k], prog.pub[k], 0, 0)]
      BY <1>2, <1>6, ProgramTypes DEF GatherDone
    <3>2. work' \in [1 .. Len(prog.pub) -> Trackers]
      BY <2>1, <3>1
    <3> QED
      BY <3>1, <3>2, SeqDef
  <2> QED
    BY <1>1, <1>2, <1>6, <2>2, ProgramUnchanged DEF TypeOK, GatherDone, gatherVars
<1> QED
  BY <1>3, <1>4, <1>5, <1>6

(* One iteration of check_depth keeps the types.                           *)
LEMMA WalkKeepsTypes ==
  ASSUME TypeOK,
         WalkJmp \/ WalkCjmp \/ WalkEnd \/ WalkOther \/ WalkFail \/ WalkReject \/ WalkDone
  PROVE  TypeOK'
<1> DEFINE t == Last(work)
           to == Code[t.ip].to
<1>1. UNCHANGED <<prog, gatherVars>>
  BY DEF WalkJmp, WalkCjmp, WalkEnd, WalkOther, WalkFail, WalkReject, WalkDone, Walk
<1>2. CASE WalkReject \/ WalkDone
  BY <1>1, <1>2, ProgramUnchanged
  DEF TypeOK, WalkReject, WalkDone, Verdicts, gatherVars, depthVars
<1>3. ASSUME NEW kind, Walk(kind)
      PROVE  /\ work # << >> /\ Passes(t) /\ DeclaredKind(Code[t.ip]) = kind
             /\ UNCHANGED phase
             /\ walked' \subseteq Address(prog) \X Nat
  <2>1. work # << >> /\ Passes(t) /\ walked' = walked \cup {<<t.ip, t.depth>>}
    BY <1>3 DEF Walk
  <2>2. t.ip \in Address(prog) /\ t \in Trackers
    BY <2>1, WalkTypes
  <2>3. t.depth \in Nat
    BY <2>2 DEF Trackers
  <2> QED
    BY <1>3, <2>1, <2>2, <2>3 DEF Walk, TypeOK
<1>4. SUFFICES ASSUME ~(WalkReject \/ WalkDone)
               PROVE  /\ work' \in Seq(Trackers)
                      /\ visited' \subseteq Address(prog)
                      /\ registered' \in Table
                      /\ maxStack' \in [Address(prog) -> Nat]
  <2>0. ~(WalkReject \/ WalkDone) => \E kind : Walk(kind)
    BY Zenon DEF WalkJmp, WalkCjmp, WalkEnd, WalkOther, WalkFail
  <2>1. ~(WalkReject \/ WalkDone) =>
          UNCHANGED phase /\ walked' \subseteq Address(prog) \X Nat
    BY <1>3, <2>0
  <2>2. CASE WalkReject \/ WalkDone
    BY <1>2, <2>2
  <2>3. CASE ~(WalkReject \/ WalkDone)
    BY <1>1, <1>4, <2>1, <2>3, ProgramUnchanged DEF TypeOK, Table, gatherVars
  <2> QED
    BY <2>2, <2>3
<1>5. /\ visited \subseteq Address(prog) /\ maxStack \in [Address(prog) -> Nat]
  BY DEF TypeOK
<1>6. CASE WalkJmp
  <2>1. work # << >> /\ Passes(t) /\ DeclaredKind(Code[t.ip]) = "JMP"
    BY <1>3, <1>6 DEF WalkJmp
  <2>2. /\ Front(work) \o JumpWork(t) \in Seq(Trackers) /\ to \in Address(prog)
        /\ Register(RegisteredHere(t), to, NewDepth(t)) \in Table
    BY <2>1, WalkTypes, JumpTypes
  <2> QED
    BY <1>5, <1>6, <2>2 DEF WalkJmp
<1>7. CASE WalkCjmp
  <2>1. work # << >> /\ Passes(t) /\ DeclaredKind(Code[t.ip]) = "CJMP"
    BY <1>3, <1>7 DEF WalkCjmp
  <2>2. /\ Front(work) \o JumpWork(t) \in Seq(Trackers) /\ to \in Address(prog)
        /\ Register(RegisteredHere(t), to, NewDepth(t)) \in Table
    BY <2>1, WalkTypes, JumpTypes
  <2>3. <<Follow(t, t.ip + 1)>> \in Seq(Trackers)
    <3>1. Follow(t, t.ip + 1) \in Trackers
      BY <2>1, WalkTypes
    <3> QED
      BY <3>1, ShortSeq, Zenon
  <2>4. Front(work) \o JumpWork(t) \o <<Follow(t, t.ip + 1)>> \in Seq(Trackers)
    BY <2>2, <2>3, PushSeq, Zenon
  <2> QED
    BY <1>5, <1>7, <2>2, <2>4 DEF WalkCjmp
<1>8. CASE WalkEnd
  <2>1. work # << >> /\ Passes(t)
    BY <1>3, <1>8 DEF WalkEnd
  <2>2. t \in Trackers /\ Front(work) \in Seq(Trackers) /\ RegisteredHere(t) \in Table
    BY <2>1, WalkTypes
  <2>3. maxStack' \in [Address(prog) -> Nat]
    <3>1. t.fn \in Address(prog) /\ t.max \in Nat
      BY <2>2 DEF Trackers
    <3> QED
      BY <1>5, <1>8, <3>1 DEF WalkEnd, Maximum
  <2> QED
    BY <1>5, <1>8, <2>2, <2>3 DEF WalkEnd
<1>9. CASE WalkOther
  <2>1. work # << >> /\ Passes(t)
    BY <1>3, <1>9 DEF WalkOther
  <2>2. /\ Follow(t, t.ip + 1) \in Trackers
        /\ Front(work) \in Seq(Trackers) /\ RegisteredHere(t) \in Table
    BY <2>1, WalkTypes
  <2>3. Append(Front(work), Follow(t, t.ip + 1)) \in Seq(Trackers)
    BY <2>2, AppendSeq, Zenon
  <2> QED
    BY <1>5, <1>9, <2>2, <2>3 DEF WalkOther
<1>10. CASE WalkFail
  <2>1. work # << >> /\ Passes(t)
    BY <1>3, <1>10 DEF WalkFail
  <2>2. Front(work) \in Seq(Trackers) /\ RegisteredHere(t) \in Table
    BY <2>1, WalkTypes
  <2> QED
    BY <1>5, <1>10, <2>2 DEF WalkFail
<1> QED
  BY <1>4, <1>6, <1>7, <1>8, <1>9, <1>10

(* Every variable keeps its type, for every set of well-formed programs.   *)
THEOREM TypeCorrect == Safety => []TypeOK
<1>1. TypeOK /\ [Next]_vars => TypeOK'
  <2> SUFFICES ASSUME TypeOK, [Next]_vars PROVE TypeOK'
    OBVIOUS
  <2>1. CASE Next
    BY <2>1, GatherKeepsTypes, WalkKeepsTypes DEF Next
  <2>2. CASE UNCHANGED vars
    BY <2>2, ProgramUnchanged DEF TypeOK, vars, gatherVars, depthVars
  <2> QED
    BY <2>1, <2>2
<1> QED
  BY <1>1, TypeInit, PTL DEF Safety

-----------------------------------------------------------------------------
(***************************************************************************)
(* Soundness of the walk                                                   *)
(***************************************************************************)

WalkStep == WalkJmp \/ WalkCjmp \/ WalkEnd \/ WalkOther \/ WalkFail

(* register_depth overwrites no depth: it is called with the depth that    *)
(* the table already has, if it has one.                                   *)
LEMMA RegisterKeeps ==
  ASSUME TypeOK, work # << >>, Passes(Last(work)), NEW t, t = Last(work)
  PROVE  /\ \A a \in Address(prog) :
              registered[a] # None => RegisteredHere(t)[a] = registered[a]
         /\ t.ip \in incoming => RegisteredHere(t)[t.ip] = t.depth
         /\ DeclaredKind(Code[t.ip]) \in {"JMP", "CJMP"} =>
              LET table == Register(RegisteredHere(t), Code[t.ip].to, NewDepth(t))
              IN  /\ table[Code[t.ip].to] = NewDepth(t)
                  /\ \A a \in Address(prog) :
                       RegisteredHere(t)[a] # None => table[a] = RegisteredHere(t)[a]
<1> DEFINE to == Code[t.ip].to
<1>1. /\ t \in Trackers /\ t.ip \in Address(prog) /\ RegisteredHere(t) \in Table
      /\ DeclaredKind(Code[t.ip]) \in {"JMP", "CJMP"} => to \in Address(prog)
  BY WalkTypes
<1>2. t.depth \in Nat /\ registered \in Table
  BY <1>1 DEF Trackers, TypeOK, Table
<1>3. t.ip \in incoming => registered[t.ip] \in {None, t.depth}
  BY DEF Passes, DepthFits, Agrees
<1>4. \A a \in Address(prog) :
        registered[a] # None => RegisteredHere(t)[a] = registered[a]
  BY <1>1, <1>2, <1>3 DEF RegisteredHere, Register, Table
<1>5. t.ip \in incoming => RegisteredHere(t)[t.ip] = t.depth
  BY <1>1, <1>2 DEF RegisteredHere, Register, Table
<1>6. ASSUME DeclaredKind(Code[t.ip]) \in {"JMP", "CJMP"}
      PROVE  LET table == Register(RegisteredHere(t), to, NewDepth(t))
             IN  /\ table[to] = NewDepth(t)
                 /\ \A a \in Address(prog) :
                      RegisteredHere(t)[a] # None => table[a] = RegisteredHere(t)[a]
  <2>1. RegisteredHere(t)[to] \in {None, NewDepth(t)}
    BY <1>6 DEF Passes, JumpFits, Agrees
  <2> QED
    BY <1>1, <1>6, <2>1 DEF Register, Table
<1> QED
  BY <1>4, <1>5, <1>6

(* The work and the table one successful iteration leaves.                 *)
LEMMA WalkStepEffect ==
  ASSUME TypeOK, WalkStep, NEW t, t = Last(work), NEW i, i = Code[t.ip]
  PROVE  LET kind == DeclaredKind(i)
             next == Follow(t, t.ip + 1)
             jump == Follow(t, i.to)
         IN  /\ ToSet(work') = ToSet(Front(work))
                  \cup (IF kind \in {"JMP", "CJMP"} /\ i.to \notin visited THEN {jump} ELSE {})
                  \cup (IF kind \in {"CJMP", "OTHER"} THEN {next} ELSE {})
             /\ IF kind \in {"JMP", "CJMP"}
                  THEN /\ visited' = visited \cup {i.to}
                       /\ registered' = Register(RegisteredHere(t), i.to, NewDepth(t))
                  ELSE visited' = visited /\ registered' = RegisteredHere(t)
<1> DEFINE kind == DeclaredKind(i)
           next == Follow(t, t.ip + 1)
           jump == Follow(t, i.to)
           table == Register(RegisteredHere(t), i.to, NewDepth(t))
<1>1. work # << >> /\ Passes(t)
  BY DEF WalkStep, WalkJmp, WalkCjmp, WalkEnd, WalkOther, WalkFail, Walk
<1>2. /\ WalkJmp <=> kind = "JMP" /\ WalkJmp
      /\ WalkCjmp <=> kind = "CJMP" /\ WalkCjmp
      /\ WalkEnd <=> kind = "END" /\ WalkEnd
      /\ WalkOther <=> kind = "OTHER" /\ WalkOther
      /\ WalkFail <=> kind = "FAIL_KIND" /\ WalkFail
  BY DEF WalkJmp, WalkCjmp, WalkEnd, WalkOther, WalkFail, Walk
<1>3. Front(work) \in Seq(Trackers) /\ next \in Trackers
  BY <1>1, WalkTypes
<1>5. ToSet(work') = ToSet(Front(work))
                       \cup (IF kind \in {"JMP", "CJMP"} /\ i.to \notin visited THEN {jump} ELSE {})
                       \cup (IF kind \in {"CJMP", "OTHER"} THEN {next} ELSE {})
  <2>1. CASE WalkJmp
    <3>1. work' = Front(work) \o JumpWork(t)
      BY <2>1 DEF WalkJmp
    <3> QED
      BY <1>1, <1>2, <2>1, <3>1, JumpTypes, Zenon
  <2>2. CASE WalkCjmp
    <3>1. work' = Front(work) \o JumpWork(t) \o <<next>>
      BY <2>2 DEF WalkCjmp
    <3>2. /\ Front(work) \o JumpWork(t) \in Seq(Trackers)
          /\ ToSet(Front(work) \o JumpWork(t)) =
               ToSet(Front(work)) \cup (IF i.to \in visited THEN {} ELSE {jump})
      BY <1>1, <1>2, <2>2, JumpTypes, Zenon
    <3>3. <<next>> \in Seq(Trackers) /\ ToSet(<<next>>) = {next}
      BY <1>3, ShortSeq, Zenon
    <3>4. ToSet((Front(work) \o JumpWork(t)) \o <<next>>) =
            ToSet(Front(work) \o JumpWork(t)) \cup ToSet(<<next>>)
      <4>1. Front(work) \o JumpWork(t) \in Seq(Trackers) /\ <<next>> \in Seq(Trackers)
        BY <3>2, <3>3
      <4> HIDE DEF next
      <4> QED
        BY ONLY <4>1, PushSeq, ZenonT(30)
    <3>5. ToSet(work') = ToSet(Front(work) \o JumpWork(t)) \cup {next}
      BY ONLY <3>1, <3>3, <3>4, Zenon
    <3> QED
      BY <1>2, <2>2, <3>2, <3>5
  <2>3. CASE WalkOther
    <3>1. work' = Append(Front(work), next)
      BY <2>3 DEF WalkOther
    <3>2. ToSet(Append(Front(work), next)) = ToSet(Front(work)) \cup {next}
      <4>1. Front(work) \in Seq(Trackers) /\ next \in Trackers
        BY <1>3
      <4> HIDE DEF next
      <4> QED
        BY ONLY <4>1, AppendSeq
    <3>3. ToSet(work') = ToSet(Front(work)) \cup {next}
      BY ONLY <3>1, <3>2, Zenon
    <3> QED
      BY <1>2, <2>3, <3>3
  <2>4. CASE WalkEnd \/ WalkFail
    <3>1. work' = Front(work)
      BY <2>4 DEF WalkEnd, WalkFail
    <3> QED
      BY <1>2, <2>4, <3>1
  <2> QED
    BY <2>1, <2>2, <2>3, <2>4 DEF WalkStep
<1>6. IF kind \in {"JMP", "CJMP"}
        THEN visited' = visited \cup {i.to} /\ registered' = table
        ELSE visited' = visited /\ registered' = RegisteredHere(t)
  BY <1>2 DEF WalkStep, WalkJmp, WalkCjmp, WalkEnd, WalkOther, WalkFail
<1> QED
  BY <1>5, <1>6

(* What one successful iteration does to the walk, whichever kind of       *)
(* instruction it meets: it passes one pair, loses no scheduled pair and   *)
(* no registered depth, and schedules what the instruction leads to.       *)
LEMMA WalkStepFacts ==
  ASSUME TypeOK, WalkStep, NEW t, t = Last(work), NEW i, i = Code[t.ip]
  PROVE  /\ work # << >> /\ Passes(t)
         /\ UNCHANGED <<prog, phase, incoming>>
         /\ walked' = walked \cup {<<t.ip, t.depth>>}
         /\ Scheduled \subseteq Scheduled'
         /\ \A a \in Address(prog) :
              registered[a] # None => registered'[a] = registered[a]
         /\ t.ip \in incoming => registered'[t.ip] = t.depth
         /\ DeclaredKind(i) \in {"CJMP", "OTHER"} =>
              <<t.ip + 1, NewDepth(t)>> \in Scheduled'
         /\ DeclaredKind(i) \in {"JMP", "CJMP"} =>
              /\ visited' = visited \cup {i.to}
              /\ registered'[i.to] = NewDepth(t)
              /\ i.to \notin visited => <<i.to, NewDepth(t)>> \in Scheduled'
         /\ DeclaredKind(i) \notin {"JMP", "CJMP"} => visited' = visited
<1> DEFINE kind == DeclaredKind(i)
           next == Follow(t, t.ip + 1)
           jump == Follow(t, i.to)
           table == Register(RegisteredHere(t), i.to, NewDepth(t))
<1>1. /\ work # << >> /\ Passes(t)
      /\ UNCHANGED <<prog, phase, incoming>>
      /\ walked' = walked \cup {<<t.ip, t.depth>>}
  BY DEF WalkStep, WalkJmp, WalkCjmp, WalkEnd, WalkOther, WalkFail, Walk, gatherVars
<1>3. /\ t.ip \in Address(prog) /\ ToSet(work) = ToSet(Front(work)) \cup {t}
      /\ Front(work) \in Seq(Trackers)
      /\ next \in Trackers /\ next.ip = t.ip + 1 /\ next.depth = NewDepth(t)
      /\ RegisteredHere(t) \in Table
  BY <1>1, WalkTypes
<1>4. kind \in {"JMP", "CJMP"} =>
        i.to \in Address(prog) /\ jump.ip = i.to /\ jump.depth = NewDepth(t)
  <2>1. kind \in {"JMP", "CJMP"} => i.to \in 0 .. CodeEnd(prog) /\ i.to \in Address(prog)
    BY <1>1, WalkTypes, ProgramTypes, SMTT(30) DEF TypeOK
  <2> QED
    BY <1>1, <2>1, WalkTypes
<1>5. /\ ToSet(work') = ToSet(Front(work))
           \cup (IF kind \in {"JMP", "CJMP"} /\ i.to \notin visited THEN {jump} ELSE {})
           \cup (IF kind \in {"CJMP", "OTHER"} THEN {next} ELSE {})
      /\ IF kind \in {"JMP", "CJMP"}
           THEN visited' = visited \cup {i.to} /\ registered' = table
           ELSE visited' = visited /\ registered' = RegisteredHere(t)
  BY WalkStepEffect
<1>6. Scheduled \subseteq Scheduled'
  BY <1>1, <1>3, <1>5 DEF Scheduled
<1>7. /\ kind \in {"CJMP", "OTHER"} => <<t.ip + 1, NewDepth(t)>> \in Scheduled'
      /\ kind \in {"JMP", "CJMP"} =>
           (i.to \notin visited => <<i.to, NewDepth(t)>> \in Scheduled')
  BY <1>3, <1>4, <1>5 DEF Scheduled
<1>9. /\ \A a \in Address(prog) :
           registered[a] # None => registered'[a] = registered[a]
      /\ t.ip \in incoming => registered'[t.ip] = t.depth
      /\ kind \in {"JMP", "CJMP"} => registered'[i.to] = NewDepth(t)
  <2>1. /\ \A a \in Address(prog) :
             registered[a] # None => RegisteredHere(t)[a] = registered[a]
        /\ t.ip \in incoming => RegisteredHere(t)[t.ip] = t.depth
        /\ kind \in {"JMP", "CJMP"} =>
             /\ table[i.to] = NewDepth(t)
             /\ \A a \in Address(prog) :
                  RegisteredHere(t)[a] # None => table[a] = RegisteredHere(t)[a]
    BY <1>1, RegisterKeeps
  <2>2. t \in Trackers
    BY <1>1, WalkTypes
  <2>3. t.depth # None
    BY <2>2 DEF Trackers, None
  <2> QED
    BY <1>3, <1>5, <2>1, <2>3
<1> QED
  BY <1>1, <1>5, <1>6, <1>7, <1>9

(* One successful iteration keeps each part of the invariant.              *)
LEMMA WalkStepKeepsInv ==
  ASSUME TypeOK, WalkInv, phase = "depth", WalkStep
  PROVE  WalkInv'
<1> DEFINE t == Last(work)
           i == Code[t.ip]
           kind == DeclaredKind(i)
<1>1. /\ work # << >> /\ Passes(t)
      /\ UNCHANGED <<prog, phase, incoming>>
      /\ walked' = walked \cup {<<t.ip, t.depth>>}
      /\ Scheduled \subseteq Scheduled'
      /\ \A a \in Address(prog) :
           registered[a] # None => registered'[a] = registered[a]
      /\ t.ip \in incoming => registered'[t.ip] = t.depth
      /\ kind \in {"CJMP", "OTHER"} => <<t.ip + 1, NewDepth(t)>> \in Scheduled'
      /\ kind \in {"JMP", "CJMP"} =>
           /\ visited' = visited \cup {i.to}
           /\ registered'[i.to] = NewDepth(t)
           /\ i.to \notin visited => <<i.to, NewDepth(t)>> \in Scheduled'
      /\ kind \notin {"JMP", "CJMP"} => visited' = visited
  BY WalkStepFacts
<1>2. /\ t.ip \in Address(prog) /\ NewDepth(t) = t.depth + DeclaredChange(i)
      /\ kind \in {"JMP", "CJMP"} => i.to \in Address(prog)
      /\ NewDepth(t) \in Nat
  BY <1>1, WalkTypes
<1>3. /\ visited \subseteq Address(prog) /\ incoming \subseteq Address(prog)
      /\ walked \subseteq Address(prog) \X Nat
  BY DEF TypeOK
<1>4. PhaseInv'
  BY <1>1 DEF PhaseInv
<1>5. EntriesScheduled'
  BY <1>1, ProgramUnchanged DEF WalkInv, EntriesScheduled
<1>6. WalkedFollowed'
  <2> SUFFICES ASSUME NEW w \in walked'
               PROVE  LET j == Code[w[1]]
                          new == w[2] + DeclaredChange(j)
                      IN  /\ DecodeOk(Code, w[1])
                          /\ DeclaredNeed(j) <= w[2]
                          /\ DeclaredKind(j) \in {"JMP", "CJMP"} =>
                               j.to \in visited' /\ registered'[j.to] = new
                          /\ DeclaredKind(j) \in {"CJMP", "OTHER"} =>
                               <<w[1] + 1, new>> \in Scheduled'
    BY <1>1, ProgramUnchanged DEF WalkedFollowed
  <2>1. CASE w \in walked
    <3>1. LET j == Code[w[1]]
              new == w[2] + DeclaredChange(j)
          IN  /\ DecodeOk(Code, w[1])
              /\ DeclaredNeed(j) <= w[2]
              /\ DeclaredKind(j) \in {"JMP", "CJMP"} =>
                   j.to \in visited /\ registered[j.to] = new
              /\ DeclaredKind(j) \in {"CJMP", "OTHER"} =>
                   <<w[1] + 1, new>> \in Scheduled
      BY <2>1 DEF WalkInv, WalkedFollowed
    <3>2. visited \subseteq visited'
      BY <1>1
    <3>3. \A s \in visited : registered'[s] = registered[s]
      BY <1>1, <1>3 DEF WalkInv, VisitedScheduled
    <3> QED
      BY <1>1, <3>1, <3>2, <3>3
  <2>2. CASE w = <<t.ip, t.depth>>
    <3>1. DecodeOk(Code, t.ip) /\ DeclaredNeed(i) <= t.depth
      BY <1>1 DEF Passes, Decodes, DepthFits
    <3>2. w[1] = t.ip /\ w[2] = t.depth
      BY <2>2
    <3> QED
      BY <1>1, <1>2, <3>1, <3>2
  <2> QED
    BY <1>1, <2>1, <2>2
<1>7. VisitedScheduled'
  <2> SUFFICES ASSUME NEW s \in visited'
               PROVE  registered'[s] # None /\ <<s, registered'[s]>> \in Scheduled'
    BY DEF VisitedScheduled
  <2>1. CASE s \in visited
    <3>1. registered[s] # None /\ <<s, registered[s]>> \in Scheduled
      BY <2>1 DEF WalkInv, VisitedScheduled
    <3> QED
      BY <1>1, <1>3, <2>1, <3>1
  <2>2. CASE s \notin visited
    <3>1. kind \in {"JMP", "CJMP"} /\ s = i.to
      BY <1>1, <2>2
    <3>2. registered'[s] = NewDepth(t) /\ <<s, NewDepth(t)>> \in Scheduled'
      BY <1>1, <2>2, <3>1
    <3> QED
      BY <1>2, <3>2 DEF None
  <2> QED
    BY <2>1, <2>2
<1>8. JoinsRegistered'
  <2> SUFFICES ASSUME NEW w \in walked', w[1] \in incoming
               PROVE  registered'[w[1]] = w[2]
    BY <1>1 DEF JoinsRegistered
  <2>1. CASE w \in walked
    <3>1. registered[w[1]] = w[2] /\ w[1] \in Address(prog) /\ w[2] \in Nat
      BY <1>3, <2>1 DEF WalkInv, JoinsRegistered
    <3> QED
      BY <1>1, <3>1 DEF None
  <2>2. CASE w = <<t.ip, t.depth>>
    BY <1>1, <2>2
  <2> QED
    BY <1>1, <2>1, <2>2
<1> QED
  BY <1>4, <1>5, <1>6, <1>7, <1>8 DEF WalkInv

(* The steps that walk nothing: gathering, the start of the walk, and the  *)
(* verdicts.                                                               *)
LEMMA OtherStepsKeepInv ==
  ASSUME TypeOK, WalkInv,
         GatherEntry \/ Gather \/ GatherReject \/ GatherDone \/ WalkReject \/ WalkDone
  PROVE  WalkInv'
<1>1. UNCHANGED prog
  BY DEF GatherEntry, Gather, GatherReject, GatherDone, WalkReject, WalkDone
<1>2. CASE GatherEntry \/ Gather \/ GatherReject
  <2>1. /\ phase = "gather" /\ phase' \in {"gather", "badCode"}
        /\ UNCHANGED <<work, walked, visited, registered>>
    BY <1>2 DEF GatherEntry, Gather, GatherReject, depthVars
  <2>2. walked = {} /\ visited = {} /\ work = << >>
    BY <2>1 DEF WalkInv, PhaseInv
  <2> QED
    BY <2>1, <2>2 DEF WalkInv, PhaseInv, EntriesScheduled, WalkedFollowed,
                      VisitedScheduled, JoinsRegistered
<1>3. CASE GatherDone
  <2>1. /\ phase = "gather" /\ phase' = "depth"
        /\ work' = [k \in DOMAIN prog.pub |-> Tracker(prog.pub[k], prog.pub[k], 0, 0)]
        /\ UNCHANGED <<walked, visited, registered>>
    BY <1>3 DEF GatherDone
  <2>2. walked = {} /\ visited = {}
    BY <2>1 DEF WalkInv, PhaseInv
  <2>3. ASSUME NEW e \in Entries
        PROVE  <<e, 0>> \in Scheduled'
    <3>1. PICK k \in DOMAIN prog.pub : e = prog.pub[k]
      BY DEF Entries
    <3>2. work'[k].ip = e /\ work'[k].depth = 0 /\ k \in DOMAIN work'
      BY <2>1, <3>1 DEF Tracker
    <3>3. work'[k] \in ToSet(work')
      BY <3>2 DEF ToSet
    <3> QED
      BY <3>2, <3>3 DEF Scheduled
  <2> QED
    BY <1>1, <2>1, <2>2, <2>3, ProgramUnchanged
    DEF WalkInv, PhaseInv, EntriesScheduled, WalkedFollowed,
        VisitedScheduled, JoinsRegistered
<1>4. CASE WalkReject \/ WalkDone
  <2>1. /\ phase = "depth" /\ phase' \in Verdicts
        /\ UNCHANGED <<incoming, work, walked, visited, registered>>
        /\ phase' = "accepted" => work = << >>
    BY <1>4 DEF WalkReject, WalkDone, gatherVars, depthVars, Verdicts
  <2>2. Scheduled' = Scheduled
    BY <2>1 DEF Scheduled
  <2>3. phase' # "gather"
    BY <2>1 DEF Verdicts
  <2> QED
    BY <1>1, <2>1, <2>2, <2>3, ProgramUnchanged
    DEF WalkInv, PhaseInv, EntriesScheduled, WalkedFollowed,
        VisitedScheduled, JoinsRegistered
<1> QED
  BY <1>2, <1>3, <1>4

(* WalkInv is an inductive invariant, relative to the types.               *)
THEOREM WalkInvariant == Safety => []WalkInv
<1>1. Init => WalkInv
  BY DEF Init, WalkInv, PhaseInv, EntriesScheduled, WalkedFollowed,
         VisitedScheduled, JoinsRegistered
<1>2. TypeOK /\ WalkInv /\ [Next]_vars => WalkInv'
  <2> SUFFICES ASSUME TypeOK, WalkInv, [Next]_vars PROVE WalkInv'
    OBVIOUS
  <2>1. CASE WalkStep
    <3>1. phase = "depth"
      BY <2>1 DEF WalkStep, WalkJmp, WalkCjmp, WalkEnd, WalkOther, WalkFail, Walk
    <3> QED
      BY <2>1, <3>1, WalkStepKeepsInv
  <2>2. CASE GatherEntry \/ Gather \/ GatherReject \/ GatherDone \/ WalkReject \/ WalkDone
    BY <2>2, OtherStepsKeepInv
  <2>3. CASE UNCHANGED vars
    <3>1. UNCHANGED <<prog, phase, incoming, work, visited, registered, walked>>
      BY <2>3 DEF vars, gatherVars, depthVars
    <3>2. Scheduled' = Scheduled
      BY <3>1 DEF Scheduled
    <3> QED
      BY <3>1, <3>2, ProgramUnchanged
      DEF WalkInv, PhaseInv, EntriesScheduled, WalkedFollowed,
          VisitedScheduled, JoinsRegistered
  <2> QED
    BY <2>1, <2>2, <2>3 DEF Next, WalkStep
<1> QED
  BY <1>1, <1>2, TypeCorrect, PTL DEF Safety

(* The pairs an accepted program was walked with are closed under its      *)
(* declared control flow, start at every public function with depth 0 and  *)
(* meet every declared need.                                               *)
THEOREM WalkSound == Safety => []WalkClosed
<1>1. TypeOK /\ WalkInv => WalkClosed
  <2> SUFFICES ASSUME WalkInv, phase = "accepted"
               PROVE  /\ \A e \in Entries : <<e, 0>> \in walked
                      /\ \A w \in walked :
                           LET i == Code[w[1]] IN
                           /\ DeclaredNeed(i) <= w[2]
                           /\ \A s \in DeclaredSuccessors(Code, w[1]) :
                                <<s, w[2] + DeclaredChange(i)>> \in walked
    BY DEF WalkClosed
  <2>1. Scheduled = walked
    <3>1. work = << >>
      BY DEF WalkInv, PhaseInv
    <3>2. ToSet(work) = {}
      BY <3>1, ShortSeq
    <3> QED
      BY <3>2 DEF Scheduled
  <2>2. \A e \in Entries : <<e, 0>> \in walked
    BY <2>1 DEF WalkInv, EntriesScheduled
  <2>3. ASSUME NEW w \in walked, NEW s \in DeclaredSuccessors(Code, w[1])
        PROVE  <<s, w[2] + DeclaredChange(Code[w[1]])>> \in walked
    <3> DEFINE i == Code[w[1]]
               new == w[2] + DeclaredChange(i)
    <3>1. /\ DeclaredKind(i) \in {"JMP", "CJMP"} =>
               i.to \in visited /\ registered[i.to] = new
          /\ DeclaredKind(i) \in {"CJMP", "OTHER"} => <<w[1] + 1, new>> \in walked
      BY <2>1 DEF WalkInv, WalkedFollowed
    <3>2. CASE DeclaredKind(i) \in {"JMP", "CJMP"} /\ s = i.to
      BY <2>1, <3>1, <3>2 DEF WalkInv, VisitedScheduled
    <3>3. CASE DeclaredKind(i) \in {"CJMP", "OTHER"} /\ s = w[1] + 1
      BY <3>1, <3>3
    <3> QED
      BY <2>3, <3>2, <3>3 DEF DeclaredSuccessors
  <2> QED
    BY <2>2, <2>3 DEF WalkInv, WalkedFollowed
<1> QED
  BY <1>1, TypeCorrect, WalkInvariant, PTL

(* At the target of a jump or a call all paths arrive with one depth.      *)
THEOREM JoinsSound == Safety => []JoinDepthUnique
<1>1. WalkInv => JoinDepthUnique
  BY DEF WalkInv, JoinsRegistered, JoinDepthUnique
<1> QED
  BY <1>1, WalkInvariant, PTL

-----------------------------------------------------------------------------
(***************************************************************************)
(* Completeness of the walk                                                *)
(***************************************************************************)

(* What a typing of the program says of the walk: no tracker and no        *)
(* registered depth differs from it.                                       *)
FollowsTyping(delta) ==
  /\ phase # "badDepth"
  /\ \A u \in ToSet(work) : u.ip \in Address(prog) /\ u.depth = delta[u.ip]
  /\ \A a \in Address(prog) : registered[a] \in {None, delta[a]}

TypingInv ==
  \A delta \in [Address(prog) -> Int] : Types(prog, delta) => FollowsTyping(delta)

(* A tracker that agrees with a typing is not rejected, and its successors *)
(* agree with the typing.                                                  *)
LEMMA TypedPasses ==
  ASSUME TypeOK, NEW delta \in [Address(prog) -> Int], Types(prog, delta),
         FollowsTyping(delta), work # << >>,
         NEW t, t = Last(work), NEW i, i = Code[t.ip]
  PROVE  /\ t \in ToSet(work) /\ t.ip \in Address(prog)
         /\ Decodes(t) => Passes(t)
         /\ \A a \in Address(prog) : RegisteredHere(t)[a] \in {None, delta[a]}
         /\ DeclaredKind(i) \in {"JMP", "CJMP"} => delta[i.to] = NewDepth(t)
         /\ DeclaredKind(i) \in {"CJMP", "OTHER"} =>
              t.ip + 1 \in Address(prog) /\ delta[t.ip + 1] = NewDepth(t)
<1>1. t \in Trackers /\ t \in ToSet(work) /\ WellFormed(prog)
  BY PopSeq DEF TypeOK
<1>2. t.ip \in Address(prog) /\ t.depth = delta[t.ip] /\ t.depth \in Nat
  BY <1>1 DEF FollowsTyping, Trackers
<1>3. /\ DeclaredNeed(i) <= t.depth /\ NewDepth(t) >= 0
      /\ \A s \in DeclaredSuccessors(Code, t.ip) :
           s \in Address(prog) /\ delta[s] = NewDepth(t)
  BY <1>2 DEF Types, Code, NewDepth, None
<1>4. /\ DeclaredKind(i) \in {"JMP", "CJMP"} =>
           i.to \in Address(prog) /\ delta[i.to] = NewDepth(t)
      /\ DeclaredKind(i) \in {"CJMP", "OTHER"} =>
           t.ip + 1 \in Address(prog) /\ delta[t.ip + 1] = NewDepth(t)
  BY <1>3 DEF DeclaredSuccessors
<1>5. registered \in Table /\ \A a \in Address(prog) : registered[a] \in {None, delta[a]}
  BY DEF FollowsTyping, TypeOK, Table
<1>6. \A a \in Address(prog) : RegisteredHere(t)[a] \in {None, delta[a]}
  BY <1>2, <1>5 DEF RegisteredHere, Register, Table
<1>7. DepthFits(t) /\ JumpFits(t)
  BY <1>2, <1>3, <1>4, <1>5, <1>6 DEF DepthFits, JumpFits, Agrees
<1> QED
  BY <1>1, <1>2, <1>4, <1>6, <1>7 DEF Passes

(* TypingInv is an inductive invariant, relative to the types.             *)
THEOREM TypingInvariant == Safety => []TypingInv
<1>1. Init => TypingInv
  BY ShortSeq DEF Init, TypingInv, FollowsTyping
<1>2. TypeOK /\ TypingInv /\ [Next]_vars => TypingInv'
  <2> SUFFICES ASSUME TypeOK, TypingInv, [Next]_vars,
                      NEW delta \in [Address(prog)' -> Int], Types(prog', delta)
               PROVE  FollowsTyping(delta)'
    BY DEF TypingInv
  <2>0. UNCHANGED prog /\ Address(prog)' = Address(prog)
    BY ProgramUnchanged
    DEF Next, GatherEntry, Gather, GatherReject, GatherDone, WalkReject, WalkDone,
        WalkJmp, WalkCjmp, WalkEnd, WalkOther, WalkFail, Walk, vars
  <2>1. /\ delta \in [Address(prog) -> Int] /\ Types(prog, delta)
        /\ FollowsTyping(delta)
    BY <2>0 DEF TypingInv
  <2>2. CASE WalkStep
    <3> DEFINE t == Last(work)
               i == Code[t.ip]
               kind == DeclaredKind(i)
               next == Follow(t, t.ip + 1)
               jump == Follow(t, i.to)
    <3>1. work # << >> /\ Passes(t) /\ UNCHANGED phase
      BY <2>2, WalkStepFacts
    <3>2. /\ \A a \in Address(prog) : RegisteredHere(t)[a] \in {None, delta[a]}
          /\ kind \in {"JMP", "CJMP"} => delta[i.to] = NewDepth(t)
          /\ kind \in {"CJMP", "OTHER"} =>
               t.ip + 1 \in Address(prog) /\ delta[t.ip + 1] = NewDepth(t)
      BY <2>1, <3>1, TypedPasses
    <3>3. kind \in {"JMP", "CJMP"} => i.to \in Address(prog)
      BY <3>1, WalkTypes
    <3>4. /\ ToSet(Front(work)) \subseteq ToSet(work)
          /\ next.ip = t.ip + 1 /\ next.depth = NewDepth(t)
          /\ jump.ip = i.to /\ jump.depth = NewDepth(t)
          /\ RegisteredHere(t) \in Table
      BY <3>1, WalkTypes DEF Follow, Tracker
    <3>5. /\ ToSet(work') \subseteq ToSet(Front(work))
               \cup (IF kind \in {"JMP", "CJMP"} THEN {jump} ELSE {})
               \cup (IF kind \in {"CJMP", "OTHER"} THEN {next} ELSE {})
          /\ registered' = RegisteredHere(t)
               \/ /\ kind \in {"JMP", "CJMP"}
                  /\ registered' = Register(RegisteredHere(t), i.to, NewDepth(t))
      BY <2>2, WalkStepEffect
    <3>6. \A u \in ToSet(work') : u.ip \in Address(prog) /\ u.depth = delta[u.ip]
      BY <2>1, <3>2, <3>3, <3>4, <3>5 DEF FollowsTyping
    <3>7. \A a \in Address(prog) : registered'[a] \in {None, delta[a]}
      BY <3>2, <3>3, <3>4, <3>5 DEF Register, Table
    <3> QED
      BY <2>0, <2>1, <3>1, <3>6, <3>7 DEF FollowsTyping
  <2>3. CASE WalkReject
    <3>1. work # << >> /\ ~Passes(Last(work)) /\ UNCHANGED <<work, registered>>
          /\ phase' = IF Decodes(Last(work)) THEN "badDepth" ELSE "badCode"
      BY <2>3 DEF WalkReject, depthVars
    <3>2. phase' = "badCode"
      BY <2>1, <3>1, TypedPasses
    <3> QED
      BY <2>0, <2>1, <3>1, <3>2 DEF FollowsTyping
  <2>4. CASE GatherDone
    <3>1. /\ phase' = "depth" /\ UNCHANGED registered
          /\ work' = [k \in DOMAIN prog.pub |-> Tracker(prog.pub[k], prog.pub[k], 0, 0)]
      BY <2>4 DEF GatherDone
    <3>2. ASSUME NEW u \in ToSet(work')
          PROVE  u.ip \in Address(prog) /\ u.depth = delta[u.ip]
      <4>1. PICK k \in DOMAIN prog.pub : u = Tracker(prog.pub[k], prog.pub[k], 0, 0)
        BY <3>1 DEF ToSet
      <4>2. prog.pub[k] \in Address(prog)
        BY ProgramTypes DEF TypeOK
      <4> QED
        BY <2>1, <4>1, <4>2 DEF Tracker, Types
    <3> QED
      BY <2>0, <2>1, <3>1, <3>2 DEF FollowsTyping
  <2>5. CASE GatherEntry \/ Gather \/ GatherReject \/ WalkDone \/ UNCHANGED vars
    <3>1. UNCHANGED <<work, registered>> /\ (phase' # "badDepth" \/ UNCHANGED phase)
      BY <2>5 DEF GatherEntry, Gather, GatherReject, WalkDone, vars, gatherVars, depthVars
    <3> QED
      BY <2>0, <2>1, <3>1 DEF FollowsTyping
  <2> QED
    BY <2>2, <2>3, <2>4, <2>5 DEF Next, WalkStep
<1> QED
  BY <1>1, <1>2, TypeCorrect, PTL DEF Safety

(* check_depth reports a depth error in no program that has a typing.      *)
THEOREM WalkComplete == Safety => []NeverRejectsTyped
<1>1. TypeOK /\ TypingInv => NeverRejectsTyped
  <2> SUFFICES ASSUME TypeOK, TypingInv, phase = "badDepth",
                      NEW delta \in [Address(prog) -> None .. prog.len]
               PROVE  ~Types(prog, delta)
    BY DEF NeverRejectsTyped
  <2>1. None .. prog.len \subseteq Int
    OBVIOUS
  <2>2. delta \in [Address(prog) -> Int]
    BY <2>1
  <2> QED
    BY <2>2 DEF TypingInv, FollowsTyping
<1> QED
  BY <1>1, TypeCorrect, TypingInvariant, PTL

-----------------------------------------------------------------------------
(***************************************************************************)
(* gather_incoming_cf finds what can be reached                            *)
(***************************************************************************)

(* Control, as gather_incoming_cf follows it, goes from a to s.            *)
Leads(p, a, s) == s \in JumpTargets(p.code[a]) \/ (s = a + 1 /\ FallsThrough(p.code[a]))

(* Where the jumps and calls that can be reached go.                       *)
Targets(p) == UNION {JumpTargets(p.code[a]) : a \in Reached(p)}

(* What can be reached has the public functions and is closed under the    *)
(* flow, and it is inside every such set.                                  *)
LEMMA ReachedLeast ==
  ASSUME WellFormed(prog)
  PROVE  /\ Reached(prog) \subseteq Address(prog)
         /\ \A k \in DOMAIN prog.pub : prog.pub[k] \in Reached(prog)
         /\ \A a \in Reached(prog), s \in Address(prog) :
              Leads(prog, a, s) => s \in Reached(prog)
         /\ \A S \in SUBSET Address(prog) :
              ClosedUnderFlow(prog, S) => Reached(prog) \subseteq S
<1>1. \A k \in DOMAIN prog.pub : prog.pub[k] \in Address(prog)
  BY ProgramTypes
<1>2. \A S \in SUBSET Address(prog) :
        ClosedUnderFlow(prog, S) <=>
          /\ \A k \in DOMAIN prog.pub : prog.pub[k] \in S
          /\ \A a \in S, s \in Address(prog) : Leads(prog, a, s) => s \in S
  BY DEF ClosedUnderFlow, Leads
<1>3. Reached(prog) = {a \in Address(prog) :
                         \A S \in SUBSET Address(prog) : ClosedUnderFlow(prog, S) => a \in S}
  BY DEF Reached
<1> QED
  BY <1>1, <1>2, <1>3

(* While gather_incoming_cf runs: what it has seen can be reached (or is   *)
(* the end of the code, which it cannot leave any more); what it has       *)
(* popped it has followed.                                                 *)
OnlyReached ==
  /\ gvisited \subseteq Reached(prog) \cup {CodeEnd(prog)}
  /\ incoming \subseteq Targets(prog)

PendingSeen ==
  /\ ToSet(gstack) \subseteq gvisited
  /\ CodeEnd(prog) \in gvisited => CodeEnd(prog) \in ToSet(gstack)
  /\ \A k \in 1 .. entries : prog.pub[k] \in gvisited

PoppedFollowed ==
  \A a \in gvisited \ ToSet(gstack) :
    /\ JumpTargets(Code[a]) \subseteq incoming \cap gvisited
    /\ FallsThrough(Code[a]) /\ a + 1 \in Address(prog) => a + 1 \in gvisited

GatherInv ==
  /\ phase = "gather" => OnlyReached /\ PendingSeen /\ PoppedFollowed
  /\ phase \in {"depth", "accepted", "badDepth"} => incoming = Targets(prog)

LEMMA GatherEntryKeepsInv ==
  ASSUME TypeOK, GatherInv, GatherEntry
  PROVE  GatherInv'
<1> DEFINE a == prog.pub[entries + 1]
           new == PushIfNotVisited(a)
<1>1. /\ phase = "gather" /\ phase' = "gather" /\ entries < Len(prog.pub)
      /\ gstack' = gstack \o new /\ gvisited' = gvisited \cup ToSet(new)
      /\ entries' = entries + 1 /\ UNCHANGED <<prog, incoming>>
  BY DEF GatherEntry
<1>2. /\ WellFormed(prog) /\ gstack \in Seq(0 .. CodeEnd(prog)) /\ CodeEnd(prog) \in Nat
      /\ Address(prog) = 0 .. CodeEnd(prog) - 1 /\ entries \in Nat
  BY ProgramTypes DEF TypeOK
<1>3. entries + 1 \in DOMAIN prog.pub
  BY <1>1, <1>2, ProgramTypes
<1>4. a \in Reached(prog) /\ a \in Address(prog)
  BY <1>2, <1>3, ReachedLeast
<1>5. new \in Seq(0 .. CodeEnd(prog)) /\ ToSet(new) = {a} \ gvisited
  <2>1. a \in 0 .. CodeEnd(prog)
    BY <1>2, <1>4
  <2>2. <<a>> \in Seq(0 .. CodeEnd(prog)) /\ << >> \in Seq(0 .. CodeEnd(prog))
        /\ ToSet(<<a>>) = {a} /\ ToSet(<< >>) = {}
    BY <2>1, ShortSeq, Zenon
  <2>3. CASE a \in gvisited
    BY <2>2, <2>3 DEF PushIfNotVisited
  <2>4. CASE a \notin gvisited
    BY <2>2, <2>4 DEF PushIfNotVisited
  <2> QED
    BY <2>3, <2>4
<1>6. gvisited' = gvisited \cup {a}
  BY <1>1, <1>5
<1>7. ToSet(gstack') = ToSet(gstack) \cup ({a} \ gvisited)
  <2>1. new \in Seq(0 .. CodeEnd(prog)) /\ gstack \in Seq(0 .. CodeEnd(prog))
    BY <1>2, <1>5
  <2> HIDE DEF new
  <2>2. ToSet(gstack \o new) = ToSet(gstack) \cup ToSet(new)
    BY ONLY <2>1, PushSeq
  <2> QED
    BY <1>1, <1>5, <2>2
<1>8. OnlyReached /\ PendingSeen /\ PoppedFollowed
  BY <1>1 DEF GatherInv
<1>9. /\ Reached(prog)' = Reached(prog) /\ CodeEnd(prog)' = CodeEnd(prog) /\ Code' = Code
      /\ Address(prog)' = Address(prog) /\ Targets(prog)' = Targets(prog)
  BY <1>1 DEF Reached, CodeEnd, Code, Address, Targets
<1> HIDE DEF a, new
<1>10. OnlyReached'
  BY <1>1, <1>4, <1>6, <1>8, <1>9 DEF OnlyReached
<1>11. PendingSeen'
  <2>1. CodeEnd(prog) # a
    BY <1>2, <1>4
  <2>2. ASSUME NEW k \in 1 .. entries + 1
        PROVE  prog.pub[k] \in gvisited'
    <3>1. k \in 1 .. entries \/ k = entries + 1
      BY <1>2
    <3> QED
      BY <1>6, <1>8, <3>1 DEF PendingSeen, a
  <2>3. \A k \in 1 .. entries' : prog'.pub[k] \in gvisited'
    BY <1>1, <2>2
  <2> QED
    BY <1>6, <1>7, <1>8, <1>9, <2>1, <2>3 DEF PendingSeen
<1>12. PoppedFollowed'
  <2>1. gvisited' \ ToSet(gstack') \subseteq gvisited \ ToSet(gstack)
    BY <1>6, <1>7
  <2> QED
    BY <1>1, <1>6, <1>8, <1>9, <2>1 DEF PoppedFollowed
<1> QED
  BY <1>1, <1>10, <1>11, <1>12 DEF GatherInv

LEMMA GatherStepKeepsInv ==
  ASSUME TypeOK, GatherInv, Gather
  PROVE  GatherInv'
<1> DEFINE a == Last(gstack)
<1>1. /\ phase = "gather" /\ phase' = "gather" /\ gstack # << >>
      /\ a < CodeEnd(prog) /\ DecodeOk(Code, a)
      /\ incoming' = incoming \cup JumpTargets(Code[a])
      /\ UNCHANGED <<prog, entries>>
  BY DEF Gather
<1>2. PICK seen \in NextSeen(a) :
        /\ gstack' = Front(gstack) \o (JumpPush(a) \o NextPush(a, seen))
        /\ gvisited' = gvisited \cup ToSet(JumpPush(a) \o NextPush(a, seen))
  BY DEF Gather
<1>3. /\ WellFormed(prog) /\ gstack \in Seq(0 .. CodeEnd(prog)) /\ CodeEnd(prog) \in Nat
      /\ Address(prog) = 0 .. CodeEnd(prog) - 1
  BY ProgramTypes DEF TypeOK
<1>4. /\ Front(gstack) \in Seq(0 .. CodeEnd(prog)) /\ a \in 0 .. CodeEnd(prog)
      /\ ToSet(gstack) = ToSet(Front(gstack)) \cup {a}
  BY <1>1, <1>3, PopSeq
<1>5. a \in Address(prog) /\ a + 1 \in 0 .. CodeEnd(prog)
  BY <1>1, <1>3, <1>4
<1>6. JumpTargets(Code[a]) \subseteq Address(prog)
      /\ (JumpTargets(Code[a]) # {} => JumpTargets(Code[a]) = {Code[a].to})
  BY <1>1, <1>3, <1>5, ProgramTypes DEF JumpTargets
<1> DEFINE jump == JumpPush(a)
           next == NextPush(a, seen)
<1>7. jump \in Seq(0 .. CodeEnd(prog)) /\ ToSet(jump) = JumpTargets(Code[a]) \ gvisited
  <2>1. << >> \in Seq(0 .. CodeEnd(prog)) /\ ToSet(<< >>) = {}
    BY ShortSeq, Zenon
  <2>2. CASE JumpTargets(Code[a]) = {}
    BY <2>1, <2>2 DEF JumpPush
  <2>3. CASE JumpTargets(Code[a]) # {}
    <3>1. PICK to \in 0 .. CodeEnd(prog) : to = Code[a].to
      BY <1>3, <1>6, <2>3
    <3>2. <<to>> \in Seq(0 .. CodeEnd(prog)) /\ ToSet(<<to>>) = {to}
      BY ShortSeq, Zenon
    <3>3. jump = IF to \in gvisited THEN << >> ELSE <<to>>
      BY <2>3, <3>1 DEF JumpPush, PushIfNotVisited
    <3>4. JumpTargets(Code[a]) = {to}
      BY <1>6, <2>3, <3>1
    <3> HIDE DEF jump
    <3> QED
      BY <2>1, <3>2, <3>3, <3>4
  <2> QED
    BY <2>2, <2>3
<1>8. next \in Seq(0 .. CodeEnd(prog))
      /\ ToSet(next) = IF FallsThrough(Code[a]) /\ ~seen THEN {a + 1} ELSE {}
  <2>1. << >> \in Seq(0 .. CodeEnd(prog)) /\ ToSet(<< >>) = {}
        /\ <<a + 1>> \in Seq(0 .. CodeEnd(prog)) /\ ToSet(<<a + 1>>) = {a + 1}
    BY <1>5, ShortSeq, Zenon
  <2> QED
    BY <2>1, Zenon DEF NextPush
<1> DEFINE new == jump \o next
<1>9. new \in Seq(0 .. CodeEnd(prog)) /\ ToSet(new) = ToSet(jump) \cup ToSet(next)
  <2> HIDE DEF jump, next
  <2> QED
    BY <1>7, <1>8, PushSeq
<1>10. ToSet(gstack') = ToSet(Front(gstack)) \cup ToSet(new)
  <2>1. gstack' = Front(gstack) \o new
    BY <1>2
  <2> HIDE DEF new
  <2> QED
    BY <1>4, <1>9, <2>1, PushSeq
<1>11. gvisited' = gvisited \cup ToSet(new)
  BY <1>2
<1>12. OnlyReached /\ PendingSeen /\ PoppedFollowed
  BY <1>1 DEF GatherInv
<1>13. /\ Reached(prog)' = Reached(prog) /\ CodeEnd(prog)' = CodeEnd(prog) /\ Code' = Code
       /\ Address(prog)' = Address(prog) /\ Targets(prog)' = Targets(prog)
  BY <1>1 DEF Reached, CodeEnd, Code, Address, Targets
<1>14. a \in Reached(prog)
  BY <1>3, <1>4, <1>5, <1>12 DEF OnlyReached, PendingSeen
<1>15. \A s \in Address(prog) :
         s \in JumpTargets(Code[a]) \/ (s = a + 1 /\ FallsThrough(Code[a])) => s \in Reached(prog)
  BY <1>3, <1>14, ReachedLeast DEF Leads, Code
<1>16. ToSet(new) \subseteq Reached(prog) \cup {CodeEnd(prog)}
  <2>1. ToSet(jump) \subseteq Reached(prog)
    BY <1>6, <1>7, <1>15
  <2>2. ToSet(next) \subseteq Reached(prog) \cup {CodeEnd(prog)}
    <3>1. a + 1 \in Address(prog) \/ a + 1 = CodeEnd(prog)
      BY <1>3, <1>5
    <3> QED
      BY <1>8, <1>15, <3>1
  <2> QED
    BY <1>9, <2>1, <2>2
<1>17. JumpTargets(Code[a]) \subseteq gvisited'
  BY <1>7, <1>9, <1>11
<1>18. FallsThrough(Code[a]) /\ a + 1 \in Address(prog) => a + 1 \in gvisited'
  <2> SUFFICES ASSUME FallsThrough(Code[a]), a + 1 \in Address(prog)
               PROVE  a + 1 \in gvisited'
    OBVIOUS
  <2>1. a + 1 # CodeEnd(prog)
    BY <1>3, <1>5
  <2>2. seen = (a + 1 \in gvisited \/ a + 1 \in JumpTargets(Code[a]))
    BY <1>2, <2>1 DEF NextSeen
  <2>3. CASE seen
    BY <1>11, <1>17, <2>2, <2>3
  <2>4. CASE ~seen
    BY <1>8, <1>9, <1>11, <2>4
  <2> QED
    BY <2>2, <2>3, <2>4
<1>19. OnlyReached'
  <2>1. JumpTargets(Code[a]) \subseteq Targets(prog)
    BY <1>14 DEF Targets, Code
  <2> QED
    BY <1>1, <1>11, <1>12, <1>13, <1>16, <2>1 DEF OnlyReached
<1> HIDE DEF a, new
<1>20. PendingSeen'
  <2>1. ToSet(gstack') \subseteq gvisited'
    BY <1>4, <1>10, <1>11, <1>12 DEF PendingSeen
  <2>2. CodeEnd(prog) \in gvisited' => CodeEnd(prog) \in ToSet(gstack')
    <3>1. CodeEnd(prog) # a
      BY <1>3, <1>5
    <3> QED
      BY <1>4, <1>10, <1>11, <1>12, <3>1 DEF PendingSeen
  <2>3. \A k \in 1 .. entries' : prog'.pub[k] \in gvisited'
    BY <1>1, <1>11, <1>12 DEF PendingSeen
  <2> QED
    BY <1>13, <2>1, <2>2, <2>3 DEF PendingSeen
<1>21. PoppedFollowed'
  <2>1. \A x \in gvisited' \ ToSet(gstack') : x \in gvisited \ ToSet(gstack) \/ x = a
    BY <1>4, <1>10, <1>11
  <2>2. gvisited \subseteq gvisited' /\ incoming \subseteq incoming'
        /\ JumpTargets(Code[a]) \subseteq incoming'
    BY <1>1, <1>11
  <2> QED
    BY <1>12, <1>13, <1>17, <1>18, <2>1, <2>2 DEF PoppedFollowed
<1> QED
  BY <1>1, <1>19, <1>20, <1>21 DEF GatherInv

(* With nothing pending any more, what was seen is exactly what can be     *)
(* reached.                                                                *)
LEMMA GatherDoneExact ==
  ASSUME TypeOK, GatherInv, phase = "gather", entries = Len(prog.pub), gstack = << >>
  PROVE  incoming = Targets(prog)
<1>1. WellFormed(prog)
  BY DEF TypeOK
<1>2. OnlyReached /\ PendingSeen /\ PoppedFollowed /\ ToSet(gstack) = {}
  BY ShortSeq DEF GatherInv
<1>3. gvisited \in SUBSET Address(prog) /\ gvisited \subseteq Reached(prog)
  BY <1>1, <1>2, ReachedLeast DEF OnlyReached, PendingSeen
<1>4. ClosedUnderFlow(prog, gvisited)
  <2>1. \A k \in DOMAIN prog.pub : prog.pub[k] \in gvisited
    BY <1>1, <1>2, ProgramTypes DEF PendingSeen
  <2>2. \A a \in gvisited, s \in Address(prog) :
          s \in JumpTargets(prog.code[a]) \/ (s = a + 1 /\ FallsThrough(prog.code[a]))
            => s \in gvisited
    BY <1>2 DEF PoppedFollowed, Code
  <2> QED
    BY <2>1, <2>2 DEF ClosedUnderFlow
<1>5. Reached(prog) = gvisited
  BY <1>1, <1>3, <1>4, ReachedLeast
<1>6. \A a \in Reached(prog) : JumpTargets(prog.code[a]) \subseteq incoming
  BY <1>2, <1>5 DEF PoppedFollowed, Code
<1> QED
  BY <1>2, <1>6 DEF OnlyReached, Targets

LEMMA GatherInvariant == Safety => []GatherInv
<1>1. Init => GatherInv
  <2> SUFFICES ASSUME Init PROVE GatherInv
    OBVIOUS
  <2>1. /\ phase = "gather" /\ entries = 0 /\ gvisited = {} /\ incoming = {}
        /\ ToSet(gstack) = {}
    BY ShortSeq DEF Init
  <2> QED
    BY <2>1 DEF GatherInv, OnlyReached, PendingSeen, PoppedFollowed
<1>2. TypeOK /\ GatherInv /\ [Next]_vars => GatherInv'
  <2> SUFFICES ASSUME TypeOK, GatherInv, [Next]_vars PROVE GatherInv'
    OBVIOUS
  <2>1. CASE GatherEntry
    BY <2>1, GatherEntryKeepsInv
  <2>2. CASE Gather
    BY <2>2, GatherStepKeepsInv
  <2>3. CASE GatherReject
    BY <2>3 DEF GatherReject, GatherInv
  <2>4. CASE GatherDone
    <3>1. phase = "gather" /\ entries = Len(prog.pub) /\ gstack = << >>
          /\ phase' = "depth" /\ UNCHANGED <<prog, incoming>>
      BY <2>4 DEF GatherDone, gatherVars
    <3>2. incoming = Targets(prog)
      BY <3>1, GatherDoneExact
    <3>3. Targets(prog)' = Targets(prog)
      BY <3>1 DEF Targets, Reached, Address
    <3> QED
      BY <3>1, <3>2, <3>3 DEF GatherInv
  <2>5. CASE WalkStep \/ WalkReject \/ WalkDone \/ UNCHANGED vars
    <3>1. UNCHANGED <<prog, entries, gstack, gvisited, incoming>>
          /\ (UNCHANGED phase \/ (phase = "depth" /\ phase' # "gather"))
      BY <2>5 DEF WalkStep, WalkJmp, WalkCjmp, WalkEnd, WalkOther, WalkFail, Walk,
                  WalkReject, WalkDone, vars, gatherVars
    <3>2. /\ Reached(prog)' = Reached(prog) /\ CodeEnd(prog)' = CodeEnd(prog) /\ Code' = Code
          /\ Address(prog)' = Address(prog) /\ Targets(prog)' = Targets(prog)
      BY <3>1 DEF Reached, CodeEnd, Code, Address, Targets
    <3> QED
      BY <3>1, <3>2 DEF GatherInv, OnlyReached, PendingSeen, PoppedFollowed
  <2> QED
    BY <2>1, <2>2, <2>3, <2>4, <2>5 DEF Next, WalkStep
<1> QED
  BY <1>1, <1>2, TypeCorrect, PTL DEF Safety

(* gather_incoming_cf hands check_depth the targets of the jumps and calls *)
(* that can be reached and no other address.                               *)
THEOREM GatherExact == Safety => []IncomingExact
<1>1. GatherInv => IncomingExact
  BY DEF GatherInv, IncomingExact, Targets, Code
<1> QED
  BY <1>1, GatherInvariant, PTL

-----------------------------------------------------------------------------
(***************************************************************************)
(* One depth for every instruction                                         *)
(***************************************************************************)

(* Where a scheduled pair comes from: the start of a public function, a    *)
(* jump, or the instruction before it.                                     *)
Origin(x, d) ==
  \/ x \in Entries /\ d = 0
  \/ x \in incoming
  \/ \E c \in Nat : /\ <<x - 1, c>> \in walked /\ x - 1 \in Address(prog)
                    /\ DeclaredKind(Code[x - 1]) \in {"CJMP", "OTHER"}
                    /\ d = c + DeclaredChange(Code[x - 1])

OriginInv ==
  Disciplined(prog) =>
    \A w \in Scheduled :
      Origin(w[1], w[2]) /\ w[1] \in Reached(prog) \cup {CodeEnd(prog)}

(* Without a STOP the walk goes where gather_incoming_cf went.             *)
LEMMA SameFlow ==
  ASSUME NEW i \in Instr, i.op # "STOP"
  PROVE  /\ DeclaredKind(i) \in {"CJMP", "OTHER"} => FallsThrough(i)
         /\ DeclaredKind(i) \in {"JMP", "CJMP"} => JumpTargets(i) = {i.to}
<1>1. DeclaredKind(i) \in {"CJMP", "OTHER"} => i.op \notin {"JMP", "END", "FAIL"}
  BY DEF DeclaredKind
<1>2. DeclaredKind(i) \in {"JMP", "CJMP"} => i.op \in {"JMP", "CJMP"}
  BY DEF DeclaredKind
<1> QED
  BY <1>1, <1>2 DEF FallsThrough, EndsGather, JumpTargets

LEMMA OriginWalkStep ==
  ASSUME TypeOK, GatherInv, OriginInv, phase = "depth", WalkStep
  PROVE  OriginInv'
<1> DEFINE t == Last(work)
           i == Code[t.ip]
           kind == DeclaredKind(i)
           next == Follow(t, t.ip + 1)
           jump == Follow(t, i.to)
<1>1. /\ work # << >> /\ Passes(t) /\ UNCHANGED <<prog, phase, incoming>>
      /\ walked' = walked \cup {<<t.ip, t.depth>>}
  BY WalkStepFacts
<1>2. /\ t \in Trackers /\ t.ip \in Address(prog) /\ i \in Instr
      /\ NewDepth(t) = t.depth + DeclaredChange(i)
      /\ ToSet(work) = ToSet(Front(work)) \cup {t}
      /\ next.ip = t.ip + 1 /\ next.depth = NewDepth(t)
      /\ kind \in {"JMP", "CJMP"} => i.to \in Address(prog)
      /\ jump.ip = i.to /\ jump.depth = NewDepth(t)
  BY <1>1, WalkTypes DEF Follow, Tracker
<1>3. ToSet(work') \subseteq ToSet(work)
        \cup (IF kind \in {"JMP", "CJMP"} THEN {jump} ELSE {})
        \cup (IF kind \in {"CJMP", "OTHER"} THEN {next} ELSE {})
  BY <1>2, WalkStepEffect
<1>4. t.depth \in Nat
  BY <1>2 DEF Trackers
<1>5. /\ WellFormed(prog) /\ CodeEnd(prog) \in Nat /\ Address(prog) = 0 .. CodeEnd(prog) - 1
  BY ProgramTypes DEF TypeOK
<1>6. <<t.ip, t.depth>> \in Scheduled
  BY <1>2 DEF Scheduled
<1>7. ASSUME NEW w \in Scheduled'
      PROVE  \/ w \in Scheduled
             \/ kind \in {"JMP", "CJMP"} /\ w = <<i.to, NewDepth(t)>>
             \/ kind \in {"CJMP", "OTHER"} /\ w = <<t.ip + 1, NewDepth(t)>>
  <2>1. CASE w \in walked'
    BY <1>1, <1>6, <2>1 DEF Scheduled
  <2>2. CASE \E u \in ToSet(work') : w = <<u.ip, u.depth>>
    <3>1. PICK u \in ToSet(work') : w = <<u.ip, u.depth>>
      BY <2>2
    <3>2. \/ u \in ToSet(work)
          \/ kind \in {"JMP", "CJMP"} /\ u = jump
          \/ kind \in {"CJMP", "OTHER"} /\ u = next
      BY <1>3
    <3> HIDE DEF jump, next, kind, t, i
    <3>3. u \in ToSet(work) => w \in Scheduled
      BY <3>1 DEF Scheduled
    <3>4. u = jump => w = <<jump.ip, jump.depth>>
      BY <3>1
    <3>5. u = next => w = <<next.ip, next.depth>>
      BY <3>1
    <3> QED
      BY <1>2, <3>2, <3>3, <3>4, <3>5
  <2> QED
    BY <2>1, <2>2 DEF Scheduled
<1>8. /\ Reached(prog)' = Reached(prog) /\ CodeEnd(prog)' = CodeEnd(prog) /\ Code' = Code
      /\ Address(prog)' = Address(prog) /\ Entries' = Entries
      /\ Disciplined(prog)' = Disciplined(prog)
  BY <1>1 DEF Reached, CodeEnd, Code, Address, Entries, Disciplined
<1>9. SUFFICES ASSUME Disciplined(prog), NEW w \in Scheduled'
               PROVE  Origin(w[1], w[2])' /\ w[1] \in Reached(prog) \cup {CodeEnd(prog)}
  BY <1>8 DEF OriginInv
<1>10. i.op # "STOP"
  BY <1>2, <1>9 DEF Disciplined, Code
<1>11. t.ip \in Reached(prog)
  BY <1>2, <1>5, <1>6, <1>9 DEF OriginInv
<1>12. \A s \in Address(prog) :
         s \in JumpTargets(i) \/ (s = t.ip + 1 /\ FallsThrough(i)) => s \in Reached(prog)
  BY <1>5, <1>11, ReachedLeast DEF Leads, Code
<1>13. /\ kind \in {"CJMP", "OTHER"} => FallsThrough(i)
       /\ kind \in {"JMP", "CJMP"} => JumpTargets(i) = {i.to}
  BY <1>2, <1>10, SameFlow
<1>14. CASE w \in Scheduled
  <2>1. Origin(w[1], w[2]) /\ w[1] \in Reached(prog) \cup {CodeEnd(prog)}
    BY <1>9, <1>14 DEF OriginInv
  <2>2. walked \subseteq walked'
    BY <1>1
  <2> QED
    BY <1>1, <1>8, <2>1, <2>2 DEF Origin
<1>15. CASE kind \in {"JMP", "CJMP"} /\ w = <<i.to, NewDepth(t)>>
  <2>1. i.to \in Reached(prog)
    BY <1>2, <1>12, <1>13, <1>15
  <2>2. i.to \in incoming
    <3>1. incoming = Targets(prog)
      BY DEF GatherInv
    <3> QED
      BY <1>11, <1>13, <1>15, <3>1 DEF Targets, Code
  <2> QED
    BY <1>1, <1>15, <2>1, <2>2 DEF Origin
<1>16. CASE kind \in {"CJMP", "OTHER"} /\ w = <<t.ip + 1, NewDepth(t)>>
  <2>1. PICK x \in Nat : x = t.ip /\ x \in Address(prog)
    BY <1>2, <1>5
  <2>2. PICK d \in Nat : d = t.depth
    BY <1>4
  <2>3. w[1] = x + 1 /\ w[2] = d + DeclaredChange(Code[x])
    BY <1>2, <1>16, <2>1, <2>2
  <2>4. x + 1 \in Reached(prog) \cup {CodeEnd(prog)}
    <3>1. x + 1 \in Address(prog) \/ x + 1 = CodeEnd(prog)
      BY <1>5, <2>1
    <3> QED
      BY <1>12, <1>13, <1>16, <2>1, <3>1
  <2>5. (x + 1) - 1 = x /\ <<x, d>> \in walked'
    BY <1>1, <2>1, <2>2
  <2>6. Origin(x + 1, w[2])'
    BY <1>8, <1>16, <2>1, <2>3, <2>5 DEF Origin
  <2> QED
    BY <2>3, <2>4, <2>6
<1> QED
  BY <1>7, <1>9, <1>14, <1>15, <1>16

LEMMA OriginInvariant == Safety => []OriginInv
<1>1. Init => OriginInv
  <2> SUFFICES ASSUME Init PROVE OriginInv
    OBVIOUS
  <2>1. walked = {} /\ ToSet(work) = {}
    BY ShortSeq DEF Init
  <2> QED
    BY <2>1 DEF OriginInv, Scheduled
<1>2. TypeOK /\ GatherInv /\ WalkInv /\ OriginInv /\ [Next]_vars => OriginInv'
  <2> SUFFICES ASSUME TypeOK, GatherInv, WalkInv, OriginInv, [Next]_vars PROVE OriginInv'
    OBVIOUS
  <2>1. CASE WalkStep
    <3>1. phase = "depth"
      BY <2>1 DEF WalkStep, WalkJmp, WalkCjmp, WalkEnd, WalkOther, WalkFail, Walk
    <3> QED
      BY <2>1, <3>1, OriginWalkStep
  <2>2. CASE GatherEntry \/ Gather
    <3>1. phase = "gather" /\ UNCHANGED <<work, walked>>
      BY <2>2 DEF GatherEntry, Gather, depthVars
    <3>2. walked' = {} /\ ToSet(work') = {}
      BY <3>1, ShortSeq DEF WalkInv, PhaseInv
    <3> QED
      BY <3>2 DEF OriginInv, Scheduled
  <2>3. CASE GatherDone
    <3>1. /\ phase = "gather" /\ phase' = "depth" /\ UNCHANGED <<prog, walked>>
          /\ work' = [k \in DOMAIN prog.pub |-> Tracker(prog.pub[k], prog.pub[k], 0, 0)]
      BY <2>3 DEF GatherDone
    <3>2. walked' = {}
      BY <3>1 DEF WalkInv, PhaseInv
    <3>3. ASSUME NEW w \in Scheduled'
          PROVE  w[1] \in Entries /\ w[2] = 0 /\ w[1] \in Reached(prog)
      <4>1. PICK u \in ToSet(work') : w = <<u.ip, u.depth>>
        BY <3>2 DEF Scheduled
      <4>2. PICK k \in DOMAIN prog.pub : u = Tracker(prog.pub[k], prog.pub[k], 0, 0)
        BY <3>1 DEF ToSet
      <4>3. w[1] = prog.pub[k] /\ w[2] = 0
        BY <4>1, <4>2 DEF Tracker
      <4>4. prog.pub[k] \in Reached(prog)
        BY ReachedLeast DEF TypeOK
      <4> QED
        BY <4>3, <4>4 DEF Entries
    <3>4. Entries' = Entries /\ Reached(prog)' = Reached(prog)
      BY <3>1 DEF Entries, Reached, Address
    <3>5. \A w \in Scheduled' : Origin(w[1], w[2])' /\ w[1] \in Reached(prog)'
      BY <3>3, <3>4 DEF Origin
    <3> QED
      BY <3>5 DEF OriginInv
  <2>4. CASE GatherReject \/ WalkReject \/ WalkDone \/ UNCHANGED vars
    <3>1. UNCHANGED <<prog, incoming, work, walked>>
      BY <2>4 DEF GatherReject, WalkReject, WalkDone, vars, gatherVars, depthVars
    <3>2. /\ Reached(prog)' = Reached(prog) /\ CodeEnd(prog)' = CodeEnd(prog) /\ Code' = Code
          /\ Address(prog)' = Address(prog) /\ Entries' = Entries
          /\ Disciplined(prog)' = Disciplined(prog) /\ Scheduled' = Scheduled
      BY <3>1 DEF Reached, CodeEnd, Code, Address, Entries, Disciplined, Scheduled
    <3> QED
      BY <3>1, <3>2 DEF OriginInv, Origin
  <2> QED
    BY <2>1, <2>2, <2>3, <2>4 DEF Next, WalkStep
<1> QED
  BY <1>1, <1>2, TypeCorrect, WalkInvariant, GatherInvariant, PTL DEF Safety

(* In a program without STOP, where no public function is fallen into,     *)
(* every instruction is walked with one depth.  The least address with two *)
(* depths would have come by them from the instruction before it, which    *)
(* has one only.                                                           *)
THEOREM DepthsUnique == Safety => []DepthUnique
<1>1. TypeOK /\ WalkInv /\ OriginInv /\ JoinDepthUnique => DepthUnique
  <2> SUFFICES ASSUME TypeOK, WalkInv, OriginInv, JoinDepthUnique, Disciplined(prog)
               PROVE  \A v, w \in walked : v[1] = w[1] => v[2] = w[2]
    BY DEF DepthUnique
  <2> DEFINE Twice == {x \in Nat : \E c, d \in Nat : /\ <<x, c>> \in walked
                                                     /\ <<x, d>> \in walked /\ c # d}
  <2>1. /\ WellFormed(prog) /\ CodeEnd(prog) \in Nat
        /\ Address(prog) = 0 .. CodeEnd(prog) - 1
        /\ walked \subseteq Address(prog) \X Nat
    BY ProgramTypes DEF TypeOK
  <2>2. Twice = {}
    <3> SUFFICES ASSUME Twice # {} PROVE FALSE
      OBVIOUS
    <3>1. PICK x \in Twice : \A y \in Twice : x <= y
      BY LeastNat
    <3>2. PICK c \in Nat, d \in Nat : <<x, c>> \in walked /\ <<x, d>> \in walked /\ c # d
      OBVIOUS
    <3>3. x \notin incoming
      BY <3>2 DEF JoinDepthUnique
    <3>4. x \in Address(prog) /\ Origin(x, c) /\ Origin(x, d)
      BY <2>1, <3>2 DEF OriginInv, Scheduled
    <3>5. CASE x \in Entries
      <4>1. ASSUME NEW e \in Nat, Origin(x, e)
            PROVE  e = 0
        <5>1. PICK k \in DOMAIN prog.pub : prog.pub[k] = x
          BY <3>5 DEF Entries
        <5>2. ~(x - 1 \in Address(prog) /\ DeclaredKind(Code[x - 1]) \in {"CJMP", "OTHER"})
          <6>1. x - 1 + 1 = x
            BY <2>1, <3>4
          <6> QED
            BY <5>1, <6>1 DEF Disciplined, Code
        <5> QED
          BY <3>3, <4>1, <5>2 DEF Origin
      <4> QED
        BY <3>2, <3>4, <4>1
    <3>6. CASE x \notin Entries
      <4>1. PICK b \in Nat : /\ <<x - 1, b>> \in walked
                             /\ c = b + DeclaredChange(Code[x - 1])
        BY <3>3, <3>4, <3>6 DEF Origin
      <4>2. PICK a \in Nat : /\ <<x - 1, a>> \in walked
                             /\ d = a + DeclaredChange(Code[x - 1])
        BY <3>3, <3>4, <3>6 DEF Origin
      <4>3. a # b
        BY <3>2, <4>1, <4>2
      <4>4. x - 1 \in Nat
        BY <2>1, <4>1
      <4>5. x - 1 \in Twice
        BY <4>1, <4>2, <4>3, <4>4
      <4>6. x <= x - 1 /\ x \in Nat
        BY <3>1, <4>5
      <4> QED
        BY <4>6
    <3> QED
      BY <3>5, <3>6
  <2>3. ASSUME NEW v \in walked, NEW w \in walked, v[1] = w[1]
        PROVE  v[2] = w[2]
    <3>1. v = <<v[1], v[2]>> /\ w = <<v[1], w[2]>> /\ v[1] \in Nat /\ v[2] \in Nat /\ w[2] \in Nat
      BY <2>1, <2>3
    <3> QED
      BY <2>2, <3>1
  <2> QED
    BY <2>3
<1> QED
  BY <1>1, TypeCorrect, WalkInvariant, OriginInvariant, JoinsSound, PTL

-----------------------------------------------------------------------------
(***************************************************************************)
(* The stack recorded for the public functions                             *)
(***************************************************************************)

(* The addresses up to some JMP.                                           *)
Zone(p) == {x \in Address(p) : \E a \in Address(p) : p.code[a].op = "JMP" /\ x <= a}

WalkedAt == {w[1] : w \in walked}

(* A tracker knows the deepest stack of its path, and reports it to a      *)
(* public function.                                                        *)
MaxAhead == \A u \in ToSet(work) : u.depth <= u.max /\ u.fn \in Entries

(* A depth the walk has passed was reported, or a tracker will report it.  *)
Covered ==
  \A w \in walked :
    \/ \E e \in Entries : w[2] <= maxStack[e]
    \/ \E u \in ToSet(work) : w[2] <= u.max

(* Up to the last JMP every address is walked once: no two trackers are    *)
(* there, none comes back, and one that is there came by the one way.      *)
OnceEach ==
  /\ \A k, l \in DOMAIN work :
       work[k].ip \in Zone(prog) /\ work[k].ip = work[l].ip => k = l
  /\ \A k \in DOMAIN work : work[k].ip \in Zone(prog) => work[k].ip \notin WalkedAt

CameBy ==
  \A y \in Zone(prog) :
    y \in WalkedAt \/ (\E k \in DOMAIN work : work[k].ip = y) =>
      \E v \in WaysIn(prog, y) : v[1] = "entry" \/ v[2] \in WalkedAt

VisitedBy ==
  \A s \in visited :
    \E b \in WalkedAt : Code[b].op \in {"JMP", "CJMP"} /\ Code[b].to = s

MaxInv ==
  /\ MaxAhead
  /\ KeepsMax(prog) => Covered /\ OnceEach /\ CameBy /\ VisitedBy

(* Up to a JMP there is one way to each address, from below if by a jump.  *)
LEMMA ZoneFacts ==
  ASSUME WellFormed(prog), KeepsMax(prog), NEW x \in Zone(prog)
  PROVE  /\ \A v, w \in WaysIn(prog, x) : v = w
         /\ \A v \in WaysIn(prog, x) : v[1] = "jump" => v[2] < x
         /\ \A y \in Address(prog) : y < x => y \in Zone(prog)
<1>1. /\ CodeEnd(prog) \in Nat /\ Address(prog) = 0 .. CodeEnd(prog) - 1
  BY ProgramTypes
<1>2. PICK a \in Address(prog) : prog.code[a].op = "JMP" /\ x <= a
  BY DEF Zone
<1>3. x \in 0 .. a /\ x \in Address(prog)
  BY <1>1, <1>2 DEF Zone
<1>4. OneWayIn(prog, x)
  BY <1>2, <1>3 DEF KeepsMax
<1>5. \A y \in Address(prog) : y < x => y <= a
  BY <1>1, <1>2, <1>3
<1> QED
  BY <1>2, <1>4, <1>5 DEF OneWayIn, Zone

(* The trackers an iteration leaves, by their positions: those it did not  *)
(* pop, and above them the ones it pushed, the jump below the next.        *)
LEMMA WorkPositions ==
  ASSUME TypeOK, WalkStep, NEW t, t = Last(work), NEW i, i = Code[t.ip],
         NEW n, n = Len(work)
  PROVE  LET kind == DeclaredKind(i)
             next == Follow(t, t.ip + 1)
             jump == Follow(t, i.to)
             JumpAt(k) == /\ k = n /\ work'[k] = jump
                          /\ kind \in {"JMP", "CJMP"} /\ i.to \notin visited
             NextAt(k) == k >= n /\ work'[k] = next /\ kind \in {"CJMP", "OTHER"}
         IN  /\ n \in Nat \ {0} /\ DOMAIN work = 1 .. n /\ work[n] = t
             /\ \A k \in DOMAIN work' :
                  \/ k \in 1 .. n - 1 /\ work'[k] = work[k]
                  \/ JumpAt(k)
                  \/ NextAt(k)
             /\ \A k, l \in DOMAIN work' :
                  k < l /\ k >= n => kind = "CJMP" /\ work'[k] = jump /\ work'[l] = next
             /\ \A k \in 1 .. n - 1 : k \in DOMAIN work'
<1> DEFINE kind == DeclaredKind(i)
           next == Follow(t, t.ip + 1)
           jump == Follow(t, i.to)
           rest == Front(work)
           pushed == rest \o JumpWork(t)
<1>1. work # << >> /\ Passes(t)
  BY WalkStepFacts
<1>2. work \in Seq(Trackers)
  BY DEF TypeOK
<1>3. /\ n \in Nat \ {0} /\ DOMAIN work = 1 .. n /\ work[n] = t
      /\ rest \in Seq(Trackers) /\ Len(rest) = n - 1
      /\ \A k \in 1 .. n - 1 : rest[k] = work[k]
  BY <1>1, <1>2, LastSeq
<1>4. next \in Trackers /\ DOMAIN rest = 1 .. n - 1
  BY <1>1, <1>3, WalkTypes, LenProperties
<1>5. ASSUME kind \in {"JMP", "CJMP"}
      PROVE  /\ pushed \in Seq(Trackers)
             /\ i.to \in visited => pushed = rest
             /\ i.to \notin visited =>
                  /\ Len(pushed) = n /\ DOMAIN pushed = 1 .. n /\ pushed[n] = jump
                  /\ \A k \in 1 .. n - 1 : pushed[k] = work[k]
  <2>1. pushed \in Seq(Trackers)
    BY <1>1, <1>5, JumpTypes
  <2>2. i.to \in visited => pushed = rest
    BY <1>3 DEF JumpWork
  <2>3. ASSUME i.to \notin visited
        PROVE  /\ Len(pushed) = n /\ DOMAIN pushed = 1 .. n /\ pushed[n] = jump
               /\ \A k \in 1 .. n - 1 : pushed[k] = work[k]
    <3>1. jump \in Trackers
      <4>1. i.to \in 0 .. CodeEnd(prog)
        BY <1>1, <1>5, WalkTypes, ProgramTypes, SMTT(30) DEF TypeOK
      <4> QED
        BY <1>1, <4>1, WalkTypes
    <3>2. pushed = Append(rest, jump)
      BY <1>3, <2>3 DEF JumpWork
    <3> HIDE DEF rest, jump, pushed
    <3>3. /\ Len(pushed) = Len(rest) + 1 /\ DOMAIN pushed = 1 .. Len(rest) + 1
          /\ \A k \in 1 .. Len(rest) : pushed[k] = rest[k]
          /\ pushed[Len(rest) + 1] = jump
      BY <1>3, <3>1, <3>2, AppendAt
    <3>4. Len(rest) + 1 = n
      BY <1>3
    <3> QED
      BY <1>3, <3>3, <3>4
  <2> QED
    BY <2>1, <2>2, <2>3
<1>6. CASE WalkJmp
  <2>1. kind = "JMP" /\ work' = pushed
    BY <1>6 DEF WalkJmp, Walk
  <2> HIDE DEF kind, rest, jump, next, pushed
  <2> QED
    BY <1>3, <1>4, <1>5, <2>1 DEF kind, jump, next
<1>7. CASE WalkCjmp
  <2>1. kind = "CJMP" /\ work' = pushed \o <<next>>
    BY <1>7 DEF WalkCjmp, Walk
  <2>2. pushed \in Seq(Trackers)
    BY <1>5, <2>1
  <2>3. /\ work' = Append(pushed, next)
    <3> HIDE DEF pushed, next
    <3> QED
      BY <2>1, <2>2
  <2> HIDE DEF kind, rest, jump, next, pushed
  <2>4. /\ DOMAIN work' = 1 .. Len(pushed) + 1
        /\ \A k \in 1 .. Len(pushed) : work'[k] = pushed[k]
        /\ work'[Len(pushed) + 1] = next
    BY <1>4, <2>2, <2>3, AppendAt
  <2>5. CASE i.to \in visited
    <3>1. pushed = rest
      BY <1>5, <2>1, <2>5
    <3> QED
      BY <1>3, <2>1, <2>4, <3>1, SMTT(30) DEF kind, jump, next
  <2>6. CASE i.to \notin visited
    <3>1. /\ Len(pushed) = n /\ pushed[n] = jump
          /\ \A k \in 1 .. n - 1 : pushed[k] = work[k]
      BY <1>5, <2>1, <2>6
    <3>2. /\ DOMAIN work' = 1 .. n + 1
          /\ \A k \in 1 .. n - 1 : work'[k] = work[k]
          /\ work'[n] = jump /\ work'[n + 1] = next
      BY <1>3, <2>4, <3>1
    <3>3. \A k \in 1 .. n + 1 : k \in 1 .. n - 1 \/ k = n \/ k = n + 1
      BY <1>3
    <3>4. \A k, l \in 1 .. n + 1 : k < l /\ k >= n => k = n /\ l = n + 1
      BY <1>3
    <3>5. n + 1 >= n /\ \A k \in 1 .. n - 1 : k \in 1 .. n + 1
      BY <1>3
    <3> QED
      BY <1>3, <2>1, <2>6, <3>2, <3>3, <3>4, <3>5 DEF kind, jump, next
  <2> QED
    BY <2>5, <2>6
<1>8. CASE WalkOther
  <2>1. kind = "OTHER" /\ work' = Append(rest, next)
    BY <1>8 DEF WalkOther, Walk
  <2> HIDE DEF kind, rest, jump, next, pushed
  <2>2. /\ DOMAIN work' = 1 .. Len(rest) + 1
        /\ \A k \in 1 .. Len(rest) : work'[k] = rest[k]
        /\ work'[Len(rest) + 1] = next
    BY <1>3, <1>4, <2>1, AppendAt
  <2> QED
    BY <1>3, <2>1, <2>2 DEF kind, jump, next
<1>9. CASE WalkEnd \/ WalkFail
  <2>1. work' = rest
    BY <1>9 DEF WalkEnd, WalkFail
  <2> HIDE DEF kind, rest, jump, next, pushed
  <2> QED
    BY <1>3, <1>4, <2>1 DEF kind, jump, next
<1> QED
  BY <1>6, <1>7, <1>8, <1>9 DEF WalkStep

(* What an iteration walks is walked for the first time, in the zone.      *)
LEMMA OnceStep ==
  ASSUME TypeOK, WalkStep, KeepsMax(prog), OnceEach, CameBy, VisitedBy
  PROVE  OnceEach' /\ CameBy' /\ VisitedBy'
<1> DEFINE t == Last(work)
           i == Code[t.ip]
           n == Len(work)
           kind == DeclaredKind(i)
           next == Follow(t, t.ip + 1)
           jump == Follow(t, i.to)
<1>1. /\ work # << >> /\ Passes(t) /\ UNCHANGED <<prog, phase, incoming>>
      /\ walked' = walked \cup {<<t.ip, t.depth>>}
      /\ kind \in {"JMP", "CJMP"} => visited' = visited \cup {i.to}
      /\ kind \notin {"JMP", "CJMP"} => visited' = visited
  BY WalkStepFacts
<1>2. /\ t.ip \in Address(prog) /\ next.ip = t.ip + 1 /\ jump.ip = i.to
  BY <1>1, WalkTypes DEF Follow, Tracker
<1>3. /\ WellFormed(prog) /\ CodeEnd(prog) \in Nat /\ Address(prog) = 0 .. CodeEnd(prog) - 1
  BY ProgramTypes DEF TypeOK
<1>4. WalkedAt' = WalkedAt \cup {t.ip}
  <2>1. /\ \A w \in walked' : w \in walked \/ w[1] = t.ip
        /\ \A w \in walked : w \in walked'
        /\ <<t.ip, t.depth>> \in walked' /\ <<t.ip, t.depth>>[1] = t.ip
    BY <1>1
  <2> HIDE DEF t
  <2> QED
    BY <2>1 DEF WalkedAt
<1>5. /\ Zone(prog)' = Zone(prog) /\ Code' = Code /\ \A y : WaysIn(prog', y) = WaysIn(prog, y)
  BY <1>1 DEF Zone, Code, WaysIn, Address
<1>6. kind \in {"JMP", "CJMP"} => i.op \in {"JMP", "CJMP"}
  BY DEF DeclaredKind
<1>7. /\ n \in Nat \ {0} /\ DOMAIN work = 1 .. n /\ work[n] = t
      /\ \A k \in DOMAIN work' :
           \/ k \in 1 .. n - 1 /\ work'[k] = work[k]
           \/ k = n /\ work'[k] = jump /\ kind \in {"JMP", "CJMP"}
           \/ k >= n /\ work'[k] = next /\ kind \in {"CJMP", "OTHER"}
      /\ \A k, l \in DOMAIN work' :
           k < l /\ k >= n => kind = "CJMP" /\ work'[k] = jump /\ work'[l] = next
      /\ \A k \in 1 .. n - 1 : k \in DOMAIN work'
  BY WorkPositions
<1>8. t.ip \in Zone(prog) => t.ip \notin WalkedAt
  BY <1>7 DEF OnceEach
<1> DEFINE jumpWay == <<"jump", t.ip>>
           nextWay == <<"next", t.ip>>
<1>9. ASSUME NEW y \in Zone(prog)
      PROVE  /\ kind \in {"JMP", "CJMP"} /\ y = i.to => jumpWay \in WaysIn(prog, y)
             /\ kind \in {"CJMP", "OTHER"} /\ y = t.ip + 1 => nextWay \in WaysIn(prog, y)
  BY <1>2, <1>6 DEF WaysIn, Code
(* an address in the zone that an iteration leads to                       *)
<1> DEFINE Led(y) == \/ kind \in {"JMP", "CJMP"} /\ y = i.to
                     \/ kind \in {"CJMP", "OTHER"} /\ y = t.ip + 1
<1>10. ASSUME NEW y \in Zone(prog), Led(y)
       PROVE  /\ y # t.ip /\ y \notin WalkedAt
              /\ \A k \in 1 .. n : work[k].ip # y
  <2>1. PICK v \in WaysIn(prog, y) : v = jumpWay \/ (v = nextWay /\ y = t.ip + 1)
    BY <1>9, <1>10
  <2>2. v[2] = t.ip /\ v[1] # "entry" /\ (v[1] = "jump" \/ y = t.ip + 1)
    BY <2>1
  <2>3. t.ip < y
    <3>1. v[1] = "jump" => v[2] < y
      BY <1>3, ZoneFacts
    <3> QED
      BY <1>2, <1>3, <2>2, <3>1
  <2>4. t.ip \in Zone(prog)
    BY <1>2, <1>3, <2>3, ZoneFacts
  <2>5. ASSUME y \in WalkedAt \/ (\E k \in DOMAIN work : work[k].ip = y)
        PROVE  FALSE
    <3>1. PICK w \in WaysIn(prog, y) : w[1] = "entry" \/ w[2] \in WalkedAt
      BY <2>5 DEF CameBy
    <3>2. w = v
      BY <1>3, ZoneFacts
    <3> QED
      BY <1>8, <2>2, <2>4, <3>1, <3>2
  <2> QED
    BY <1>2, <1>3, <1>7, <2>3, <2>5
<1> HIDE DEF t, i, n, kind, next, jump, Led
<1>11. \A k \in DOMAIN work' :
         \/ k \in 1 .. n - 1 /\ work'[k] = work[k]
         \/ k \notin 1 .. n - 1 /\ Led(work'[k].ip)
  BY <1>2, <1>7 DEF Led
<1>12. OnceEach'
  <2>1. ASSUME NEW k \in DOMAIN work', work'[k].ip \in Zone(prog)
        PROVE  work'[k].ip \notin WalkedAt'
    <3>1. CASE k \in 1 .. n - 1 /\ work'[k] = work[k]
      <4>1. k \in DOMAIN work /\ n \in DOMAIN work /\ k # n
        BY <1>7, <3>1
      <4>2. work[k].ip \notin WalkedAt /\ work[k].ip # t.ip
        BY <1>7, <2>1, <3>1, <4>1 DEF OnceEach
      <4> QED
        BY <1>4, <3>1, <4>2
    <3>2. CASE k \notin 1 .. n - 1 /\ Led(work'[k].ip)
      BY <1>4, <1>10, <2>1, <3>2
    <3> QED
      BY <1>11, <3>1, <3>2
  <2>2. ASSUME NEW k \in DOMAIN work', NEW l \in DOMAIN work',
               work'[k].ip \in Zone(prog), work'[k].ip = work'[l].ip, k < l
        PROVE  FALSE
    <3>1. k \in Int /\ l \in Int
      <4>1. work' \in Seq(Trackers)
        BY WalkKeepsTypes, ProgramUnchanged, <1>1 DEF TypeOK, WalkStep
      <4> QED
        BY <4>1, LenProperties
    <3>2. CASE l \in 1 .. n - 1
      <4>1. k \in 1 .. n - 1
        BY <1>7, <1>11, <2>2, <3>1, <3>2
      <4>2. k \in DOMAIN work /\ l \in DOMAIN work /\ work'[k] = work[k] /\ work'[l] = work[l]
        BY <1>7, <1>11, <3>2, <4>1
      <4> QED
        BY <2>2, <3>1, <4>2 DEF OnceEach
    <3>3. CASE l \notin 1 .. n - 1 /\ k \in 1 .. n - 1
      <4>1. Led(work'[l].ip) /\ work'[k] = work[k] /\ k \in 1 .. n
        BY <1>7, <1>11, <3>3
      <4> QED
        BY <1>10, <2>2, <4>1
    <3>4. CASE k \notin 1 .. n - 1
      <4>1. k >= n
        BY <1>7, <3>1, <3>4
      <4>2. kind = "CJMP" /\ work'[k].ip = i.to /\ work'[l].ip = t.ip + 1
        BY <1>2, <1>7, <2>2, <4>1
      <4>3. jumpWay \in WaysIn(prog, work'[k].ip) /\ nextWay \in WaysIn(prog, work'[k].ip)
        BY <1>9, <2>2, <4>2
      <4>4. jumpWay = nextWay
        BY <1>3, <2>2, <4>3, ZoneFacts
      <4> QED
        BY <4>4
    <3> QED
      BY <3>2, <3>3, <3>4
  <2>3. ASSUME NEW k \in DOMAIN work', NEW l \in DOMAIN work',
               work'[k].ip \in Zone(prog), work'[k].ip = work'[l].ip
        PROVE  k = l
    <3>1. k \in Int /\ l \in Int
      <4>1. work' \in Seq(Trackers)
        BY WalkKeepsTypes, ProgramUnchanged, <1>1 DEF TypeOK, WalkStep
      <4> QED
        BY <4>1, LenProperties
    <3>2. ~(k < l) /\ ~(l < k)
      BY <2>2, <2>3
    <3> QED
      BY <3>1, <3>2
  <2> QED
    BY <1>5, <2>1, <2>3 DEF OnceEach
<1>13. CameBy'
  <2> SUFFICES ASSUME NEW y \in Zone(prog),
                      y \in WalkedAt' \/ (\E k \in DOMAIN work' : work'[k].ip = y)
               PROVE  \E v \in WaysIn(prog, y) : v[1] = "entry" \/ v[2] \in WalkedAt'
    BY <1>5 DEF CameBy
  <2>1. CASE y \in WalkedAt \/ (\E k \in DOMAIN work : work[k].ip = y)
    BY <1>4, <2>1 DEF CameBy
  <2>2. CASE y = t.ip
    BY <1>4, <1>7, <2>2 DEF CameBy
  <2>3. CASE \E k \in DOMAIN work' : k \in 1 .. n - 1 /\ work'[k].ip = y
    <3>1. \E k \in DOMAIN work : work[k].ip = y
      BY <1>7, <1>11, <2>3
    <3> QED
      BY <1>4, <3>1 DEF CameBy
  <2>4. CASE \E k \in DOMAIN work' : k \notin 1 .. n - 1 /\ work'[k].ip = y
    <3>1. Led(y)
      BY <1>11, <2>4
    <3>2. jumpWay \in WaysIn(prog, y) \/ nextWay \in WaysIn(prog, y)
      BY <1>9, <3>1 DEF Led
    <3>3. jumpWay[2] = t.ip /\ nextWay[2] = t.ip /\ t.ip \in WalkedAt'
      BY <1>4
    <3> QED
      BY <3>2, <3>3
  <2> QED
    BY <1>4, <2>1, <2>2, <2>3, <2>4
<1>14. VisitedBy'
  <2> SUFFICES ASSUME NEW s \in visited'
               PROVE  \E b \in WalkedAt' : Code[b].op \in {"JMP", "CJMP"} /\ Code[b].to = s
    BY <1>5 DEF VisitedBy
  <2>1. CASE s \in visited
    BY <1>4, <2>1 DEF VisitedBy
  <2>2. CASE s \notin visited
    <3>1. kind \in {"JMP", "CJMP"} /\ s = i.to
      BY <1>1, <2>2
    <3> QED
      BY <1>4, <1>6, <3>1 DEF i
  <2> QED
    BY <2>1, <2>2
<1> QED
  BY <1>12, <1>13, <1>14

(* What an iteration makes of the maxima: the trackers it pushes keep that *)
(* of the one it pops, and END reports it.                                 *)
LEMMA MaxStepFacts ==
  ASSUME TypeOK, MaxAhead, WalkStep, NEW t, t = Last(work)
  PROVE  /\ t \in ToSet(work) /\ t.depth \in Nat /\ t.max \in Nat /\ t.depth <= t.max
         /\ t.fn \in Entries /\ t.fn \in Address(prog)
         /\ \A a \in 0 .. CodeEnd(prog) :
              LET u == Follow(t, a)
              IN  u.max \in Nat /\ t.max <= u.max /\ u.depth <= u.max /\ u.fn = t.fn
         /\ maxStack' \in [Address(prog) -> Nat]
         /\ \A a \in Address(prog) : maxStack[a] <= maxStack'[a]
         /\ DeclaredKind(Code[t.ip]) = "END" => t.max <= maxStack'[t.fn]
<1>1. work # << >> /\ Passes(t)
  BY WalkStepFacts
<1>2. t \in Trackers /\ t \in ToSet(work) /\ NewDepth(t) \in Nat
  BY <1>1, WalkTypes
<1>3. t.depth \in Nat /\ t.max \in Nat /\ t.fn \in Address(prog)
  BY <1>2 DEF Trackers
<1>4. t.depth <= t.max /\ t.fn \in Entries
  BY <1>2 DEF MaxAhead
<1>5. ASSUME NEW a \in 0 .. CodeEnd(prog)
      PROVE  LET u == Follow(t, a)
             IN  u.max \in Nat /\ t.max <= u.max /\ u.depth <= u.max /\ u.fn = t.fn
  BY <1>2, <1>3 DEF Follow, Tracker, Maximum
<1>6. maxStack \in [Address(prog) -> Nat]
  BY DEF TypeOK
<1>7. CASE WalkEnd
  <2>1. maxStack' = [maxStack EXCEPT ![t.fn] = Maximum(@, t.max)]
    BY <1>7 DEF WalkEnd
  <2>2. /\ Maximum(maxStack[t.fn], t.max) \in Nat
        /\ maxStack[t.fn] <= Maximum(maxStack[t.fn], t.max)
        /\ t.max <= Maximum(maxStack[t.fn], t.max)
    BY <1>3, <1>6 DEF Maximum
  <2> QED
    BY <1>2, <1>3, <1>4, <1>5, <1>6, <2>1, <2>2
<1>8. CASE ~WalkEnd
  <2>1. maxStack' = maxStack /\ DeclaredKind(Code[t.ip]) # "END"
    BY <1>8 DEF WalkStep, WalkJmp, WalkCjmp, WalkOther, WalkFail, Walk
  <2> QED
    BY <1>2, <1>3, <1>4, <1>5, <1>6, <2>1
<1> QED
  BY <1>7, <1>8

LEMMA CoveredStep ==
  ASSUME TypeOK, WalkStep, MaxAhead
  PROVE  /\ MaxAhead'
         /\ KeepsMax(prog) /\ Covered /\ OnceEach /\ VisitedBy => Covered'
<1> DEFINE t == Last(work)
           i == Code[t.ip]
           kind == DeclaredKind(i)
           next == Follow(t, t.ip + 1)
           jump == Follow(t, i.to)
<1>1. /\ work # << >> /\ Passes(t) /\ UNCHANGED prog
      /\ walked' = walked \cup {<<t.ip, t.depth>>}
  BY WalkStepFacts
<1>2. /\ t.ip \in Address(prog) /\ i \in Instr /\ t.ip + 1 \in 0 .. CodeEnd(prog)
      /\ ToSet(work) = ToSet(Front(work)) \cup {t}
      /\ work \in Seq(Trackers) /\ \A u \in ToSet(work) : u \in Trackers
  <2>1. \A u \in ToSet(work) : u \in Trackers
    BY LenProperties, ElementOfSeq DEF TypeOK, ToSet
  <2> QED
    BY <1>1, <2>1, WalkTypes DEF TypeOK
<1>3. kind \in {"JMP", "CJMP"} => i.to \in 0 .. CodeEnd(prog)
  <2>1. kind \in {"JMP", "CJMP"} => i.to \in Address(prog)
    BY <1>1, WalkTypes
  <2>2. CodeEnd(prog) \in Nat /\ Address(prog) = 0 .. CodeEnd(prog) - 1
    BY ProgramTypes DEF TypeOK
  <2> QED
    BY <2>1, <2>2
<1>4. ToSet(work') = ToSet(Front(work))
           \cup (IF kind \in {"JMP", "CJMP"} /\ i.to \notin visited THEN {jump} ELSE {})
           \cup (IF kind \in {"CJMP", "OTHER"} THEN {next} ELSE {})
  BY WalkStepEffect
<1>5. /\ t \in ToSet(work) /\ t.depth \in Nat /\ t.max \in Nat /\ t.depth <= t.max
      /\ t.fn \in Entries /\ t.fn \in Address(prog)
      /\ maxStack' \in [Address(prog) -> Nat]
      /\ \A a \in Address(prog) : maxStack[a] <= maxStack'[a]
      /\ kind = "END" => t.max <= maxStack'[t.fn]
  BY MaxStepFacts
<1>6. next.max \in Nat /\ t.max <= next.max /\ next.depth <= next.max /\ next.fn = t.fn
  BY <1>2, MaxStepFacts
<1>7. kind \in {"JMP", "CJMP"} =>
        jump.max \in Nat /\ t.max <= jump.max /\ jump.depth <= jump.max /\ jump.fn = t.fn
  BY <1>3, MaxStepFacts
<1>8. Entries' = Entries /\ \A e \in Entries : e \in Address(prog)
  BY <1>1, ProgramTypes DEF Entries, TypeOK
<1>9. MaxAhead'
  <2> HIDE DEF t, i, kind, next, jump
  <2> QED
    BY <1>2, <1>4, <1>5, <1>6, <1>7, <1>8 DEF MaxAhead
<1>10. ASSUME KeepsMax(prog), Covered, OnceEach, VisitedBy
       PROVE  Covered'
  <2>1. kind = "JMP" => i.to \notin visited
    <3> SUFFICES ASSUME kind = "JMP", i.to \in visited PROVE FALSE
      OBVIOUS
    <3>1. i.op = "JMP"
      BY DEF DeclaredKind
    <3>2. PICK b \in WalkedAt : Code[b].op \in {"JMP", "CJMP"} /\ Code[b].to = i.to
      BY <1>10 DEF VisitedBy
    <3>3. b \in Address(prog)
      BY DEF WalkedAt, TypeOK
    <3>4. b = t.ip
      BY <1>2, <1>10, <3>1, <3>2, <3>3 DEF KeepsMax, Code
    <3>5. t.ip \in Zone(prog)
      <4>1. t.ip <= t.ip
        BY <1>2, ProgramTypes DEF TypeOK
      <4> QED
        BY <1>2, <3>1, <4>1 DEF Zone, Code
    <3>6. Len(work) \in DOMAIN work /\ work[Len(work)] = t
      <4>1. /\ Len(work) \in Nat \ {0} /\ DOMAIN work = 1 .. Len(work)
            /\ Last(work) = work[Len(work)]
        BY <1>1, <1>2, LastSeq
      <4> QED
        BY <4>1
    <3> QED
      BY <1>10, <3>4, <3>5, <3>6 DEF OnceEach
  <2>2. kind # "FAIL_KIND"
    <3>1. i.op # "FAIL"
      BY <1>2, <1>10 DEF KeepsMax, Code
    <3> QED
      BY <3>1 DEF DeclaredKind
  <2>3. kind \in {"JMP", "CJMP", "END", "OTHER"}
    BY <2>2 DEF DeclaredKind
  <2>4. \/ \E e \in Entries : t.max <= maxStack'[e]
        \/ \E u \in ToSet(work') : t.max <= u.max /\ u.max \in Nat
    <3> HIDE DEF t, i, kind, next, jump
    <3> QED
      BY <1>4, <1>5, <1>6, <1>7, <2>1, <2>3
  <2> SUFFICES ASSUME NEW w \in walked'
               PROVE  \/ \E e \in Entries : w[2] <= maxStack'[e]
                      \/ \E u \in ToSet(work') : w[2] <= u.max
    BY <1>8 DEF Covered
  <2>5. w[2] \in Nat
    BY <1>1, <1>5 DEF TypeOK
  <2>6. CASE w[2] <= t.max
    <3>1. \A e \in Entries : maxStack'[e] \in Nat
      BY <1>5, <1>8
    <3> QED
      BY <1>5, <2>4, <2>5, <2>6, <3>1
  <2>7. CASE \E e \in Entries : w[2] <= maxStack[e]
    <3>1. PICK e \in Entries : w[2] <= maxStack[e]
      BY <2>7
    <3>2. maxStack[e] \in Nat /\ maxStack'[e] \in Nat /\ maxStack[e] <= maxStack'[e]
      BY <1>5, <1>8 DEF TypeOK
    <3> QED
      BY <2>5, <3>1, <3>2
  <2>8. CASE \E u \in ToSet(Front(work)) : w[2] <= u.max
    BY <1>4, <2>8
  <2>9. w = <<t.ip, t.depth>> \/ w \in walked
    BY <1>1
  <2>10. w \in walked =>
           \/ \E e \in Entries : w[2] <= maxStack[e]
           \/ \E u \in ToSet(Front(work)) : w[2] <= u.max
           \/ w[2] <= t.max
    BY <1>2, <1>10 DEF Covered
  <2> QED
    BY <1>5, <2>6, <2>7, <2>8, <2>9, <2>10
<1> QED
  BY <1>9, <1>10

LEMMA MaxInvariant == Safety => []MaxInv
<1>1. Init => MaxInv
  <2> SUFFICES ASSUME Init PROVE MaxInv
    OBVIOUS
  <2>1. walked = {} /\ visited = {} /\ ToSet(work) = {} /\ DOMAIN work = {} /\ WalkedAt = {}
    BY ShortSeq DEF Init, WalkedAt
  <2> QED
    BY <2>1 DEF MaxInv, MaxAhead, Covered, OnceEach, CameBy, VisitedBy
<1>2. TypeOK /\ WalkInv /\ MaxInv /\ [Next]_vars => MaxInv'
  <2> SUFFICES ASSUME TypeOK, WalkInv, MaxInv, [Next]_vars PROVE MaxInv'
    OBVIOUS
  <2>1. CASE WalkStep
    <3>1. UNCHANGED prog
      BY <2>1, WalkStepFacts
    <3>2. KeepsMax(prog)' = KeepsMax(prog)
      BY <3>1 DEF KeepsMax, OneWayIn, WaysIn, Address
    <3> QED
      BY <2>1, <3>2, OnceStep, CoveredStep DEF MaxInv
  <2>2. CASE GatherDone
    <3>1. /\ phase = "gather" /\ UNCHANGED <<prog, walked, visited>>
          /\ work' = [k \in DOMAIN prog.pub |-> Tracker(prog.pub[k], prog.pub[k], 0, 0)]
      BY <2>2 DEF GatherDone
    <3>2. walked' = {} /\ visited' = {} /\ WalkedAt' = {}
      BY <3>1 DEF WalkInv, PhaseInv, WalkedAt
    <3>3. \A k \in DOMAIN work' :
            /\ k \in DOMAIN prog.pub /\ work'[k].ip = prog.pub[k]
            /\ work'[k].depth = 0 /\ work'[k].max = 0 /\ work'[k].fn = prog.pub[k]
      BY <3>1 DEF Tracker
    <3>4. MaxAhead'
      <4>1. ASSUME NEW u \in ToSet(work')
            PROVE  u.depth <= u.max /\ u.fn \in Entries'
        <5>1. PICK k \in DOMAIN work' : u = work'[k]
          BY DEF ToSet
        <5>2. u.depth = 0 /\ u.max = 0 /\ u.fn \in Entries'
          BY <3>1, <3>3, <5>1 DEF Entries
        <5> QED
          BY <5>2
      <4> QED
        BY <4>1 DEF MaxAhead
    <3>5. ASSUME NEW k \in DOMAIN work'
          PROVE  <<"entry", k>> \in WaysIn(prog, work'[k].ip)
      BY <3>3 DEF WaysIn
    <3>6. ASSUME KeepsMax(prog) PROVE OnceEach'
      <4>1. ASSUME NEW k \in DOMAIN work', NEW l \in DOMAIN work',
                   work'[k].ip \in Zone(prog), work'[k].ip = work'[l].ip
            PROVE  k = l
        <5>1. <<"entry", k>> = <<"entry", l>>
          <6>1. <<"entry", k>> \in WaysIn(prog, work'[k].ip)
                /\ <<"entry", l>> \in WaysIn(prog, work'[k].ip)
            BY <3>5, <4>1
          <6> QED
            BY <3>6, <4>1, <6>1, ZoneFacts DEF TypeOK
        <5> QED
          BY <5>1
      <4>2. Zone(prog)' = Zone(prog)
        BY <3>1 DEF Zone, Address
      <4> QED
        BY <3>2, <4>1, <4>2 DEF OnceEach
    <3>7. CameBy'
      <4>1. \A y : WaysIn(prog', y) = WaysIn(prog, y)
        BY <3>1
      <4>2. \A k \in DOMAIN work' : \E v \in WaysIn(prog, work'[k].ip) : v[1] = "entry"
        BY <3>5
      <4> QED
        BY <3>2, <4>1, <4>2 DEF CameBy
    <3> QED
      BY <3>1, <3>2, <3>4, <3>6, <3>7 DEF MaxInv, Covered, VisitedBy
  <2>3. CASE GatherEntry \/ Gather \/ GatherReject \/ WalkReject \/ WalkDone \/ UNCHANGED vars
    <3>1. UNCHANGED <<prog, work, visited, maxStack, walked>>
      BY <2>3 DEF GatherEntry, Gather, GatherReject, WalkReject, WalkDone,
                  vars, gatherVars, depthVars
    <3>2. /\ KeepsMax(prog)' = KeepsMax(prog) /\ Entries' = Entries /\ Code' = Code
          /\ Zone(prog)' = Zone(prog) /\ WalkedAt' = WalkedAt
          /\ \A y : WaysIn(prog', y) = WaysIn(prog, y)
      BY <3>1 DEF KeepsMax, OneWayIn, WaysIn, Address, Entries, Code, Zone, WalkedAt
    <3>3. /\ MaxAhead' <=> MaxAhead
          /\ Covered' <=> Covered
          /\ OnceEach' <=> OnceEach
          /\ CameBy' <=> CameBy
          /\ VisitedBy' <=> VisitedBy
      BY <3>1, <3>2 DEF MaxAhead, Covered, OnceEach, CameBy, VisitedBy
    <3> QED
      BY <3>2, <3>3 DEF MaxInv
  <2> QED
    BY <2>1, <2>2, <2>3 DEF Next, WalkStep
<1> QED
  BY <1>1, <1>2, TypeCorrect, WalkInvariant, PTL DEF Safety

(* In a program whose walk drops no tracker, every depth of the walk is    *)
(* covered by the stack recorded for some public function.                 *)
THEOREM MaxStackSound == Safety => []MaxStackCovers
<1>1. WalkInv /\ MaxInv => MaxStackCovers
  <2> SUFFICES ASSUME WalkInv, MaxInv, phase = "accepted", KeepsMax(prog)
               PROVE  \A w \in walked : \E e \in Entries : w[2] <= maxStack[e]
    BY DEF MaxStackCovers
  <2>1. ToSet(work) = {}
    BY ShortSeq DEF WalkInv, PhaseInv
  <2> QED
    BY <2>1 DEF MaxInv, Covered
<1> QED
  BY <1>1, WalkInvariant, MaxInvariant, PTL

(* A program with one public function has one entry.                       *)
LEMMA OneEntry ==
  ASSUME WellFormed(prog), Cardinality(Entries) = 1, NEW e \in Entries, NEW f \in Entries
  PROVE  e = f
<1>1. /\ prog.len \in Nat /\ Entries \in SUBSET Nat
      /\ \A x \in Entries : x <= prog.len
  BY ProgramTypes DEF Entries
<1>2. IsFiniteSet(Entries)
  BY <1>1, FS_BoundedSetOfNaturals
<1> QED
  BY <1>2, FS_Singleton

(* Where there is only one public function, the stack recorded for it      *)
(* covers every depth of the walk.                                         *)
OwnStackCovers ==
  phase = "accepted" /\ KeepsMax(prog) /\ Cardinality(Entries) = 1 =>
    \A w \in walked, e \in Entries : w[2] <= maxStack[e]

(* The record of the only public function is not too small.                *)
THEOREM OwnMaxStackSound == Safety => []OwnStackCovers
<1>1. TypeOK /\ MaxStackCovers => OwnStackCovers
  <2> SUFFICES ASSUME TypeOK, MaxStackCovers, phase = "accepted", KeepsMax(prog),
                      Cardinality(Entries) = 1, NEW w \in walked, NEW e \in Entries
               PROVE  w[2] <= maxStack[e]
    BY DEF OwnStackCovers
  <2>1. PICK f \in Entries : w[2] <= maxStack[f]
    BY DEF MaxStackCovers
  <2>2. f = e
    BY OneEntry DEF TypeOK
  <2> QED
    BY <2>1, <2>2
<1> QED
  BY <1>1, TypeCorrect, MaxStackSound, PTL

-----------------------------------------------------------------------------
(***************************************************************************)
(* The run of a verified function                                          *)
(***************************************************************************)

(* Below 128 the int8_t of DiagnosticInformation keeps a count.            *)
LEMMA I8Exact == \A x \in -128 .. 127 : I8(x) = x
  BY DEF I8

(* The declared effect of an instruction is the executed one.  CALL and    *)
(* CALLC declare what their callee is to do, and END and CALLC execute     *)
(* with one operand more than they declare.                                *)
LEMMA DeclaredIsExecuted ==
  ASSUME NEW i \in Instr, i.n <= 127
  PROVE  /\ ~Ends(i.op) /\ ~Calls(i.op) => ExecutedChange(i) = DeclaredChange(i)
         /\ i.op \notin {"END", "CALLC"} => ExecutedNeed(i) <= DeclaredNeed(i)
         /\ i.op = "END" => ExecutedNeed(i) = 1 /\ DeclaredNeed(i) = 0
         /\ i.op = "CALLC" =>
              /\ ExecutedNeed(i) = i.n + 1 /\ DeclaredNeed(i) = i.n /\ DeclaredChange(i) = -i.n
         /\ i.op = "CALL" =>
              /\ ExecutedNeed(i) = 0 /\ DeclaredNeed(i) = i.n /\ DeclaredChange(i) = 1 - i.n
<1>1. i.n \in 0 .. 127
  BY DEF Instr
<1>2. I8(1 - i.n) = 1 - i.n /\ I8(-i.n) = -i.n /\ I8(i.n) = i.n
  BY <1>1, I8Exact
<1>3. ~Ends(i.op) /\ ~Calls(i.op) => ExecutedChange(i) = DeclaredChange(i)
  BY <1>2 DEF ExecutedChange, DeclaredChange, Ends, Calls
<1>4. i.op \notin {"END", "CALLC"} => ExecutedNeed(i) <= DeclaredNeed(i)
  BY <1>1, <1>2 DEF ExecutedNeed, DeclaredNeed
<1>5. i.op = "END" => ExecutedNeed(i) = 1 /\ DeclaredNeed(i) = 0
  BY DEF ExecutedNeed, DeclaredNeed
<1>6. i.op = "CALLC" =>
        /\ ExecutedNeed(i) = i.n + 1 /\ DeclaredNeed(i) = i.n /\ DeclaredChange(i) = -i.n
  BY <1>2 DEF ExecutedNeed, DeclaredNeed, DeclaredChange
<1>7. i.op = "CALL" =>
        /\ ExecutedNeed(i) = 0 /\ DeclaredNeed(i) = i.n /\ DeclaredChange(i) = 1 - i.n
  BY <1>2 DEF ExecutedNeed, DeclaredNeed, DeclaredChange
<1> QED
  BY <1>3, <1>4, <1>5, <1>6, <1>7

(* The run only reads what the verifier has computed.                      *)
LEMMA RunSafety == RunSpec => Safety
<1>1. RunInit => Init
  BY DEF RunInit
<1>2. [RunNext]_allVars => [Next]_vars
  BY DEF RunNext, Verify, Start, Step, Call, Return, Leave, Underflow, CallUnderflow,
         ReturnUnderflow, Overflow, Stray, allVars
<1> QED
  BY <1>1, <1>2, PTL DEF RunSpec, Safety

(* The program is one of those RunAssumption is about.                     *)
ProgramChosen == prog \in Programs

LEMMA RunKeepsProgram ==
  ASSUME [RunNext]_allVars
  PROVE  UNCHANGED prog
BY DEF RunNext, Verify, Start, Step, Call, Return, Leave, Underflow, CallUnderflow,
       ReturnUnderflow, Overflow, Stray, allVars, vars,
       Next, GatherEntry, Gather, GatherReject, GatherDone, WalkReject, WalkDone,
       WalkJmp, WalkCjmp, WalkEnd, WalkOther, WalkFail, Walk

LEMMA ProgramStaysChosen == RunSpec => []ProgramChosen
<1>1. RunInit => ProgramChosen
  BY DEF RunInit, Init, ProgramChosen
<1>2. ProgramChosen /\ [RunNext]_allVars => ProgramChosen'
  BY RunKeepsProgram DEF ProgramChosen
<1> QED
  BY <1>1, <1>2, PTL DEF RunSpec

(* What an instruction leaves of the operands it found is a natural number.*)
LEMMA DepthStaysNat ==
  ASSUME NEW i \in Instr, NEW d \in Nat, ExecutedNeed(i) <= d
  PROVE  d + ExecutedChange(i) \in Nat
<1>1. i.n \in Nat
  BY DEF Instr
<1>2. ExecutedChange(i) \in Int /\ 0 <= ExecutedNeed(i) + ExecutedChange(i)
      /\ ExecutedNeed(i) \in Nat
  BY <1>1 DEF ExecutedNeed, ExecutedChange
<1> QED
  BY <1>2

FrameType == [entry : Address(prog), pc : 0 .. CodeEnd(prog), depth : Nat, byClosure : BOOLEAN]

(* A frame that goes on is the one before, at another address and depth.   *)
LEMMA AdvanceFacts ==
  ASSUME NEW s \in Seq(FrameType), s # << >>, NEW a \in 0 .. CodeEnd(prog), NEW d \in Nat,
         NEW t, t = Advance(s, a, d)
  PROVE  /\ t \in Seq(FrameType) /\ Len(t) = Len(s) /\ t # << >>
         /\ \A k \in 1 .. Len(s) - 1 : t[k] = s[k]
         /\ t[Len(s)].entry = s[Len(s)].entry /\ t[Len(s)].byClosure = s[Len(s)].byClosure
         /\ t[Len(s)].pc = a /\ t[Len(s)].depth = d
<1>1. Len(s) \in Nat \ {0} /\ DOMAIN s = 1 .. Len(s) /\ s[Len(s)] \in FrameType
  BY LastSeq
<1> DEFINE g == [s[Len(s)] EXCEPT !.pc = a, !.depth = d]
<1>2. /\ g \in FrameType /\ g.entry = s[Len(s)].entry
      /\ g.byClosure = s[Len(s)].byClosure /\ g.pc = a /\ g.depth = d
  BY <1>1 DEF FrameType
<1>3. t = [s EXCEPT ![Len(s)] = g]
  BY DEF Advance
<1> HIDE DEF g
<1>4. t \in Seq(FrameType) /\ Len(t) = Len(s)
  BY <1>1, <1>2, <1>3
<1>5. t # << >>
  BY <1>1, <1>4, ShortSeq, LenProperties
<1>6. t[Len(s)] = g
  BY <1>1, <1>3
<1>7. ASSUME NEW k \in 1 .. Len(s) - 1
      PROVE  t[k] = s[k]
  <2>1. PICK n \in Nat \ {0} : n = Len(s)
    BY <1>1
  <2>2. k \in 1 .. n - 1
    BY <2>1
  <2>3. k \in 1 .. n /\ k # n
    BY ONLY <2>2, n \in Nat \ {0}
  <2> QED
    BY <1>1, <1>3, <2>1, <2>3
<1> QED
  BY <1>2, <1>4, <1>5, <1>6, <1>7

(* While the run executes, what it looks at has its types.                 *)
LEMMA TopTypes ==
  ASSUME RunTypeOK, Executes
  PROVE  /\ frames \in Seq(FrameType) /\ frames # << >> /\ Len(frames) \in Nat \ {0}
         /\ Top \in FrameType /\ Top.pc \in Address(prog) /\ Top.depth \in Nat
         /\ Top.pc + 1 \in 0 .. CodeEnd(prog)
         /\ Current \in Instr /\ Current.n \in Nat
         /\ Current.op \in {"JMP", "CJMP"} => Current.to \in Address(prog)
         /\ FrameNeed(Current) \in Nat
         /\ Top.entry \in Address(prog)
         /\ \A f \in Address(prog) : Code[f].n \in Nat
<1>1. TypeOK /\ frames \in Seq(FrameType) /\ frames # << >>
  BY DEF RunTypeOK, FrameType, Executes, Running
<1>2. Len(frames) \in Nat \ {0} /\ Top \in FrameType
  BY <1>1, LastSeq DEF Top
<1>3. /\ prog.len \in Nat \ {0} /\ CodeEnd(prog) = prog.len /\ Address(prog) = 0 .. prog.len - 1
      /\ \A a \in Address(prog) :
           /\ Code[a] \in Instr
           /\ Code[a].op \in {"JMP", "CJMP"} => Code[a].to \in Address(prog)
  BY <1>1, ProgramTypes DEF TypeOK
<1>4. Top.pc \in 0 .. CodeEnd(prog) /\ Top.depth \in Nat /\ Top.entry \in Address(prog)
  BY <1>2 DEF FrameType
<1>5. Top.pc \in Address(prog) /\ Top.pc + 1 \in 0 .. CodeEnd(prog)
  BY <1>3, <1>4 DEF Executes, InCode
<1>6. Current \in Instr /\ (Current.op \in {"JMP", "CJMP"} => Current.to \in Address(prog))
  BY <1>3, <1>5 DEF Current
<1>7. \A i \in Instr : i.n \in Nat
  BY DEF Instr
<1>8. FrameNeed(Current) \in Nat
  BY <1>6, <1>7 DEF FrameNeed, ExecutedNeed
<1>9. \A f \in Address(prog) : Code[f].n \in Nat
  BY <1>3, <1>7
<1> QED
  BY <1>1, <1>2, <1>4, <1>5, <1>6, <1>7, <1>8, <1>9

(* A frame that is entered.                                                *)
LEMMA FrameIsTyped ==
  ASSUME WellFormed(prog), NEW f \in Address(prog), NEW c \in BOOLEAN
  PROVE  /\ Frame(f, c) \in FrameType
         /\ Frame(f, c).entry = f /\ Frame(f, c).pc = f
         /\ Frame(f, c).depth = 0 /\ Frame(f, c).byClosure = c
<1>1. f \in 0 .. CodeEnd(prog)
  BY ProgramTypes
<1> QED
  BY <1>1 DEF Frame, FrameType

(* Calls enter functions.                                                  *)
LEMMA CalleesAreFunctions ==
  ASSUME ProgramChosen, RunTypeOK, Executes, Calls(Current.op), NEW f \in Callees(Current)
  PROVE  f \in Address(prog)
<1>1. NamesFunctions(prog)
  BY RunAssumption DEF ProgramChosen
<1>2. Top.pc \in Address(prog)
  BY TopTypes
<1>3. CASE Current.op = "CALL"
  <2>1. f = Code[Top.pc].to /\ Code[Top.pc].op = "CALL"
    BY <1>3 DEF Callees, Current
  <2> QED
    BY <1>1, <1>2, <2>1 DEF NamesFunctions, Code
<1>4. CASE Current.op # "CALL"
  <2>1. PICK a \in Address(prog) : Code[a].op = "CLOSURE" /\ f = Code[a].to
    BY <1>4 DEF Callees
  <2> QED
    BY <1>1, <2>1 DEF NamesFunctions, Code
<1> QED
  BY <1>3, <1>4

(* The three steps that change frames, by the positions of the sequence.   *)
LEMMA StepEffect ==
  ASSUME RunTypeOK, Step
  PROVE  /\ frames' \in Seq(FrameType) /\ frames' # << >> /\ Len(frames') = Len(frames)
         /\ \A k \in 1 .. Len(frames) - 1 : frames'[k] = frames[k]
         /\ frames'[Len(frames)].entry = Top.entry
         /\ frames'[Len(frames)].byClosure = Top.byClosure
         /\ frames'[Len(frames)].pc \in ExecutedSuccessors
         /\ frames'[Len(frames)].depth = Top.depth + ExecutedChange(Current)
<1>1. Executes /\ ~Ends(Current.op) /\ FrameNeed(Current) <= Top.depth
  BY DEF Step
<1>2. PICK a \in ExecutedSuccessors :
        frames' = Advance(frames, a, Top.depth + ExecutedChange(Current))
  BY DEF Step
<1>3. a \in 0 .. CodeEnd(prog)
  <2>1. /\ Top.pc + 1 \in 0 .. CodeEnd(prog)
        /\ Current.op \in {"JMP", "CJMP"} => Current.to \in Address(prog)
        /\ Address(prog) \subseteq 0 .. CodeEnd(prog)
    <3>1. /\ Top.pc + 1 \in 0 .. CodeEnd(prog)
          /\ Current.op \in {"JMP", "CJMP"} => Current.to \in Address(prog)
      BY <1>1, TopTypes
    <3>2. Address(prog) \subseteq 0 .. CodeEnd(prog)
      BY ProgramTypes DEF RunTypeOK, TypeOK
    <3> QED
      BY <3>1, <3>2
  <2>2. \/ a = Top.pc + 1
        \/ a = Current.to /\ Current.op \in {"JMP", "CJMP"}
    BY DEF ExecutedSuccessors
  <2> QED
    BY <2>1, <2>2
<1>4. ExecutedNeed(Current) <= Top.depth
  BY <1>1 DEF FrameNeed, Ends
<1>5. Top.depth + ExecutedChange(Current) \in Nat
  <2>1. Current \in Instr /\ Top.depth \in Nat
    BY <1>1, TopTypes
  <2> QED
    BY <1>4, <2>1, DepthStaysNat
<1>6. frames \in Seq(FrameType) /\ frames # << >>
  BY <1>1, TopTypes
<1> QED
  BY <1>2, <1>3, <1>5, <1>6, AdvanceFacts DEF Top

LEMMA CallEffect ==
  ASSUME ProgramChosen, RunTypeOK, Call
  PROVE  \E f \in Callees(Current) :
           /\ f \in Address(prog)
           /\ CallNeed(Current, f) <= Top.depth
           /\ risks' = risks \cup CallRisks(Current, f)
           /\ frames' \in Seq(FrameType) /\ frames' # << >> /\ Len(frames') = Len(frames) + 1
           /\ \A k \in 1 .. Len(frames) : frames'[k] = frames[k]
           /\ frames'[Len(frames) + 1].entry = f /\ frames'[Len(frames) + 1].pc = f
           /\ frames'[Len(frames) + 1].depth = 0
           /\ frames'[Len(frames) + 1].byClosure = (Current.op = "CALLC")
<1>1. Executes /\ Calls(Current.op)
  BY DEF Call
<1>2. PICK f \in Callees(Current) :
        /\ CallNeed(Current, f) <= Top.depth
        /\ frames' = Append(frames, Frame(f, Current.op = "CALLC"))
        /\ risks' = risks \cup CallRisks(Current, f)
  BY DEF Call
<1>3. f \in Address(prog)
  BY <1>1, CalleesAreFunctions
<1> DEFINE new == Frame(f, Current.op = "CALLC")
<1>4. /\ new \in FrameType /\ new.entry = f /\ new.pc = f
      /\ new.depth = 0 /\ new.byClosure = (Current.op = "CALLC")
  BY <1>3, FrameIsTyped DEF RunTypeOK, TypeOK
<1>5. frames \in Seq(FrameType)
  BY <1>1, TopTypes
<1>6. frames' = Append(frames, new)
  BY <1>2
<1> HIDE DEF new
<1>7. /\ frames' \in Seq(FrameType) /\ frames' # << >> /\ Len(frames') = Len(frames) + 1
      /\ \A k \in 1 .. Len(frames) : frames'[k] = frames[k]
      /\ frames'[Len(frames) + 1] = new
  BY <1>4, <1>5, <1>6, AppendAt
<1> QED
  BY <1>2, <1>3, <1>4, <1>7

LEMMA ReturnEffect ==
  ASSUME RunTypeOK, CallsMatch, Return
  PROVE  /\ frames' \in Seq(FrameType) /\ frames' # << >>
         /\ Len(frames') = Len(frames) - 1 /\ Len(frames) - 1 \in Nat \ {0}
         /\ \A k \in 1 .. Len(frames) - 2 : frames'[k] = frames[k]
         /\ Caller.pc \in Address(prog) /\ Caller.depth \in Nat
         /\ frames'[Len(frames) - 1].entry = Caller.entry
         /\ frames'[Len(frames) - 1].byClosure = Caller.byClosure
         /\ frames'[Len(frames) - 1].pc = Caller.pc + 1
         /\ frames'[Len(frames) - 1].depth = Caller.depth - Removed + 1
<1>1. Executes /\ Len(frames) > 1 /\ Removed <= Caller.depth
      /\ frames' = Advance(Front(frames), Caller.pc + 1, Caller.depth - Removed + 1)
  BY DEF Return
<1>2. /\ frames \in Seq(FrameType) /\ frames # << >> /\ Len(frames) \in Nat \ {0}
      /\ Top.entry \in Address(prog) /\ \A f \in Address(prog) : Code[f].n \in Nat
  BY <1>1, TopTypes
<1> DEFINE s == Front(frames)
<1>3. /\ s \in Seq(FrameType) /\ Len(s) = Len(frames) - 1 /\ Len(frames) - 1 \in Nat \ {0}
      /\ \A k \in 1 .. Len(frames) - 1 : s[k] = frames[k]
  <2>1. /\ Front(frames) \in Seq(FrameType) /\ Len(Front(frames)) = Len(frames) - 1
        /\ \A k \in 1 .. Len(frames) - 1 : Front(frames)[k] = frames[k]
    BY <1>2, LastSeq
  <2>2. PICK n \in Nat : n = Len(frames) /\ n > 1
    BY <1>1, <1>2
  <2>3. n - 1 \in Nat \ {0}
    BY <2>2
  <2>4. Len(frames) - 1 \in Nat \ {0}
    BY <2>2, <2>3
  <2> QED
    BY <2>1, <2>4
<1>4. s # << >> /\ s[Len(s)] = Caller /\ Len(s) = Len(frames) - 1
  BY <1>3 DEF Caller
<1>5. Caller \in FrameType
  BY <1>3, <1>4, LastSeq
<1>6. Caller.pc < CodeEnd(prog) /\ Caller.pc \in 0 .. CodeEnd(prog) /\ Caller.depth \in Nat
  BY <1>3, <1>5 DEF CallsMatch, CallUnderWay, Caller, FrameType
<1>7. Caller.pc \in Address(prog) /\ Caller.pc + 1 \in 0 .. CodeEnd(prog)
  <2>1. prog.len \in Nat \ {0} /\ CodeEnd(prog) = prog.len /\ Address(prog) = 0 .. prog.len - 1
    BY ProgramTypes DEF RunTypeOK, TypeOK
  <2> QED
    BY <1>6, <2>1
<1>8. Removed \in Nat
  BY <1>2 DEF Removed
<1>9. Caller.depth - Removed + 1 \in Nat
  BY <1>1, <1>6, <1>8
<1>10. frames' = Advance(s, Caller.pc + 1, Caller.depth - Removed + 1)
  BY <1>1
<1> HIDE DEF s
<1>11. /\ frames' \in Seq(FrameType) /\ Len(frames') = Len(s) /\ frames' # << >>
       /\ \A k \in 1 .. Len(s) - 1 : frames'[k] = s[k]
       /\ frames'[Len(s)].entry = s[Len(s)].entry
       /\ frames'[Len(s)].byClosure = s[Len(s)].byClosure
       /\ frames'[Len(s)].pc = Caller.pc + 1
       /\ frames'[Len(s)].depth = Caller.depth - Removed + 1
  <2>1. PICK a \in 0 .. CodeEnd(prog), d \in Nat :
          a = Caller.pc + 1 /\ d = Caller.depth - Removed + 1
    BY <1>7, <1>9
  <2>2. PICK t : t = frames'
    OBVIOUS
  <2>3. t = Advance(s, a, d)
    BY <1>10, <2>1, <2>2
  <2>4. s \in Seq(FrameType) /\ s # << >>
    BY <1>3, <1>4
  <2>5. /\ t \in Seq(FrameType) /\ Len(t) = Len(s) /\ t # << >>
        /\ \A k \in 1 .. Len(s) - 1 : t[k] = s[k]
        /\ t[Len(s)].entry = s[Len(s)].entry /\ t[Len(s)].byClosure = s[Len(s)].byClosure
        /\ t[Len(s)].pc = a /\ t[Len(s)].depth = d
    BY ONLY <2>3, <2>4, AdvanceFacts
  <2> QED
    BY <2>1, <2>2, <2>5
<1>12. \A k \in 1 .. Len(frames) - 2 : k \in 1 .. Len(s) - 1 /\ k \in 1 .. Len(frames) - 1
  BY <1>2, <1>3
<1> QED
  BY <1>3, <1>4, <1>6, <1>7, <1>11, <1>12

(* The steps that only end the run, and those of the verifier.             *)
Finishes == Leave \/ Underflow \/ CallUnderflow \/ ReturnUnderflow \/ Overflow \/ Stray

LEMMA FinishEffect ==
  ASSUME Finishes
  PROVE  /\ run = "running" /\ UNCHANGED <<vars, frames, inClosure>>
         /\ run' \in {"returned", "stopped", "underflow", "overflow", "stray"}
  BY DEF Finishes, Leave, Underflow, CallUnderflow, ReturnUnderflow, Overflow, Stray,
         Executes, Running

LEMMA RisksKnown ==
  ASSUME risks \subseteq {"count", "nested"}, [RunNext]_allVars
  PROVE  risks' \subseteq {"count", "nested"} /\ risks \subseteq risks'
<1>1. \A i, f : CallRisks(i, f) \subseteq {"count", "nested"}
  BY DEF CallRisks
<1>2. \/ UNCHANGED risks
      \/ \E f \in Callees(Current) : risks' = risks \cup CallRisks(Current, f)
  BY DEF RunNext, Verify, Start, Step, Call, Return, Leave, Underflow, CallUnderflow,
         ReturnUnderflow, Overflow, Stray, allVars, runVars
<1>3. CASE UNCHANGED risks
  BY <1>3
<1>4. CASE \E f \in Callees(Current) : risks' = risks \cup CallRisks(Current, f)
  <2>1. PICK f \in Callees(Current) : risks' = risks \cup CallRisks(Current, f)
    BY <1>4
  <2> QED
    BY <1>1, <2>1
<1> QED
  BY <1>2, <1>3, <1>4

(* A step of the run keeps the types.                                      *)
LEMMA RunStepTypes ==
  ASSUME ProgramChosen, RunTypeOK, CallsMatch, [RunNext]_allVars, TypeOK'
  PROVE  RunTypeOK'
<1> DEFINE Runs == {"idle", "running", "returned", "stopped", "underflow", "overflow", "stray"}
<1>1. FrameType' = FrameType
  BY RunKeepsProgram, ProgramUnchanged DEF FrameType
<1>2. risks' \subseteq {"count", "nested"}
  BY RisksKnown DEF RunTypeOK
<1>3. /\ run \in Runs /\ frames \in Seq(FrameType) /\ (run # "idle" => frames # << >>)
      /\ inClosure \in BOOLEAN
  BY DEF RunTypeOK, FrameType
<1> SUFFICES /\ run' \in Runs /\ frames' \in Seq(FrameType) /\ (run' # "idle" => frames' # << >>)
             /\ inClosure' \in BOOLEAN
  <2>1. ASSUME run' \in Runs, frames' \in Seq(FrameType), run' # "idle" => frames' # << >>,
               inClosure' \in BOOLEAN
        PROVE  RunTypeOK'
    <3>1. frames' \in Seq(FrameType')
      BY <1>1, <2>1
    <3> QED
      BY <1>2, <2>1, <3>1 DEF RunTypeOK, FrameType
  <2> QED
    BY <2>1
<1>4. CASE Start
  <2>1. run' = "running" /\ frames' = <<Frame(0, FALSE)>> /\ UNCHANGED inClosure
    BY <1>4 DEF Start
  <2>2. WellFormed(prog) /\ 0 \in Address(prog)
    BY ProgramTypes DEF RunTypeOK, TypeOK
  <2>3. Frame(0, FALSE) \in FrameType
    BY <2>2, FrameIsTyped
  <2>4. frames' \in Seq(FrameType) /\ frames' # << >>
    BY <2>1, <2>3, ShortSeq
  <2> QED
    BY <1>3, <2>1, <2>4
<1>5. CASE Step
  <2>1. UNCHANGED <<run, inClosure>>
    BY <1>5 DEF Step
  <2> QED
    BY <1>3, <1>5, <2>1, StepEffect
<1>6. CASE Call
  <2>1. run' = run /\ inClosure' \in BOOLEAN
    BY <1>3, <1>6 DEF Call
  <2> QED
    BY <1>3, <1>6, <2>1, CallEffect
<1>7. CASE Return
  <2>1. run' = run /\ inClosure' \in BOOLEAN
    BY <1>3, <1>7 DEF Return, FlagAfterEnd
  <2> QED
    BY <1>3, <1>7, <2>1, ReturnEffect
<1>8. CASE Finishes
  <2>1. /\ run = "running" /\ UNCHANGED <<frames, inClosure>>
        /\ run' \in {"returned", "stopped", "underflow", "overflow", "stray"}
    BY <1>8, FinishEffect
  <2> QED
    BY <1>3, <2>1
<1>9. CASE Verify \/ UNCHANGED allVars
  <2>1. UNCHANGED <<run, frames, inClosure>>
    BY <1>9 DEF Verify, runVars, allVars
  <2> QED
    BY <1>3, <2>1
<1> QED
  BY <1>4, <1>5, <1>6, <1>7, <1>8, <1>9 DEF RunNext, Finishes

(* A call that brings no risk uses what CALL or CALLC declares.            *)
LEMMA RisklessCall ==
  ASSUME NEW i \in Instr, Calls(i.op), NEW f, CallRisks(i, f) = {}, NEW d \in Nat,
         Code[f].n \in Nat, CallNeed(i, f) <= d
  PROVE  /\ Code[f].n = i.n /\ ~Top.byClosure
         /\ i.n + (IF i.op = "CALLC" THEN 1 ELSE 0) <= d
<1>1. i.n \in Nat
  BY DEF Instr
<1>2. "count" \notin CallRisks(i, f) /\ "nested" \notin CallRisks(i, f)
  OBVIOUS
<1>3. Code[f].n = i.n /\ ~Top.byClosure
  BY <1>2 DEF CallRisks
<1>4. FrameNeed(i) = IF i.op = "CALLC" THEN i.n + 1 ELSE 0
  BY DEF FrameNeed, ExecutedNeed, Calls
<1>5. i.n <= d /\ FrameNeed(i) <= d
  BY <1>1, <1>3, <1>4 DEF CallNeed, Maximum
<1> QED
  BY <1>1, <1>3, <1>4, <1>5

(* A step of the run keeps calls and returns in agreement.                 *)
LEMMA RunStepMatches ==
  ASSUME ProgramChosen, RunTypeOK, CallsMatch, [RunNext]_allVars
  PROVE  CallsMatch'
<1> DEFINE n == Len(frames)
<1>1. Code' = Code /\ CodeEnd(prog)' = CodeEnd(prog)
  BY RunKeepsProgram, ProgramUnchanged
<1>2. /\ IF run = "idle" THEN frames = << >> /\ ~inClosure ELSE phase = "accepted"
      /\ \A k \in 1 .. n - 1 : CallUnderWay(k)
      /\ risks = {} => \A k \in 1 .. n - 1 : CallMatches(k)
      /\ risks = {} /\ frames # << >> => (inClosure <=> Top.byClosure)
  BY DEF CallsMatch
<1>3. frames \in Seq(FrameType) /\ n \in Nat
  BY LenProperties DEF RunTypeOK, FrameType
<1>4. ASSUME NEW k \in Nat, frames'[k] = frames[k], CallUnderWay(k)
      PROVE  CallUnderWay(k)'
  BY <1>1, <1>4 DEF CallUnderWay
<1>5. ASSUME NEW k \in Nat, frames'[k] = frames[k], frames'[k + 1].entry = frames[k + 1].entry,
             frames'[k + 1].byClosure = frames[k + 1].byClosure, CallMatches(k)
      PROVE  CallMatches(k)'
  BY <1>1, <1>5 DEF CallMatches
<1>6. CASE Start
  <2>1. /\ phase' = "accepted" /\ run' = "running"
        /\ frames' = <<Frame(0, FALSE)>> /\ UNCHANGED <<inClosure, risks>>
    BY <1>6 DEF Start, vars
  <2>2. Len(frames') = 1 /\ Top'.byClosure = FALSE
    BY <2>1 DEF Frame, Top
  <2>3. ~inClosure
    BY <1>2, <1>6 DEF Start
  <2>4. 1 .. Len(frames') - 1 = {}
    BY <2>2
  <2> QED
    BY <2>1, <2>2, <2>3, <2>4 DEF CallsMatch
<1>7. CASE Step
  <2>1. /\ Len(frames') = n /\ frames' # << >>
        /\ \A k \in 1 .. n - 1 : frames'[k] = frames[k]
        /\ frames'[n].entry = frames[n].entry
        /\ frames'[n].byClosure = frames[n].byClosure
    BY <1>7, StepEffect DEF Top
  <2>2. run = "running" /\ UNCHANGED <<run, phase, inClosure, risks>>
    BY <1>7 DEF Step, Executes, Running, vars
  <2>3. \A k \in 1 .. n - 1 : CallUnderWay(k)'
    BY <1>2, <1>3, <1>4, <2>1
  <2>4. ASSUME NEW k \in 1 .. n - 1, CallMatches(k)
        PROVE  CallMatches(k)'
    <3>1. k \in Nat /\ (k + 1 = n \/ k + 1 \in 1 .. n - 1)
      BY <1>3
    <3>2. /\ frames'[k] = frames[k] /\ frames'[k + 1].entry = frames[k + 1].entry
          /\ frames'[k + 1].byClosure = frames[k + 1].byClosure
      BY <2>1, <3>1
    <3> QED
      BY <1>5, <2>4, <3>1, <3>2
  <2>5. Top'.byClosure = Top.byClosure /\ frames # << >>
    <3>1. frames # << >>
      BY <2>2 DEF RunTypeOK
    <3> QED
      BY <2>1, <3>1 DEF Top
  <2> HIDE DEF n
  <2>6. Len(frames') = n
    BY <2>1
  <2> QED
    BY <1>2, <2>2, <2>3, <2>4, <2>5, <2>6 DEF CallsMatch
<1>8. CASE Call
  <2>1. PICK f \in Callees(Current) :
          /\ f \in Address(prog)
          /\ CallNeed(Current, f) <= Top.depth
          /\ risks' = risks \cup CallRisks(Current, f)
          /\ frames' # << >> /\ Len(frames') = n + 1
          /\ \A k \in 1 .. n : frames'[k] = frames[k]
          /\ frames'[n + 1].entry = f
          /\ frames'[n + 1].byClosure = (Current.op = "CALLC")
    BY <1>8, CallEffect
  <2>2. /\ run = "running" /\ UNCHANGED <<run, phase>> /\ Executes /\ Calls(Current.op)
        /\ inClosure' = (inClosure \/ Current.op = "CALLC")
    BY <1>8 DEF Call, Executes, Running, vars
  <2>3. /\ n \in Nat \ {0} /\ frames # << >> /\ Current \in Instr /\ Top.depth \in Nat
        /\ Code[f].n \in Nat /\ Top.pc \in Address(prog)
    BY <2>1, <2>2, TopTypes
  <2>4. PICK m \in Nat : m = n /\ frames'[m] = Top /\ Top = frames[m]
    BY <2>1, <2>3 DEF Top
  <2>5. CallUnderWay(m)'
    <3>1. Top.pc < CodeEnd(prog) /\ Calls(Code[Top.pc].op)
      BY <2>2 DEF Executes, InCode, Current
    <3> QED
      BY <1>1, <2>4, <3>1 DEF CallUnderWay
  <2>6. \A k \in 1 .. n : CallUnderWay(k)'
    <3>1. \A k \in 1 .. n : k \in Nat /\ (k = m \/ k \in 1 .. n - 1)
      BY <2>3, <2>4
    <3> QED
      BY <1>2, <1>4, <2>1, <2>5, <3>1
  <2>7. ASSUME risks' = {}
        PROVE  /\ \A k \in 1 .. n : CallMatches(k)'
               /\ inClosure' <=> Top'.byClosure
    <3>1. risks = {} /\ CallRisks(Current, f) = {}
      BY <2>1, <2>7
    <3>2. /\ Code[f].n = Current.n /\ ~Top.byClosure
          /\ Current.n + (IF Current.op = "CALLC" THEN 1 ELSE 0) <= Top.depth
      BY <2>1, <2>2, <2>3, <3>1, RisklessCall
    <3>3. CallMatches(m)'
      BY <1>1, <2>1, <2>4, <3>2 DEF CallMatches, Current
    <3>4. ASSUME NEW k \in 1 .. n - 1
          PROVE  CallMatches(k)'
      <4>1. k \in 1 .. n /\ k + 1 \in 1 .. n /\ k \in Nat
        BY <2>3
      <4>2. frames'[k] = frames[k] /\ frames'[k + 1] = frames[k + 1]
        BY <2>1, <4>1
      <4> QED
        BY <1>2, <1>5, <3>1, <4>1, <4>2
    <3>5. \A k \in 1 .. n : k = m \/ k \in 1 .. n - 1
      BY <2>3, <2>4
    <3>6. inClosure' <=> Top'.byClosure
      BY <1>2, <2>1, <2>2, <2>3, <3>1, <3>2 DEF Top
    <3> QED
      BY <3>3, <3>4, <3>5, <3>6
  <2>8. Len(frames') - 1 = n
    BY <2>1, <2>3
  <2> HIDE DEF n
  <2> QED
    BY <1>2, <2>2, <2>6, <2>7, <2>8 DEF CallsMatch
<1>9. CASE Return
  <2>1. /\ frames' # << >> /\ Len(frames') = n - 1 /\ n - 1 \in Nat \ {0}
        /\ \A k \in 1 .. n - 2 : frames'[k] = frames[k]
        /\ frames'[n - 1].entry = frames[n - 1].entry
        /\ frames'[n - 1].byClosure = frames[n - 1].byClosure
    BY <1>9, ReturnEffect DEF Caller
  <2>2. run = "running" /\ UNCHANGED <<run, phase, risks>> /\ ~inClosure'
    BY <1>9 DEF Return, Executes, Running, vars, FlagAfterEnd
  <2>3. \A k \in 1 .. n - 2 : k \in Nat /\ k \in 1 .. n - 1 /\ (k + 1 = n - 1 \/ k + 1 \in 1 .. n - 2)
    BY <1>3
  <2>4. \A k \in 1 .. n - 2 : CallUnderWay(k)'
    BY <1>2, <1>4, <2>1, <2>3
  <2>5. ASSUME risks = {}
        PROVE  /\ \A k \in 1 .. n - 2 : CallMatches(k)'
               /\ ~Top'.byClosure
    <3>1. ASSUME NEW k \in 1 .. n - 2
          PROVE  CallMatches(k)'
      <4>1. /\ frames'[k] = frames[k] /\ frames'[k + 1].entry = frames[k + 1].entry
            /\ frames'[k + 1].byClosure = frames[k + 1].byClosure
        BY <2>1, <2>3
      <4> QED
        BY <1>2, <1>5, <2>3, <2>5, <4>1
    <3>2. n - 1 \in 1 .. n - 1
      BY <2>1
    <3>3. ~frames[n - 1].byClosure
      BY <1>2, <2>5, <3>2 DEF CallMatches
    <3>4. ~Top'.byClosure
      BY <2>1, <3>3 DEF Top
    <3> QED
      BY <3>1, <3>4
  <2>6. Len(frames') - 1 = n - 2
    BY <1>3, <2>1
  <2> HIDE DEF n
  <2> QED
    BY <1>2, <2>2, <2>4, <2>5, <2>6 DEF CallsMatch
<1>10. CASE Finishes
  <2>1. /\ run = "running" /\ run' # "idle" /\ UNCHANGED <<phase, frames, inClosure>>
    BY <1>10, FinishEffect DEF vars
  <2>2. risks' = {} => risks = {}
    BY RisksKnown DEF RunTypeOK
  <2>3. \A k \in 1 .. n - 1 : /\ CallUnderWay(k)' <=> CallUnderWay(k)
                              /\ CallMatches(k)' <=> CallMatches(k)
    BY <1>1, <2>1 DEF CallUnderWay, CallMatches
  <2> QED
    BY <1>2, <2>1, <2>2, <2>3 DEF CallsMatch, Top
<1>11. CASE Verify \/ UNCHANGED allVars
  <2>1. UNCHANGED <<run, frames, inClosure, risks>>
    BY <1>11 DEF Verify, runVars, allVars
  <2>2. phase = "accepted" => phase' = "accepted"
    BY <1>11 DEF Verify, allVars, vars, Next, GatherEntry, Gather, GatherReject, GatherDone,
         WalkReject, WalkDone, WalkJmp, WalkCjmp, WalkEnd, WalkOther, WalkFail, Walk
  <2>3. \A k \in 1 .. n - 1 : /\ CallUnderWay(k)' <=> CallUnderWay(k)
                              /\ CallMatches(k)' <=> CallMatches(k)
    BY <1>1, <2>1 DEF CallUnderWay, CallMatches
  <2> QED
    BY <1>2, <2>1, <2>2, <2>3 DEF CallsMatch, Top
<1> QED
  BY <1>6, <1>7, <1>8, <1>9, <1>10, <1>11 DEF RunNext, Finishes

(* Every variable of the run keeps its type: control never leaves the code *)
(* by more than its end, whatever function runs, and no frame has fewer    *)
(* than no operands, because a frame that would is caught as underflow.    *)
THEOREM RunTypeCorrect == RunSpec => []RunTypeOK
<1>1. TypeOK /\ RunInit => RunTypeOK /\ CallsMatch
  <2> SUFFICES ASSUME TypeOK, RunInit PROVE RunTypeOK /\ CallsMatch
    OBVIOUS
  <2>1. run = "idle" /\ frames = << >> /\ inClosure = FALSE /\ risks = {}
    BY DEF RunInit
  <2>2. RunTypeOK
    BY <2>1, ShortSeq DEF RunTypeOK
  <2>3. 1 .. Len(frames) - 1 = {}
    BY <2>1
  <2> QED
    BY <2>1, <2>2, <2>3 DEF CallsMatch
<1>2. ProgramChosen /\ TypeOK' /\ RunTypeOK /\ CallsMatch /\ [RunNext]_allVars
        => RunTypeOK' /\ CallsMatch'
  BY RunStepTypes, RunStepMatches
<1> QED
  BY <1>1, <1>2, RunSafety, TypeCorrect, ProgramStaysChosen, PTL DEF RunSpec

(* While no call has miscounted and no closure's body has made a call, END *)
(* takes from every caller what its CALL or CALLC declares.                *)
THEOREM CallsAreMatched == RunSpec => []CallsMatch
<1>1. RunInit => CallsMatch
  <2> SUFFICES ASSUME RunInit PROVE CallsMatch
    OBVIOUS
  <2>1. run = "idle" /\ frames = << >> /\ inClosure = FALSE
    BY DEF RunInit
  <2>2. 1 .. Len(frames) - 1 = {}
    BY <2>1
  <2> QED
    BY <2>1, <2>2 DEF CallsMatch
<1>2. ProgramChosen /\ RunTypeOK /\ CallsMatch /\ [RunNext]_allVars => CallsMatch'
  BY RunStepMatches
<1> QED
  BY <1>1, <1>2, RunTypeCorrect, ProgramStaysChosen, PTL DEF RunSpec

(* A frame of a public function is where the walk has been.                *)
FrameStands(f, w, r) ==
  f.entry \in Entries =>
    /\ \E v \in w : v[1] = f.pc
    /\ CountsFit(prog) /\ r = {} => <<f.pc, f.depth>> \in w

Stands(f) == FrameStands(f, walked, risks)

(* From a walked address control goes on to a walked one, and from a       *)
(* walked pair with the declared change to a walked pair.                  *)
LEMMA WalkedGoesOn ==
  ASSUME WalkClosed, phase = "accepted", NEW a, NEW w \in walked, w[1] = a,
         NEW s \in DeclaredSuccessors(Code, a)
  PROVE  /\ \E v \in walked : v[1] = s
         /\ \A d : <<a, d>> \in walked => <<s, d + DeclaredChange(Code[a])>> \in walked
<1>1. <<s, w[2] + DeclaredChange(Code[a])>> \in walked
  BY DEF WalkClosed
<1>2. \A d : <<a, d>> \in walked => <<s, d + DeclaredChange(Code[a])>> \in walked
  BY DEF WalkClosed
<1> QED
  BY <1>1, <1>2

(* A frame that keeps its function and goes on to a successor, with the    *)
(* declared change when nothing was risked, stands where it should.        *)
LEMMA FrameStandsOn ==
  ASSUME WalkClosed, phase = "accepted", RunTypeOK, NEW f \in FrameType, Stands(f),
         NEW g, g.entry = f.entry, g.pc \in DeclaredSuccessors(Code, f.pc),
         CountsFit(prog) /\ risks = {} => g.depth = f.depth + DeclaredChange(Code[f.pc])
  PROVE  Stands(g)
<1> SUFFICES ASSUME g.entry \in Entries
             PROVE  /\ \E w \in walked : w[1] = g.pc
                    /\ CountsFit(prog) /\ risks = {} => <<g.pc, g.depth>> \in walked
  BY DEF Stands, FrameStands
<1>1. PICK w \in walked : w[1] = f.pc
  BY DEF Stands, FrameStands
<1>2. /\ \E v \in walked : v[1] = g.pc
      /\ \A d : <<f.pc, d>> \in walked => <<g.pc, d + DeclaredChange(Code[f.pc])>> \in walked
  BY <1>1, WalkedGoesOn
<1>3. CountsFit(prog) /\ risks = {} => <<f.pc, f.depth>> \in walked
  BY DEF Stands, FrameStands
<1> QED
  BY <1>2, <1>3

(* A frame of a public function is where the walk has been.                *)
THEOREM FrameIsWalked == RunSpec => []FrameWalked
<1>1. RunInit => FrameWalked
  BY DEF RunInit, FrameWalked
<1>2. ASSUME ProgramChosen, RunTypeOK, CallsMatch, WalkClosed, FrameWalked, [RunNext]_allVars
      PROVE  FrameWalked'
  <2> USE <1>2
  <2> DEFINE n == Len(frames)
  <2>1. Code' = Code /\ CountsFit(prog)' = CountsFit(prog) /\ Entries' = Entries
    BY RunKeepsProgram, ProgramUnchanged DEF CountsFit
  <2>2. /\ frames \in Seq(FrameType) /\ n \in Nat /\ DOMAIN frames = 1 .. n
        /\ \A k \in 1 .. n : frames[k] \in FrameType /\ Stands(frames[k])
    <3>1. frames \in Seq(FrameType) /\ n \in Nat /\ DOMAIN frames = 1 .. n
      BY LenProperties DEF RunTypeOK, FrameType
    <3>2. \A k \in 1 .. n : frames[k] \in FrameType
      BY <3>1, ElementOfSeq
    <3> QED
      BY <3>1, <3>2 DEF FrameWalked, Stands, FrameStands
  <2>3. risks \subseteq risks'
    BY RisksKnown DEF RunTypeOK
  (* what stands there still does when the walk is over                    *)
  <2>4. ASSUME NEW f, Stands(f), UNCHANGED walked
        PROVE  FrameStands(f, walked', risks')
    BY <2>1, <2>3, <2>4 DEF Stands, FrameStands
  <2>5. ASSUME NEW m \in Nat, frames' \in Seq(FrameType), Len(frames') = m,
               \A k \in 1 .. m : FrameStands(frames'[k], walked', risks')
        PROVE  FrameWalked'
    <3>1. DOMAIN frames' = 1 .. m
      BY <2>5, LenProperties
    <3> QED
      BY <2>1, <2>5, <3>1 DEF FrameWalked, Stands, FrameStands
  <2>6. run # "idle" => phase = "accepted"
    BY DEF CallsMatch
  <2>7. CASE Start
    <3>1. /\ phase = "accepted" /\ frames' = <<Frame(0, FALSE)>> /\ UNCHANGED walked
      BY <2>7 DEF Start, vars, depthVars
    <3>2. 0 \in Address(prog)
      BY ProgramTypes DEF RunTypeOK, TypeOK
    <3>3. /\ Frame(0, FALSE) \in FrameType
          /\ Frame(0, FALSE).entry = 0 /\ Frame(0, FALSE).pc = 0 /\ Frame(0, FALSE).depth = 0
      BY <3>2, FrameIsTyped DEF RunTypeOK, TypeOK
    <3>4. Stands(Frame(0, FALSE))
      <4>1. 0 \in Entries => <<0, 0>> \in walked
        BY <3>1 DEF WalkClosed
      <4> QED
        BY <3>3, <4>1 DEF Stands, FrameStands
    <3>5. frames' \in Seq(FrameType) /\ Len(frames') = 1 /\ frames'[1] = Frame(0, FALSE)
      BY <3>1, <3>3, ShortSeq
    <3>6. \A k \in 1 .. 1 : FrameStands(frames'[k], walked', risks')
      <4>1. FrameStands(Frame(0, FALSE), walked', risks')
        BY <2>4, <3>1, <3>4
      <4>2. \A k \in 1 .. 1 : k = 1
        OBVIOUS
      <4> QED
        BY <3>5, <4>1, <4>2
    <3> QED
      BY <2>5, <3>5, <3>6
  <2>8. CASE Step
    <3>1. /\ run = "running" /\ UNCHANGED <<phase, walked, risks>> /\ Executes
          /\ ~Ends(Current.op) /\ ~Calls(Current.op) /\ Current.op # "INVALID"
      BY <2>8 DEF Step, Executes, Running, vars, depthVars
    <3>2. /\ frames' \in Seq(FrameType) /\ Len(frames') = n
          /\ \A k \in 1 .. n - 1 : frames'[k] = frames[k]
          /\ frames'[n].entry = Top.entry
          /\ frames'[n].pc \in ExecutedSuccessors
          /\ frames'[n].depth = Top.depth + ExecutedChange(Current)
      BY <2>8, StepEffect
    <3>3. /\ Top \in FrameType /\ n \in 1 .. n /\ Top = frames[n]
          /\ Top.pc \in Address(prog) /\ Current \in Instr
      BY <3>1, TopTypes DEF Top
    <3>4. ExecutedSuccessors \subseteq DeclaredSuccessors(Code, Top.pc)
      BY <3>1 DEF ExecutedSuccessors, DeclaredSuccessors, DeclaredKind, Current, Ends
    <3>5. CountsFit(prog) => ExecutedChange(Current) = DeclaredChange(Code[Top.pc])
      <4>1. CountsFit(prog) => Current.n <= 127
        BY <3>3 DEF CountsFit, Current, Code
      <4> QED
        BY <3>1, <3>3, <4>1, DeclaredIsExecuted DEF Current
    <3>6. Stands(frames'[n])
      BY <2>2, <2>6, <3>1, <3>2, <3>3, <3>4, <3>5, FrameStandsOn
    <3>7. \A k \in 1 .. n : k = n \/ k \in 1 .. n - 1
      <4>1. PICK m \in Nat : m = n
        BY <2>2
      <4>2. \A k \in 1 .. m : k = m \/ k \in 1 .. m - 1
        BY ONLY m \in Nat
      <4> QED
        BY <4>1, <4>2
    <3>8. \A k \in 1 .. n : Stands(frames'[k])
      BY <2>2, <3>2, <3>6, <3>7
    <3>9. \A k \in 1 .. n : FrameStands(frames'[k], walked', risks')
      BY <2>1, <3>1, <3>8 DEF Stands, FrameStands
    <3> QED
      BY <2>2, <2>5, <3>2, <3>9
  <2>9. CASE Call
    <3>1. /\ run = "running" /\ UNCHANGED <<phase, walked>>
      BY <2>9 DEF Call, Executes, Running, vars, depthVars
    <3>2. PICK f \in Address(prog) :
            /\ frames' \in Seq(FrameType) /\ Len(frames') = n + 1
            /\ \A k \in 1 .. n : frames'[k] = frames[k]
            /\ frames'[n + 1].entry = f /\ frames'[n + 1].pc = f
            /\ frames'[n + 1].depth = 0
      BY <2>9, CallEffect
    <3>3. f \in Entries => <<f, 0>> \in walked
      BY <2>6, <3>1 DEF WalkClosed
    <3>4. Stands(frames'[n + 1])
      BY <3>2, <3>3 DEF Stands, FrameStands
    <3>5. \A k \in 1 .. n + 1 : k = n + 1 \/ k \in 1 .. n
      BY <2>2
    <3>6. \A k \in 1 .. n + 1 : Stands(frames'[k])
      BY <2>2, <3>2, <3>4, <3>5
    <3>7. \A k \in 1 .. n + 1 : FrameStands(frames'[k], walked', risks')
      BY <2>1, <2>3, <3>1, <3>6 DEF Stands, FrameStands
    <3> QED
      BY <2>2, <2>5, <3>2, <3>7
  <2>10. CASE Return
    <3>1. /\ run = "running" /\ UNCHANGED <<phase, walked, risks>> /\ Executes
          /\ Current.op = "END"
      BY <2>10 DEF Return, Executes, Running, vars, depthVars
    <3>2. /\ frames' \in Seq(FrameType) /\ Len(frames') = n - 1 /\ n - 1 \in Nat \ {0}
          /\ \A k \in 1 .. n - 2 : frames'[k] = frames[k]
          /\ Caller.pc \in Address(prog) /\ Caller.depth \in Nat
          /\ frames'[n - 1].entry = Caller.entry
          /\ frames'[n - 1].pc = Caller.pc + 1
          /\ frames'[n - 1].depth = Caller.depth - Removed + 1
      BY <2>10, ReturnEffect
    <3>3. n - 1 \in 1 .. n - 1 /\ n - 1 \in 1 .. n /\ (n - 1) + 1 = n
      BY <3>2, <2>2
    <3>4. Caller = frames[n - 1] /\ Caller \in FrameType /\ Stands(Caller)
      BY <2>2, <3>3 DEF Caller
    <3>5. Calls(Code[Caller.pc].op)
      BY <3>3, <3>4 DEF CallsMatch, CallUnderWay
    <3>6. Caller.pc + 1 \in DeclaredSuccessors(Code, Caller.pc)
      BY <3>5 DEF Calls, DeclaredSuccessors, DeclaredKind
    <3>7. ASSUME CountsFit(prog), risks = {}
          PROVE  Caller.depth - Removed + 1 = Caller.depth + DeclaredChange(Code[Caller.pc])
      <4> DEFINE i == Code[Caller.pc]
      <4>1. CallMatches(n - 1)
        BY <3>3, <3>7 DEF CallsMatch
      <4>2. Code[Top.entry].n = i.n /\ (Top.byClosure <=> i.op = "CALLC")
        BY <3>3, <3>4, <4>1 DEF CallMatches, Top
      <4>3. inClosure <=> Top.byClosure
        BY <3>1, <3>7 DEF CallsMatch, RunTypeOK
      <4>4. Removed = i.n + (IF i.op = "CALLC" THEN 1 ELSE 0)
        BY <4>2, <4>3 DEF Removed
      <4>5. i \in Instr /\ i.n <= 127 /\ i.n \in Nat
        <5>1. i \in Instr
          BY <3>2, ProgramTypes DEF RunTypeOK, TypeOK
        <5> QED
          BY <3>2, <3>7, <5>1 DEF CountsFit, Code, Instr
      <4>6. DeclaredChange(i) = IF i.op = "CALLC" THEN -i.n ELSE 1 - i.n
        BY <3>5, <4>5, DeclaredIsExecuted DEF Calls
      <4> HIDE DEF i
      <4>7. PICK c \in Nat, q \in Nat : c = Caller.depth /\ q = i.n
        BY <3>2, <4>5
      <4>8. CASE i.op = "CALLC"
        <5>1. Removed = q + 1 /\ DeclaredChange(i) = -q
          BY <4>4, <4>6, <4>7, <4>8
        <5>2. c - (q + 1) + 1 = c + (-q)
          BY ONLY <4>7
        <5> QED
          BY <4>7, <5>1, <5>2 DEF i
      <4>9. CASE i.op # "CALLC"
        <5>1. Removed = q + 0 /\ DeclaredChange(i) = 1 - q
          BY <4>4, <4>6, <4>7, <4>9
        <5>2. c - (q + 0) + 1 = c + (1 - q)
          BY ONLY <4>7
        <5> QED
          BY <4>7, <5>1, <5>2 DEF i
      <4> QED
        BY <4>8, <4>9
    <3>8. Stands(frames'[n - 1])
      BY <2>6, <3>1, <3>2, <3>4, <3>6, <3>7, FrameStandsOn
    <3>9. \A k \in 1 .. n - 1 : k = n - 1 \/ (k \in 1 .. n - 2 /\ k \in 1 .. n)
      BY <2>2, <3>2
    <3>10. \A k \in 1 .. n - 1 : Stands(frames'[k])
      BY <2>2, <3>2, <3>8, <3>9
    <3>11. \A k \in 1 .. n - 1 : FrameStands(frames'[k], walked', risks')
      BY <2>1, <3>1, <3>10 DEF Stands, FrameStands
    <3> QED
      BY <2>5, <3>2, <3>11
  <2>11. CASE Finishes
    <3>1. UNCHANGED <<frames, walked>>
      BY <2>11, FinishEffect DEF vars, depthVars
    <3>2. \A k \in 1 .. n : FrameStands(frames[k], walked', risks')
      BY <2>1, <2>2, <2>3, <3>1 DEF Stands, FrameStands
    <3> QED
      BY <2>1, <2>2, <3>1, <3>2 DEF FrameWalked, Stands, FrameStands
  <2>12. CASE Verify
    <3>1. UNCHANGED <<run, frames, risks>> /\ Next
      BY <2>12 DEF Verify, runVars
    <3>2. phase \in {"gather", "depth"}
      BY <3>1 DEF Next, GatherEntry, Gather, GatherReject, GatherDone, WalkReject,
                  WalkDone, WalkJmp, WalkCjmp, WalkEnd, WalkOther, WalkFail, Walk
    <3>3. frames = << >>
      BY <2>6, <3>2 DEF CallsMatch
    <3> QED
      BY <3>1, <3>3 DEF FrameWalked
  <2>13. CASE UNCHANGED allVars
    <3>1. UNCHANGED <<frames, walked, risks>>
      BY <2>13 DEF allVars, vars, depthVars, runVars
    <3> QED
      BY <2>1, <3>1 DEF FrameWalked
  <2> QED
    BY <2>7, <2>8, <2>9, <2>10, <2>11, <2>12, <2>13 DEF RunNext, Finishes
<1> QED
  BY <1>1, <1>2, RunSafety, ProgramStaysChosen, RunTypeCorrect, CallsAreMatched,
     WalkSound, PTL DEF RunSpec

(* How a run that has gone wrong ended.                                    *)
EndedInv ==
  /\ run = "stray" => (InCode => Current.op = "INVALID")
  /\ run = "underflow" /\ risks = {} =>
       \/ FrameNeed(Current) > Top.depth
       \/ Current.op = "CALL" /\ Current.n > Top.depth
  /\ run = "overflow" => Top.depth + ExecutedPeak(Current) > Room

LEMMA CallUnderflowNeed ==
  ASSUME ProgramChosen, RunTypeOK, CallUnderflow, risks' = {}
  PROVE  Current.op = "CALL" /\ Current.n > Top.depth
<1>1. /\ Executes /\ Calls(Current.op) /\ FrameNeed(Current) <= Top.depth
      /\ \E f \in Callees(Current) :
           CallNeed(Current, f) > Top.depth /\ risks' = risks \cup CallRisks(Current, f)
  BY DEF CallUnderflow
<1>2. PICK f \in Callees(Current) :
        CallNeed(Current, f) > Top.depth /\ CallRisks(Current, f) = {}
  BY <1>1
<1>3. Code[f].n = Current.n
  <2>1. "count" \notin CallRisks(Current, f)
    BY <1>2
  <2> QED
    BY <2>1 DEF CallRisks
<1>4. Current.n \in Nat /\ Top.depth \in Nat /\ FrameNeed(Current) \in Nat
  BY <1>1, TopTypes
<1>5. CallNeed(Current, f) > Top.depth => Code[f].n > Top.depth
  BY <1>1, <1>3, <1>4 DEF CallNeed, Maximum
<1>6. Current.n > Top.depth
  BY <1>2, <1>3, <1>5
<1>7. Current.op # "CALLC"
  <2>1. Current.op = "CALLC" => FrameNeed(Current) = Current.n + 1
    BY DEF FrameNeed, ExecutedNeed
  <2> QED
    BY <1>1, <1>4, <1>6, <2>1
<1> QED
  BY <1>1, <1>6, <1>7 DEF Calls

LEMMA MatchedReturnFinds ==
  ASSUME RunTypeOK, CallsMatch, ReturnUnderflow
  PROVE  risks # {}
<1> SUFFICES ASSUME risks = {} PROVE FALSE
  OBVIOUS
<1>1. Executes /\ Len(frames) > 1 /\ Removed > Caller.depth
  BY DEF ReturnUnderflow
<1>2. Len(frames) \in Nat \ {0} /\ frames # << >> /\ frames \in Seq(FrameType)
  BY <1>1, TopTypes
<1>3. PICK m \in Nat : m = Len(frames) - 1 /\ m \in 1 .. Len(frames) - 1 /\ m + 1 = Len(frames)
  BY <1>1, <1>2
<1>4. Caller = frames[m] /\ Top = frames[m + 1]
  BY <1>3 DEF Caller, Top
<1>5. CallMatches(m) /\ (inClosure <=> Top.byClosure)
  BY <1>2, <1>3 DEF CallsMatch
<1> DEFINE i == Code[Caller.pc]
<1>6. /\ Code[Top.entry].n = i.n
      /\ Top.byClosure <=> i.op = "CALLC"
      /\ i.n + (IF i.op = "CALLC" THEN 1 ELSE 0) <= Caller.depth
  BY <1>4, <1>5 DEF CallMatches
<1>7. Removed = i.n + (IF i.op = "CALLC" THEN 1 ELSE 0)
  BY <1>5, <1>6 DEF Removed
<1>8. Caller.depth \in Nat /\ Removed \in Nat
  <2>1. m \in 1 .. Len(frames)
    BY <1>2, <1>3
  <2>2. Caller \in FrameType
    BY <1>2, <1>4, <2>1, ElementOfSeq
  <2>3. Top.entry \in Address(prog) /\ \A f \in Address(prog) : Code[f].n \in Nat
    BY <1>1, TopTypes
  <2> QED
    BY <2>2, <2>3 DEF FrameType, Removed
<1> HIDE DEF i
<1>9. Removed <= Caller.depth
  BY <1>6, <1>7
<1> QED
  BY <1>1, <1>8, <1>9

LEMMA EndedInvariant == RunSpec => []EndedInv
<1>1. RunInit => EndedInv
  BY DEF RunInit, EndedInv
<1>2. ASSUME ProgramChosen, RunTypeOK, CallsMatch, EndedInv, [RunNext]_allVars
      PROVE  EndedInv'
  <2> USE <1>2
  <2>1. CASE Start \/ Step \/ Call \/ Return
    <3>1. run' = "running"
      BY <2>1 DEF Start, Step, Call, Return, Executes, Running
    <3> QED
      BY <3>1 DEF EndedInv
  <2>2. CASE Verify
    <3>1. run' = run /\ phase \in {"gather", "depth"}
      BY <2>2 DEF Verify, runVars, Next, GatherEntry, Gather, GatherReject, GatherDone,
                  WalkReject, WalkDone, WalkJmp, WalkCjmp, WalkEnd, WalkOther, WalkFail, Walk
    <3>2. run = "idle"
      BY <3>1 DEF CallsMatch
    <3> QED
      BY <3>1, <3>2 DEF EndedInv
  <2>3. CASE UNCHANGED allVars
    <3>1. UNCHANGED <<prog, frames, maxStack, run, risks>>
      BY <2>3 DEF allVars, vars, runVars, depthVars
    <3>2. /\ InCode' = InCode /\ Current' = Current /\ Top' = Top /\ Room' = Room
          /\ FrameNeed(Current)' = FrameNeed(Current)
      BY <3>1, ProgramUnchanged DEF InCode, Current, Top, Room, FrameNeed
    <3> QED
      BY <3>1, <3>2 DEF EndedInv
  <2>4. CASE Finishes
    <3>1. /\ UNCHANGED <<prog, frames, maxStack>>
          /\ run' \in {"returned", "stopped", "underflow", "overflow", "stray"}
      BY <2>4, FinishEffect DEF vars, depthVars
    <3>2. /\ InCode' = InCode /\ Current' = Current /\ Top' = Top /\ Room' = Room
          /\ FrameNeed(Current)' = FrameNeed(Current)
      BY <3>1, ProgramUnchanged DEF InCode, Current, Top, Room, FrameNeed
    <3>3. CASE Leave
      <4>1. run' \in {"returned", "stopped"}
        BY <3>3 DEF Leave
      <4> QED
        BY <4>1 DEF EndedInv
    <3>4. CASE Underflow
      <4>1. run' = "underflow" /\ FrameNeed(Current) > Top.depth
        BY <3>4 DEF Underflow
      <4> QED
        BY <3>2, <4>1 DEF EndedInv
    <3>5. CASE CallUnderflow
      <4>1. run' = "underflow"
        BY <3>5 DEF CallUnderflow
      <4>2. risks' = {} => Current.op = "CALL" /\ Current.n > Top.depth
        BY <3>5, CallUnderflowNeed
      <4> QED
        BY <3>2, <4>1, <4>2 DEF EndedInv
    <3>6. CASE ReturnUnderflow
      <4>1. run' = "underflow" /\ risks' # {}
        BY <3>6, MatchedReturnFinds DEF ReturnUnderflow
      <4> QED
        BY <4>1 DEF EndedInv
    <3>7. CASE Overflow
      <4>1. run' = "overflow" /\ Top.depth + ExecutedPeak(Current) > Room
        BY <3>7 DEF Overflow
      <4> QED
        BY <3>2, <4>1 DEF EndedInv
    <3>8. CASE Stray
      <4>1. run' = "stray" /\ (InCode => Current.op = "INVALID")
        BY <3>8 DEF Stray
      <4> QED
        BY <3>2, <4>1 DEF EndedInv
    <3> QED
      BY <2>4, <3>3, <3>4, <3>5, <3>6, <3>7, <3>8 DEF Finishes
  <2> QED
    BY <2>1, <2>2, <2>3, <2>4 DEF RunNext, Finishes
<1> QED
  BY <1>1, <1>2, ProgramStaysChosen, RunTypeCorrect, CallsAreMatched, PTL DEF RunSpec

(* A frame of a public function stands at an address of the code and on    *)
(* the operands the walk has found there.                                  *)
LEMMA StandsInCode ==
  ASSUME RunTypeOK, CallsMatch, WalkInv, FrameWalked, run # "idle", Top.entry \in Entries
  PROVE  /\ phase = "accepted" /\ Top.pc \in Address(prog) /\ Top.depth \in Nat
         /\ InCode /\ Current \in Instr /\ Current.op # "INVALID"
         /\ CountsFit(prog) /\ risks = {} =>
              <<Top.pc, Top.depth>> \in walked /\ DeclaredNeed(Current) <= Top.depth
<1>1. TypeOK /\ frames \in Seq(FrameType) /\ frames # << >> /\ phase = "accepted"
  BY DEF RunTypeOK, FrameType, CallsMatch
<1>2. Len(frames) \in DOMAIN frames /\ Top \in FrameType
  <2>1. /\ DOMAIN frames = 1 .. Len(frames) /\ Len(frames) \in Nat \ {0}
        /\ frames[Len(frames)] \in FrameType
    BY <1>1, LastSeq, LenProperties
  <2> QED
    BY <2>1 DEF Top
<1>3. /\ \E w \in walked : w[1] = Top.pc
      /\ CountsFit(prog) /\ risks = {} => <<Top.pc, Top.depth>> \in walked
  BY <1>2 DEF FrameWalked, Top
<1>4. PICK w \in walked : w[1] = Top.pc
  BY <1>3
<1>5. Top.pc \in Address(prog)
  BY <1>1, <1>4 DEF TypeOK
<1>6. Top.depth \in Nat
  BY <1>2 DEF FrameType
<1>7. InCode /\ Current \in Instr
  BY <1>1, <1>5, ProgramTypes DEF TypeOK, InCode, Current
<1>8. Current.op # "INVALID"
  BY <1>4 DEF WalkInv, WalkedFollowed, DecodeOk, Current
<1>9. CountsFit(prog) /\ risks = {} =>
        <<Top.pc, Top.depth>> \in walked /\ DeclaredNeed(Current) <= Top.depth
  BY <1>3 DEF WalkInv, WalkedFollowed, Current
<1> QED
  BY <1>1, <1>5, <1>6, <1>7, <1>8, <1>9

(* A frame of a public function of an accepted program stays inside the    *)
(* code.  While its counts fit, no call has miscounted and no closure's    *)
(* body has made one, it takes an operand it does not have only at an END  *)
(* without a value or a CALLC without a closure.                           *)
THEOREM VerifiedFramesAreSafe == RunSpec => []VerifiedFrameSafe
<1>1. RunTypeOK /\ CallsMatch /\ EndedInv /\ WalkInv /\ FrameWalked => VerifiedFrameSafe
  <2> SUFFICES ASSUME RunTypeOK, CallsMatch, EndedInv, WalkInv, FrameWalked,
                      run # "idle", Top.entry \in Entries
               PROVE  /\ run # "stray"
                      /\ run = "underflow" /\ CountsFit(prog) /\ risks = {} =>
                           \/ Current.op = "END" /\ Top.depth = 0
                           \/ Current.op = "CALLC" /\ Top.depth = Current.n
    BY DEF VerifiedFrameSafe
  <2>1. /\ InCode /\ Current.op # "INVALID" /\ Current \in Instr /\ Top.depth \in Nat
        /\ Top.pc \in Address(prog)
        /\ CountsFit(prog) /\ risks = {} => DeclaredNeed(Current) <= Top.depth
    BY StandsInCode
  <2>2. run # "stray"
    BY <2>1 DEF EndedInv
  <2>3. ASSUME run = "underflow", CountsFit(prog), risks = {}
        PROVE  \/ Current.op = "END" /\ Top.depth = 0
               \/ Current.op = "CALLC" /\ Top.depth = Current.n
    <3>1. Current.n \in Nat /\ Current.n <= 127
      BY <2>1, <2>3 DEF CountsFit, Current, Code, Instr
    <3>2. /\ DeclaredNeed(Current) <= Top.depth
          /\ \/ FrameNeed(Current) > Top.depth
             \/ Current.op = "CALL" /\ Current.n > Top.depth
      BY <2>1, <2>3 DEF EndedInv
    <3>3. FrameNeed(Current) = 0 \/ FrameNeed(Current) = ExecutedNeed(Current)
      BY DEF FrameNeed
    <3>4. DeclaredNeed(Current) \in Int /\ ExecutedNeed(Current) \in Int
      BY <2>1, <3>1, DeclaredInt DEF ExecutedNeed
    <3>5. /\ Current.op \notin {"END", "CALLC"} =>
               ExecutedNeed(Current) <= DeclaredNeed(Current)
          /\ Current.op = "END" => ExecutedNeed(Current) = 1 /\ DeclaredNeed(Current) = 0
          /\ Current.op = "CALLC" => /\ ExecutedNeed(Current) = Current.n + 1
                                     /\ DeclaredNeed(Current) = Current.n
          /\ Current.op = "CALL" => DeclaredNeed(Current) = Current.n
      BY <2>1, <3>1, DeclaredIsExecuted
    <3> HIDE DEF Current
    <3> QED
      BY <2>1, <3>1, <3>2, <3>3, <3>4, <3>5
  <2> QED
    BY <2>2, <2>3
<1> QED
  BY <1>1, RunSafety, RunTypeCorrect, CallsAreMatched, EndedInvariant, WalkInvariant,
     FrameIsWalked, PTL

(* An instruction pushes, above what it leaves, at most two words more than*)
(* the walk knows of.                                                      *)
LEMMA PeakBound ==
  ASSUME NEW i \in Instr, i.n <= 127, i.op = "CLOSURE" => i.n <= 3
  PROVE  /\ ExecutedPeak(i) \in Nat
         /\ i.op # "CLOSURE" => ExecutedPeak(i) <= 2
         /\ i.op = "CLOSURE" => /\ ExecutedPeak(i) <= 3
                                /\ DeclaredChange(i) = 1 /\ DeclaredKind(i) = "OTHER"
<1>1. i.n \in Nat
  BY DEF Instr
<1>2. ExecutedPeak(i) \in Nat /\ (i.op # "CLOSURE" => ExecutedPeak(i) <= 2)
  BY <1>1 DEF ExecutedPeak
<1>3. i.op = "CLOSURE" => ExecutedPeak(i) <= 3
  BY <1>1 DEF ExecutedPeak
<1>4. i.op = "CLOSURE" => DeclaredChange(i) = 1 /\ DeclaredKind(i) = "OTHER"
  BY DEF DeclaredChange, DeclaredKind
<1> QED
  BY <1>2, <1>3, <1>4

(* A frame of the only public function never pushes beyond the words its   *)
(* BEGIN has made sure of, while calls match.                              *)
THEOREM ReservedRoomSuffices == RunSpec => []RoomSuffices
<1>1. RunTypeOK /\ CallsMatch /\ EndedInv /\ WalkInv /\ WalkClosed /\ OwnStackCovers
        /\ FrameWalked => RoomSuffices
  <2> SUFFICES ASSUME RunTypeOK, CallsMatch, EndedInv, WalkInv, WalkClosed, OwnStackCovers,
                      FrameWalked, run = "overflow",
                      Top.entry \in Entries, Cardinality(Entries) = 1,
                      CountsFit(prog), KeepsMax(prog), SmallClosures(prog), risks = {}
               PROVE  FALSE
    BY DEF RoomSuffices
  <2> DEFINE i == Current
             m == maxStack[Top.entry]
             d == Top.depth
  <2>1. Top.depth + ExecutedPeak(Current) > Room
    BY DEF EndedInv
  <2>2. /\ phase = "accepted" /\ Top.pc \in Address(prog) /\ Top.depth \in Nat
        /\ Current \in Instr /\ <<Top.pc, Top.depth>> \in walked
    BY StandsInCode
  <2>3. /\ Current.n <= 127
        /\ Current.op = "CLOSURE" => Current.n <= 3
    BY <2>2 DEF CountsFit, SmallClosures, Current, Code
  <2>4. m \in Nat /\ Code[Top.entry].n \in Nat
    <3>1. TypeOK /\ Top.entry \in Address(prog)
      BY ProgramTypes DEF RunTypeOK, TypeOK, Entries
    <3>2. Code[Top.entry] \in Instr
      BY <3>1, ProgramTypes DEF TypeOK
    <3> QED
      BY <3>1, <3>2 DEF TypeOK, Instr
  <2>5. ASSUME NEW w \in walked
        PROVE  w[2] <= m
    BY <2>2 DEF OwnStackCovers
  <2>6. d <= m
    BY <2>2, <2>5
  <2>7. Room >= m + 2 /\ Room \in Nat
    BY <2>4 DEF Room
  <2>8. CASE Current.op # "CLOSURE"
    <3>1. ExecutedPeak(Current) \in Nat /\ ExecutedPeak(Current) <= 2
      BY <2>2, <2>3, <2>8, PeakBound
    <3> HIDE DEF m
    <3> QED
      BY <2>1, <2>2, <2>4, <2>6, <2>7, <3>1
  <2>9. CASE Current.op = "CLOSURE"
    <3>1. /\ ExecutedPeak(Current) \in Nat /\ ExecutedPeak(Current) <= 3
          /\ DeclaredChange(Current) = 1 /\ DeclaredKind(Current) = "OTHER"
      BY <2>2, <2>3, <2>9, PeakBound
    <3>2. Top.pc + 1 \in DeclaredSuccessors(Code, Top.pc)
      BY <3>1 DEF DeclaredSuccessors, Current
    <3>3. <<Top.pc + 1, Top.depth + 1>> \in walked
      BY <2>2, <3>1, <3>2 DEF WalkClosed, Current
    <3>4. Top.depth + 1 <= m
      BY <2>5, <3>3
    <3> HIDE DEF m
    <3> QED
      BY <2>1, <2>2, <2>4, <2>7, <3>1, <3>4
  <2> QED
    BY <2>8, <2>9
<1> QED
  BY <1>1, RunSafety, RunTypeCorrect, CallsAreMatched, EndedInvariant, WalkInvariant,
     WalkSound, OwnMaxStackSound, FrameIsWalked, PTL
=============================================================================
