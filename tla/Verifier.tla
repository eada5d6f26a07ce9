------------------------------ MODULE Verifier ------------------------------
(***************************************************************************)
(* The bytecode verifier of `analyzer FILE verify' (src/main.cpp):         *)
(* gather_incoming_cf finds the addresses that jumps and calls lead to,    *)
(* then check_depth walks the code of the public functions with an         *)
(* abstract operand depth, rejects a program whose depths do not fit, and  *)
(* remembers the deepest stack of every public function, which it patches  *)
(* into that function's BEGIN for the interpreter to reserve.              *)
(*                                                                         *)
(* The program is chosen in the initial state and never changes.  Both     *)
(* passes are loops over an explicit stack of pending work: one action is  *)
(* one iteration of a loop.                                                *)
(***************************************************************************)
EXTENDS Bytecode, Sequences, SequencesExt

CONSTANTS Programs, \* the programs considered: records [len, code, pub]
          TypedLen  \* bound: no typing is looked for in longer programs

Address(p) == 0 .. p.len - 1

CodeEnd(p) == p.len

(***************************************************************************)
(* A bytecode file the loader accepts: non-empty code, public symbols and  *)
(* jumps that stay inside it (a jump outside of it is undefined behaviour  *)
(* of both passes, which index a vector with its offset).                  *)
(***************************************************************************)
WellFormed(p) ==
  /\ p.len \in Nat \ {0}
  /\ p.code \in [Address(p) -> Instr]
  /\ p.pub \in Seq(Address(p))
  /\ \A a \in Address(p) :
       p.code[a].op \in {"JMP", "CJMP"} => p.code[a].to \in Address(p)

ASSUME ProgramsAssumption == \A p \in Programs : WellFormed(p)

VARIABLES
  prog,        \* the program under verification
  phase,       \* which loop runs, or the verdict
  entries,     \* how many public symbols gather_incoming_cf has pushed
  gstack,      \* gather_incoming_cf: instruction_stack
  gvisited,    \* gather_incoming_cf: visited
  incoming,    \* the addresses some jump or call leads to
  work,        \* check_depth: instruction_stack
  visited,     \* check_depth: the jump targets already scheduled
  registered,  \* check_depth: registered_depth, None where it has no entry
  maxStack,    \* check_depth: max_stack
  walked       \* history: every <<address, depth>> check_depth has passed

gatherVars == <<entries, gstack, gvisited, incoming>>
depthVars == <<work, visited, registered, maxStack, walked>>
vars == <<prog, phase, gatherVars, depthVars>>

Verdicts == {"accepted", "badCode", "badDepth"}

None == -1

Code == prog.code

Entries == {prog.pub[k] : k \in DOMAIN prog.pub}

Tracker(a, f, d, m) == [ip |-> a, fn |-> f, depth |-> d, max |-> m]

Maximum(x, y) == IF x < y THEN y ELSE x

Init ==
  /\ prog \in Programs
  /\ phase = "gather"
  /\ entries = 0
  /\ gstack = << >>
  /\ gvisited = {}
  /\ incoming = {}
  /\ work = << >>
  /\ visited = {}
  /\ registered = [a \in Address(prog) |-> None]
  /\ maxStack = [a \in Address(prog) |-> 0]
  /\ walked = {}

-----------------------------------------------------------------------------
(***************************************************************************)
(* gather_incoming_cf                                                      *)
(***************************************************************************)

PushIfNotVisited(a) == IF a \in gvisited THEN << >> ELSE <<a>>

JumpPush(a) ==
  IF JumpTargets(Code[a]) = {} THEN << >> ELSE PushIfNotVisited(Code[a].to)

(* What the read of visited[next_ip] may give, after the jump target is    *)
(* pushed.  Behind the last instruction it is a read past the end of the   *)
(* vector, which may give either value.                                    *)
NextSeen(a) ==
  IF a + 1 = CodeEnd(prog)
    THEN BOOLEAN
    ELSE {a + 1 \in gvisited \/ a + 1 \in JumpTargets(Code[a])}

(* fault: what follows a conditional jump or a call is not pushed          *)
NextPushExclusive(a, seen) ==
  IF FallsThrough(Code[a]) /\ JumpTargets(Code[a]) = {} /\ ~seen THEN <<a + 1>> ELSE << >>

NextPush(a, seen) == IF FallsThrough(Code[a]) /\ ~seen THEN <<a + 1>> ELSE << >>

GatherEntry ==
  /\ phase = "gather"
  /\ entries < Len(prog.pub)
  /\ LET new == PushIfNotVisited(prog.pub[entries + 1])
     IN  /\ gstack' = gstack \o new
         /\ gvisited' = gvisited \cup ToSet(new)
  /\ entries' = entries + 1
  /\ UNCHANGED <<prog, phase, incoming, depthVars>>

Gather ==
  /\ phase = "gather"
  /\ entries = Len(prog.pub)
  /\ gstack # << >>
  /\ LET a == Last(gstack) IN
       /\ a < CodeEnd(prog)
       /\ DecodeOk(Code, a)
       /\ \E seen \in NextSeen(a) :
            LET new == JumpPush(a) \o NextPush(a, seen)
            IN  /\ gstack' = Front(gstack) \o new
                /\ gvisited' = gvisited \cup ToSet(new)
       /\ incoming' = incoming \cup JumpTargets(Code[a])
  /\ UNCHANGED <<prog, phase, entries, depthVars>>

(* run_instruction exits: the code has run out, or does not decode         *)
GatherReject ==
  /\ phase = "gather"
  /\ entries = Len(prog.pub)
  /\ gstack # << >>
  /\ ~(Last(gstack) < CodeEnd(prog) /\ DecodeOk(Code, Last(gstack)))
  /\ phase' = "badCode"
  /\ UNCHANGED <<prog, gatherVars, depthVars>>

(* check_depth starts: a tracker for every public symbol                   *)
GatherDone ==
  /\ phase = "gather"
  /\ entries = Len(prog.pub)
  /\ gstack = << >>
  /\ phase' = "depth"
  /\ work' = [k \in DOMAIN prog.pub |-> Tracker(prog.pub[k], prog.pub[k], 0, 0)]
  /\ UNCHANGED <<prog, gatherVars, visited, registered, maxStack, walked>>

-----------------------------------------------------------------------------
(***************************************************************************)
(* check_depth                                                             *)
(***************************************************************************)

(* fault: the first depth wins and no one is told                          *)
AgreesAlways(table, a, d) == TRUE

(* register_depth: an error where the depths disagree, else the new table  *)
Agrees(table, a, d) == table[a] \in {None, d}

Register(table, a, d) == [table EXCEPT ![a] = d]

Decodes(t) == t.ip < CodeEnd(prog) /\ DecodeOk(Code, t.ip)

NewDepth(t) == t.depth + DeclaredChange(Code[t.ip])

(* fault: the depth is compared at joins only                              *)
DepthFitsUnchecked(t) ==
  t.ip \in incoming => Agrees(registered, t.ip, t.depth)

(* the checks between popping a tracker and following its instruction      *)
DepthFits(t) ==
  /\ DeclaredNeed(Code[t.ip]) <= t.depth
  /\ NewDepth(t) >= 0
  /\ t.ip \in incoming => Agrees(registered, t.ip, t.depth)

(* fault: the depth at an incoming address is not registered               *)
RegisteredNowhere(t) == registered

RegisteredHere(t) ==
  IF t.ip \in incoming THEN Register(registered, t.ip, t.depth) ELSE registered

(* fault: a target is compared with the depth before the jump              *)
JumpFitsBefore(t) ==
  DeclaredKind(Code[t.ip]) \in {"JMP", "CJMP"} =>
    Agrees(RegisteredHere(t), Code[t.ip].to, t.depth)

(* the register_depth of a jump target, an error after the push            *)
JumpFits(t) ==
  DeclaredKind(Code[t.ip]) \in {"JMP", "CJMP"} =>
    Agrees(RegisteredHere(t), Code[t.ip].to, NewDepth(t))

Passes(t) == Decodes(t) /\ DepthFits(t) /\ JumpFits(t)

(* fault: the deepest depth so far is forgotten                            *)
FollowForgets(t, a) == Tracker(a, t.fn, NewDepth(t), NewDepth(t))

Follow(t, a) == Tracker(a, t.fn, NewDepth(t), Maximum(t.max, NewDepth(t)))

(* fault: a target is pushed each time                                     *)
JumpWorkAlways(t) == <<Follow(t, Code[t.ip].to)>>

(* fault: a target is never pushed                                         *)
JumpWorkNever(t) == << >>

JumpWork(t) ==
  IF Code[t.ip].to \in visited THEN << >> ELSE <<Follow(t, Code[t.ip].to)>>

Walk(kind) ==
  /\ phase = "depth"
  /\ work # << >>
  /\ Passes(Last(work))
  /\ DeclaredKind(Code[Last(work).ip]) = kind
  /\ walked' = walked \cup {<<Last(work).ip, Last(work).depth>>}
  /\ UNCHANGED <<prog, phase, gatherVars>>

WalkJmp ==
  /\ Walk("JMP")
  /\ LET t == Last(work)
         to == Code[t.ip].to
     IN  /\ work' = Front(work) \o JumpWork(t)
         /\ visited' = visited \cup {to}
         /\ registered' = Register(RegisteredHere(t), to, NewDepth(t))
  /\ UNCHANGED maxStack

WalkCjmp ==
  /\ Walk("CJMP")
  /\ LET t == Last(work)
         to == Code[t.ip].to
     IN  /\ work' = Front(work) \o JumpWork(t) \o <<Follow(t, t.ip + 1)>>
         /\ visited' = visited \cup {to}
         /\ registered' = Register(RegisteredHere(t), to, NewDepth(t))
  /\ UNCHANGED maxStack

WalkEnd ==
  /\ Walk("END")
  /\ LET t == Last(work)
     IN  /\ work' = Front(work)
         /\ registered' = RegisteredHere(t)
         /\ maxStack' = [maxStack EXCEPT ![t.fn] = Maximum(@, t.max)]
  /\ UNCHANGED visited

WalkOther ==
  /\ Walk("OTHER")
  /\ LET t == Last(work)
     IN  /\ work' = Append(Front(work), Follow(t, t.ip + 1))
         /\ registered' = RegisteredHere(t)
  /\ UNCHANGED <<visited, maxStack>>

WalkFail ==
  /\ Walk("FAIL_KIND")
  /\ work' = Front(work)
  /\ registered' = RegisteredHere(Last(work))
  /\ UNCHANGED <<visited, maxStack>>

(* every error exit of one iteration                                       *)
WalkReject ==
  /\ phase = "depth"
  /\ work # << >>
  /\ ~Passes(Last(work))
  /\ phase' = IF Decodes(Last(work)) THEN "badDepth" ELSE "badCode"
  /\ UNCHANGED <<prog, gatherVars, depthVars>>

WalkDone ==
  /\ phase = "depth"
  /\ work = << >>
  /\ phase' = "accepted"
  /\ UNCHANGED <<prog, gatherVars, depthVars>>

Next ==
  \/ GatherEntry \/ Gather \/ GatherReject \/ GatherDone
  \/ WalkJmp \/ WalkCjmp \/ WalkEnd \/ WalkOther \/ WalkFail
  \/ WalkReject \/ WalkDone

Safety == Init /\ [][Next]_vars

(* verification is a loop of one thread: it goes on while it can           *)
Spec == Safety /\ WF_vars(Next)

-----------------------------------------------------------------------------
(***************************************************************************)
(* Correctness                                                             *)
(***************************************************************************)

Trackers == [ip : 0 .. CodeEnd(prog), fn : Address(prog), depth : Nat, max : Nat]

(* Every variable keeps its type.  What a tracker holds is a natural       *)
(* number only because the depth checks come before the pushes.            *)
TypeOK ==
  /\ WellFormed(prog)
  /\ phase \in {"gather", "depth"} \cup Verdicts
  /\ entries \in 0 .. Len(prog.pub)
  /\ gstack \in Seq(0 .. CodeEnd(prog))
  /\ gvisited \subseteq 0 .. CodeEnd(prog)
  /\ incoming \subseteq Address(prog)
  /\ work \in Seq(Trackers)
  /\ visited \subseteq Address(prog)
  /\ registered \in [Address(prog) -> Nat \cup {None}]
  /\ maxStack \in [Address(prog) -> Nat]
  /\ walked \subseteq Address(prog) \X Nat

(* Where control may go after the instruction at a, as check_depth follows *)
(* it: a call returns to the next instruction, a STOP is walked through.   *)
DeclaredSuccessors(code, a) ==
  (IF DeclaredKind(code[a]) \in {"JMP", "CJMP"} THEN {code[a].to} ELSE {})
    \cup
  (IF DeclaredKind(code[a]) \in {"CJMP", "OTHER"} THEN {a + 1} ELSE {})

(* Soundness of the walk.  When check_depth accepts, the pairs it passed   *)
(* contain <<entry, 0>> for every public function and are closed under the *)
(* declared flow: every one of them meets the need of its instruction, and *)
(* each successor was passed at the resulting depth, although a jump to a  *)
(* visited target is never walked again.                                   *)
WalkClosed ==
  phase = "accepted" =>
    /\ \A e \in Entries : <<e, 0>> \in walked
    /\ \A w \in walked :
         LET i == Code[w[1]] IN
         /\ DeclaredNeed(i) <= w[2]
         /\ \A s \in DeclaredSuccessors(Code, w[1]) :
              <<s, w[2] + DeclaredChange(i)>> \in walked

(* Two paths meet at the target of a jump or a call only with one depth:   *)
(* what register_depth is for, also while the walk is still going on.      *)
JoinDepthUnique ==
  \A v, w \in walked : v[1] = w[1] /\ v[1] \in incoming => v[2] = w[2]

(* The inductive invariant behind the two, in named parts.  A pair is      *)
(* scheduled when it was passed or its tracker is on the stack.            *)
Scheduled == walked \cup {<<u.ip, u.depth>> : u \in ToSet(work)}

PhaseInv ==
  /\ phase = "gather" => work = << >> /\ walked = {} /\ visited = {}
  /\ phase = "accepted" => work = << >>

EntriesScheduled ==
  phase \notin {"gather", "badCode"} => \A e \in Entries : <<e, 0>> \in Scheduled

WalkedFollowed ==
  \A w \in walked :
    LET i == Code[w[1]]
        new == w[2] + DeclaredChange(i)
    IN  /\ DecodeOk(Code, w[1])
        /\ DeclaredNeed(i) <= w[2]
        /\ DeclaredKind(i) \in {"JMP", "CJMP"} =>
             i.to \in visited /\ registered[i.to] = new
        /\ DeclaredKind(i) \in {"CJMP", "OTHER"} => <<w[1] + 1, new>> \in Scheduled

VisitedScheduled ==
  \A s \in visited : registered[s] # None /\ <<s, registered[s]>> \in Scheduled

JoinsRegistered ==
  \A w \in walked : w[1] \in incoming => registered[w[1]] = w[2]

(* The walk in progress: each public entry is scheduled at depth 0; from   *)
(* a passed pair control goes on to a scheduled one or to a visited target *)
(* whose registered depth is the depth it would arrive with; the visited   *)
(* targets are scheduled at their registered depth.                        *)
WalkInv ==
  /\ PhaseInv
  /\ EntriesScheduled
  /\ WalkedFollowed
  /\ VisitedScheduled
  /\ JoinsRegistered

(* A public entry is checked only as the start of a function and code      *)
(* behind a STOP was not seen by gather_incoming_cf; without the two,      *)
(* every join is a join that register_depth watches.                       *)
Disciplined(p) ==
  \A a \in Address(p) :
    /\ p.code[a].op # "STOP"
    /\ DeclaredKind(p.code[a]) \in {"CJMP", "OTHER"} =>
         \A k \in DOMAIN p.pub : p.pub[k] # a + 1

(* In a disciplined program every instruction is passed at one depth, so   *)
(* that the walked pairs are a typing of the code by operand depths.       *)
DepthUnique ==
  Disciplined(prog) => \A v, w \in walked : v[1] = w[1] => v[2] = w[2]

(* delta types p: a depth for the addresses it covers (None elsewhere)     *)
(* that starts every public function at 0 and that every step respects.    *)
Types(p, delta) ==
  /\ \A k \in DOMAIN p.pub : delta[p.pub[k]] = 0
  /\ \A a \in Address(p) : delta[a] # None =>
       /\ DecodeOk(p.code, a)
       /\ DeclaredNeed(p.code[a]) <= delta[a]
       /\ delta[a] + DeclaredChange(p.code[a]) >= 0
       /\ \A s \in DeclaredSuccessors(p.code, a) :
            s \in Address(p) /\ delta[s] = delta[a] + DeclaredChange(p.code[a])

(* Completeness: check_depth reports an error in no program that has a     *)
(* typing, whatever the order of its walks.                                *)
NeverRejectsTyped ==
  phase = "badDepth" /\ prog.len <= TypedLen =>
    \A delta \in [Address(prog) -> None .. prog.len] : ~Types(prog, delta)

(* The addresses gather_incoming_cf is to reach: the least set with the    *)
(* public functions that control does not leave.                           *)
ClosedUnderFlow(p, S) ==
  /\ \A k \in DOMAIN p.pub : p.pub[k] \in S
  /\ \A a \in S, s \in Address(p) :
       s \in JumpTargets(p.code[a]) \/ (s = a + 1 /\ FallsThrough(p.code[a])) => s \in S

Reached(p) ==
  {a \in Address(p) : \A S \in SUBSET Address(p) : ClosedUnderFlow(p, S) => a \in S}

(* gather_incoming_cf finds the target of every jump and call that can be  *)
(* reached and no other, in whatever order its stack visits them.          *)
IncomingExact ==
  phase = "depth" /\ walked = {} =>
    incoming = UNION {JumpTargets(Code[a]) : a \in Reached(prog)}

(* The ways control comes to an address: as the start of a public function,*)
(* from the instruction before, or by a jump.                              *)
WaysIn(p, x) ==
  {<<"entry", k>> : k \in {j \in DOMAIN p.pub : p.pub[j] = x}}
    \cup {<<"next", a>> : a \in {b \in Address(p) :
                              b + 1 = x /\ DeclaredKind(p.code[b]) \in {"CJMP", "OTHER"}}}
    \cup {<<"jump", a>> : a \in {b \in Address(p) :
                              p.code[b].to = x /\ p.code[b].op \in {"JMP", "CJMP"}}}

OneWayIn(p, x) ==
  \A v \in WaysIn(p, x) : (\A w \in WaysIn(p, x) : v = w) /\ (v[1] = "jump" => v[2] < x)

(* No tracker is dropped with a depth nothing else reports: no FAIL, and   *)
(* every JMP goes forward to a target that no other jump has, from code    *)
(* that is walked once.  When two paths lead to a JMP, the second one ends *)
(* there, and the depth it came by is lost.                                *)
KeepsMax(p) ==
  \A a \in Address(p) :
    /\ p.code[a].op # "FAIL"
    /\ p.code[a].op = "JMP" =>
         /\ p.code[a].to > a
         /\ \A x \in 0 .. a : OneWayIn(p, x)
         /\ \A b \in Address(p) \ {a} :
              p.code[b].op \in {"JMP", "CJMP"} => p.code[b].to # p.code[a].to

(* In such a program every depth of the walk is covered by the stack that  *)
(* is recorded for some public function.                                   *)
MaxStackCovers ==
  phase = "accepted" /\ KeepsMax(prog) =>
    \A w \in walked : \E e \in Entries : w[2] <= maxStack[e]

(* Verification ends, although it walks loops: every jump target is pushed *)
(* once and every other push goes forward.                                 *)
Termination == <>(phase \in Verdicts)

=============================================================================
