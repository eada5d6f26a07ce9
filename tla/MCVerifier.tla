---------------------------- MODULE MCVerifier ----------------------------
(***************************************************************************)
(* All short programs over nearly every kind of instruction, and longer    *)
(* ones over those that make joins and loops.  The code starts with the    *)
(* BEGIN of a public function; a second public function may follow.        *)
(***************************************************************************)
EXTENDS Verifier

CONSTANTS ShortLen, \* instructions in a short program
          LongLen   \* instructions in a long program

Plain(op) == [op |-> op, n |-> 0, to |-> 0]

Branch(op, a) == [op |-> op, n |-> 0, to |-> a]

Call(a) == [op |-> "CALL", n |-> 1, to |-> a]

Branches(targets) == {Branch(op, a) : op \in {"JMP", "CJMP"}, a \in targets}

ShortAlphabet ==
  {Plain(op) : op \in {"CONST", "BINOP", "DROP", "BEGIN", "END", "FAIL", "STOP", "INVALID"}}
    \cup Branches(1 .. ShortLen - 1) \cup {Call(a) : a \in (0 .. ShortLen - 1) \ {1}}

LongAlphabet ==
  {Plain(op) : op \in {"CONST", "END"}} \cup Branches({2} \cup LongLen - 2 .. LongLen - 1)

Codes(len, alphabet) ==
  { [a \in 0 .. len - 1 |-> IF a = 0 THEN Plain("BEGIN") ELSE c[a]] :
      c \in [1 .. len - 1 -> alphabet] }

(* the second public function starts at the BEGIN b, if b is not 0         *)
ProgramsOver(len, alphabet) ==
  { [len |-> len, code |-> x[1], pub |-> IF x[2] = 0 THEN <<0>> ELSE <<0, x[2]>>] :
      x \in { y \in Codes(len, alphabet) \X (0 .. len - 1) : y[1][y[2]].op = "BEGIN" } }

(* The path that walks the JMP at 9 second is the deeper one: it keeps its *)
(* depth only if it ends otherwise.                                        *)
JoinBefore(last) ==
  [a \in 0 .. 10 |->
     CASE a \in {1, 6} -> Plain("LDA")
       [] a = 2 -> Branch("CJMP", 6)
       [] a = 3 -> Branch("CJMP", 9)
       [] a = 4 -> Plain("CONST")
       [] a = 7 -> Plain("STA")
       [] a = 8 -> Plain("DROP")
       [] a = 9 -> last
       [] a \in {5, 10} -> Plain("END")
       [] OTHER -> Plain("BEGIN")]

Joined ==
  {[len |-> 11, code |-> JoinBefore(last), pub |-> <<0>>] :
     last \in {Branch("JMP", 10), Plain("LINE")}}

MCPrograms ==
  ProgramsOver(ShortLen, ShortAlphabet) \cup ProgramsOver(LongLen, LongAlphabet) \cup Joined
=============================================================================
