--------------------------- MODULE MCVerifiedRun ---------------------------
(***************************************************************************)
(* Runs of accepted programs: every program of a public function of        *)
(* BodyLen instructions over an alphabet, followed by a second function,   *)
(* public or not.                                                          *)
(***************************************************************************)
EXTENDS VerifiedRun

CONSTANTS BodyLen,   \* instructions of the public function, its BEGIN included
          PlainOps,  \* the operations that name no address and have no count
          Counted,   \* pairs of an operation and a count
          Jumps      \* pairs of a jump and its target

Plain(op) == [op |-> op, n |-> 0, to |-> 0]

Alphabet ==
  {Plain(op) : op \in PlainOps}
    \cup {[op |-> j[1], n |-> 0, to |-> j[2]] : j \in Jumps}
    \cup {[op |-> c[1], n |-> c[2], to |-> BodyLen] : c \in Counted}

(* What follows the public function, first a function of one argument: one *)
(* takes an operand it has not, one pushes more than BEGIN makes sure of,  *)
(* one has no END, one calls another function, as the body of a closure    *)
(* must not.                                                               *)
SecondFunctions ==
  LET begin == [op |-> "BEGIN", n |-> 1, to |-> 0]
      third == [op |-> "CALL", n |-> 0, to |-> BodyLen + 3]
      rest  == << Plain("CONST"), Plain("END") >>
  IN  [ takes  |-> <<begin, Plain("DROP"), Plain("CONST"), Plain("END")>> \o rest,
        pushes |-> <<begin, Plain("LDA"), Plain("LDA"), Plain("END")>> \o rest,
        strays |-> <<begin, Plain("CONST"), Plain("DROP"), Plain("INVALID")>> \o rest,
        calls  |-> <<begin, third, Plain("END"), Plain("BEGIN")>> \o rest ]

(* Each of them local, and the last one public as well                     *)
Seconds ==
  {<<f, <<0>>>> : f \in DOMAIN SecondFunctions} \cup {<<"calls", <<0, BodyLen>>>>}

Bodies == [1 .. BodyLen - 2 -> Alphabet]

MCPrograms ==
  { [ len |-> BodyLen + 6,
      code |-> [a \in 0 .. BodyLen + 5 |->
                  CASE a = 0 -> Plain("BEGIN")
                    [] a \in 1 .. BodyLen - 2 -> x[1][a]
                    [] a = BodyLen - 1 -> Plain("END")
                    [] OTHER -> SecondFunctions[x[2][1]][a - BodyLen + 1]],
      pub |-> x[2][2] ] : x \in Bodies \X Seconds }

MCJumps == { <<"JMP", 5>>, <<"CJMP", 3>>, <<"CJMP", 5>> }

MCCounted ==
  { <<"CALL", 0>>, <<"CALL", 1>>, <<"CALLC", 1>>, <<"CLOSURE", 0>>, <<"CLOSURE", 2>> }

-----------------------------------------------------------------------------
(* Single programs with one public function at 0                           *)
Single(instrs) ==
  {[len |-> Len(instrs), code |-> [a \in 0 .. Len(instrs) - 1 |-> instrs[a + 1]],
    pub |-> <<0>>]}

(* A call of a function that is not public and drops an operand it has not *)
LocalCallee ==
  Single(<< Plain("BEGIN"), [op |-> "CALL", n |-> 0, to |-> 3], Plain("END"),
            Plain("BEGIN"), Plain("DROP"), Plain("CONST"), Plain("END") >>)

(* An array of 200 elements taken from an empty stack                      *)
WideArray ==
  Single(<< Plain("BEGIN"), [op |-> "BARRAY", n |-> 200, to |-> 0], Plain("END") >>)

(* Two branches that jump to one end, the second with four operands more   *)
SharedEnd ==
  Single(<< Plain("BEGIN"), Plain("CONST"), [op |-> "CJMP", n |-> 0, to |-> 5],
            Plain("CONST"), [op |-> "JMP", n |-> 0, to |-> 13],
            Plain("CONST"), Plain("CONST"), Plain("CONST"), Plain("CONST"),
            Plain("BINOP"), Plain("BINOP"), Plain("BINOP"),
            [op |-> "JMP", n |-> 0, to |-> 13], Plain("END") >>)
=============================================================================
