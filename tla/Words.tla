------------------------------- MODULE Words -------------------------------
(***************************************************************************)
(* Machine words (src/runtime/runtime_common.h), and the arithmetic the    *)
(* two ways to run a Lama program do on them: the instruction BINOP of the *)
(* interpreter (executing-visitor.h) and the functions that stand for the  *)
(* operators in a compiled program (Ls__Infix_... in runtime.c).           *)
(*                                                                         *)
(* A word is a signed number of 2k bits; an odd word stands for an integer *)
(* of one bit less, an even one is a pointer.                              *)
(***************************************************************************)
EXTENDS Integers

CONSTANT HalfWord   \* 2^k: numbers of half a word (65536)

ASSUME WordsAssumption == HalfWord \in Nat /\ HalfWord > 1 /\ HalfWord % 2 = 0

Modulus == HalfWord * HalfWord
MinWord == -(Modulus \div 2)
MaxWord == Modulus \div 2 - 1
Word == MinWord .. MaxWord

(* the integers that fit into a word with their mark                       *)
MinInt == -(Modulus \div 4)
MaxInt == Modulus \div 4 - 1

(* Signed arithmetic wraps around.                                         *)
Wrapped(x) == LET r == x % Modulus IN IF r > MaxWord THEN r - Modulus ELSE r

UNBOXED(w) == w % 2 = 1
UNBOX(w) == w \div 2
BOX(x) == Wrapped(2 * x + 1)

-----------------------------------------------------------------------------
(***************************************************************************)
(* BEGIN                                                                   *)
(***************************************************************************)

(* The number of arguments in the code, as check_depth leaves it: the      *)
(* stack that the function needs is added above the lower half.            *)
Patched(nArgs, stackSize) == Wrapped(nArgs + stackSize * HalfWord)

(* visit_begin reads it back.                                              *)
RealArgs(word) == word % HalfWord

(* fault: read as a signed number                                          *)
RequiredStackSigned(word) == word \div HalfWord

RequiredStack(word) == (word % Modulus) \div HalfWord

-----------------------------------------------------------------------------
(***************************************************************************)
(* Operators.  A result is a word, or the process ends: by a trap, or by a *)
(* failure that the runtime reports.                                       *)
(***************************************************************************)
Ops == {"+", "-", "*", "/", "%", "<", "<=", ">", ">=", "==", "!=", "&&", "!!"}

Done(w) == [end |-> "word", w |-> w]
Trap == [end |-> "trap", w |-> 0]
Failure == [end |-> "failure", w |-> 0]

Truth(b) == IF b THEN 1 ELSE 0

(* C divides towards zero                                                  *)
Quotient(l, r) ==
  LET q(a, b) == a \div b
      abs(a) == IF a < 0 THEN -a ELSE a
  IN  IF (l < 0) = (r < 0) THEN q(abs(l), abs(r)) ELSE -q(abs(l), abs(r))

(* arithm_op, where it does not trap                                       *)
Arithmetic(l, r, op) ==
  CASE op = "+" -> Wrapped(l + r)
    [] op = "-" -> Wrapped(l - r)
    [] op = "*" -> Wrapped(l * r)
    [] op = "/" -> Quotient(l, r)
    [] op = "%" -> l - r * Quotient(l, r)
    [] op = "<" -> Truth(l < r)
    [] op = "<=" -> Truth(l <= r)
    [] op = ">" -> Truth(l > r)
    [] op = ">=" -> Truth(l >= r)
    [] op = "==" -> Truth(l = r)
    [] op = "!=" -> Truth(l # r)
    [] op = "&&" -> Truth(l # 0 /\ r # 0)
    [] op = "!!" -> Truth(l # 0 \/ r # 0)

(* the processor divides: not by zero, and the quotient has to be a word   *)
Traps(l, r, op) == op \in {"/", "%"} /\ (r = 0 \/ (l = MinWord /\ r = -1))

OnIntegers(l, r, op) == IF Traps(l, r, op) THEN Trap ELSE Done(BOX(Arithmetic(l, r, op)))

(* fault: the quotient of the words as they are                            *)
BinopOfWords(p, q, op) ==
  IF op = "/" THEN OnIntegers(p, q, op) ELSE OnIntegers(UNBOX(p), UNBOX(q), op)

(* visit_binop: whatever the operands are                                  *)
Binop(p, q, op) == OnIntegers(UNBOX(p), UNBOX(q), op)

(* Ls__Infix_...: == takes any words, - also two pointers                  *)
Synonym(p, q, op) ==
  CASE op = "==" -> Done(BOX(Truth(p = q)))
    [] op = "-" /\ ~UNBOXED(p) ->
         IF UNBOXED(q) THEN Failure ELSE Done(BOX(Wrapped(p - q)))
    [] OTHER ->
         IF UNBOXED(p) /\ UNBOXED(q) THEN OnIntegers(UNBOX(p), UNBOX(q), op) ELSE Failure

-----------------------------------------------------------------------------
(* LflatCompare.  ~UNBOXED(q) is never 0, so the branch for an integer q is*)
(* not taken.                                                              *)
FlatCompare(p, q) ==
  IF UNBOXED(p)
    THEN IF UNBOXED(q) THEN BOX(UNBOX(p) - UNBOX(q)) ELSE -1
    ELSE BOX(Wrapped(p - q))
=============================================================================
