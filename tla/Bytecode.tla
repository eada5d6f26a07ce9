------------------------------ MODULE Bytecode ------------------------------
(***************************************************************************)
(* The instructions of the Lama virtual machine, as far as the bytecode    *)
(* verifier and the operand stack can tell them apart.                     *)
(*                                                                         *)
(* An instruction is a record [op, n, to]: its operation, its count (of    *)
(* arguments, elements or captured variables) and the code address it      *)
(* names.  A field the operation does not have is 0.  An address is the    *)
(* position of an instruction, so that "the next instruction" of a is      *)
(* a + 1 and code_end is Len: byte offsets inside an instruction, names    *)
(* and literals are left out.                                              *)
(*                                                                         *)
(* Two effects are given for every instruction: the one DECLARED to the    *)
(* verifier (diagnostic-visitor.h) and the one EXECUTED by the             *)
(* interpreter (executing-visitor.h).                                      *)
(***************************************************************************)
EXTENDS Integers, FiniteSets

(* CJMPz and CJMPnz, END and RET, BEGIN and CBEGIN have the same shape;    *)
(* PATT_STR is `PATT =str', the one pattern that takes two operands.       *)
Ops == { "BINOP", "CONST", "STRING", "SEXP", "STI", "STA", "JMP", "END",
         "DROP", "DUP", "SWAP", "ELEM", "LD", "LDA", "ST", "CJMP", "BEGIN",
         "CLOSURE", "CALLC", "CALL", "TAG", "ARRAY", "FAIL", "LINE",
         "PATT_STR", "PATT", "LREAD", "LWRITE", "LLENGTH", "LSTRING",
         "BARRAY", "STOP", "INVALID" }

Instr == [op : Ops, n : Nat, to : Nat]

(***************************************************************************)
(* Control flow, as run_instruction reports it to gather_incoming_cf.      *)
(***************************************************************************)
JumpTargets(i) == IF i.op \in {"JMP", "CJMP", "CALL"} THEN {i.to} ELSE {}

EndsGather(i) == i.op \in {"END", "FAIL", "STOP"}

FallsThrough(i) == i.op # "JMP" /\ ~EndsGather(i)

(* run_instruction gives the whole program up: an opcode it does not know, *)
(* or a CALL or CLOSURE whose address is not the BEGIN of a function.      *)
DecodeOk(code, a) ==
  LET i == code[a] IN
  /\ i.op # "INVALID"
  /\ i.op \in {"CALL", "CLOSURE"} =>
       i.to \in DOMAIN code /\ code[i.to].op = "BEGIN"

(***************************************************************************)
(* The declared effect.  DiagnosticInformation keeps both numbers in an    *)
(* int8_t, so that a count above 127 wraps around.                         *)
(***************************************************************************)
I8(x) == ((x + 128) % 256) - 128

DeclaredChange(i) ==
  CASE i.op \in {"CONST", "STRING", "DUP", "LD", "CLOSURE", "LREAD"} -> 1
    [] i.op = "LDA" -> 2
    [] i.op \in {"BINOP", "STI", "DROP", "ELEM", "CJMP", "PATT_STR"} -> -1
    [] i.op = "STA" -> -2
    [] i.op \in {"SEXP", "BARRAY", "CALL"} -> I8(1 - i.n)
    [] i.op = "CALLC" -> I8(-i.n)
    [] OTHER -> 0

DeclaredNeed(i) ==
  CASE i.op \in {"DROP", "DUP", "ST", "CJMP", "TAG", "ARRAY", "LWRITE",
                 "LLENGTH", "LSTRING"} -> 1
    [] i.op \in {"BINOP", "STI", "SWAP", "ELEM", "PATT_STR", "PATT"} -> 2
    [] i.op = "STA" -> 3
    [] i.op \in {"SEXP", "BARRAY", "CALL", "CALLC", "CLOSURE"} -> I8(i.n)
    [] OTHER -> 0

(* InstructionKind: no visit function reports CALL, a call is OTHER.       *)
DeclaredKind(i) ==
  CASE i.op = "JMP" -> "JMP"
    [] i.op = "CJMP" -> "CJMP"
    [] i.op = "END" -> "END"
    [] i.op = "FAIL" -> "FAIL_KIND"
    [] OTHER -> "OTHER"

(***************************************************************************)
(* The executed effect, on the operand words of the running frame: how     *)
(* many words an instruction takes from it, how many it leaves there, and  *)
(* how many it pushes at most above the depth it started from.  CALLC      *)
(* reads the closure under its arguments, CALL and CALLC push the address  *)
(* to return to, CLOSURE pushes every captured value before it builds the  *)
(* closure from them, and END takes the value it returns.  What a call     *)
(* takes and leaves is up to its callee's BEGIN and END: see VerifiedRun.  *)
(***************************************************************************)
ExecutedNeed(i) ==
  CASE i.op \in {"DROP", "DUP", "ST", "CJMP", "TAG", "ARRAY", "LWRITE",
                 "LLENGTH", "LSTRING", "PATT", "END"} -> 1
    [] i.op \in {"BINOP", "STI", "SWAP", "ELEM", "PATT_STR"} -> 2
    [] i.op = "STA" -> 3
    [] i.op \in {"SEXP", "BARRAY"} -> i.n
    [] i.op = "CALLC" -> i.n + 1
    [] OTHER -> 0

ExecutedChange(i) ==
  CASE i.op \in {"CONST", "STRING", "DUP", "LD", "CLOSURE", "LREAD"} -> 1
    [] i.op = "LDA" -> 2
    [] i.op \in {"BINOP", "STI", "DROP", "ELEM", "CJMP", "PATT_STR"} -> -1
    [] i.op = "STA" -> -2
    [] i.op \in {"SEXP", "BARRAY"} -> 1 - i.n
    [] OTHER -> 0

ExecutedPeak(i) ==
  CASE i.op \in {"CONST", "STRING", "DUP", "LD", "LREAD", "CALL", "CALLC"} -> 1
    [] i.op = "LDA" -> 2
    [] i.op \in {"SEXP", "BARRAY"} /\ i.n = 0 -> 1
    [] i.op = "CLOSURE" -> IF i.n = 0 THEN 1 ELSE i.n
    [] OTHER -> 0
=============================================================================
