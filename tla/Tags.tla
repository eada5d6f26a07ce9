-------------------------------- MODULE Tags --------------------------------
(***************************************************************************)
(* The tags of S-expressions (LtagHash and de_hash in runtime.c): a name   *)
(* becomes a number with a digit for each of its first characters, and is  *)
(* read back to see whether it was one that can be.                        *)
(*                                                                         *)
(* A name is a sequence of digits; the character "_" is the digit 0, and   *)
(* a character that stands for no digit is the number Digits.              *)
(***************************************************************************)
EXTENDS Naturals, Sequences, SequencesExt

CONSTANTS Digits,    \* characters a tag can have (64)
          TagChars   \* characters of it that count (5)

ASSUME TagsAssumption == Digits \in Nat /\ Digits > 1 /\ TagChars \in Nat \ {0}

Counted(s) == SubSeq(s, 1, IF Len(s) < TagChars THEN Len(s) ELSE TagChars)

NumberOf(s) == FoldLeft(LAMBDA h, digit : h * Digits + digit, 0, s)

(* de_hash: the digits of n, none of the zeros in front                    *)
DeHash(n) ==
  LET D[k \in 0 .. n] == IF k = 0 THEN << >> ELSE Append(D[k \div Digits], k % Digits) IN D[n]

(* fault: the name is not read back                                        *)
RefusedNot(s) == Digits \in ToSet(Counted(s))

(* a failure: a character that is none of the digits, or strncmp says that *)
(* the name read back is another                                           *)
Refused(s) == Digits \in ToSet(Counted(s)) \/ DeHash(NumberOf(Counted(s))) # Counted(s)

(* LtagHash, of a name that is not refused                                 *)
LtagHash(s) == NumberOf(Counted(s))
=============================================================================
