----------------------------- MODULE StringBuf -----------------------------
(***************************************************************************)
(* The string buffer of runtime.c (StringBuf, vprintStringBuf): memory     *)
(* that doubles when what is printed does not fit.  vsnprintf writes at    *)
(* most the rest of it, the last place for the 0, and returns the length   *)
(* of the whole text; the caller then tries again.                         *)
(***************************************************************************)
EXTENDS Naturals, Sequences, SequencesExt

CONSTANT StringBufInit   \* STRINGBUF_INIT

ASSUME StringBufAssumption == StringBufInit \in Nat \ {0}

Nul == "NUL"
Uninitialized == "any character"

NoBuf == [contents |-> << >>, ptr |-> 0, len |-> 0]

CreateStringBuf ==
  [contents |-> [i \in 1 .. StringBufInit |-> Nul], ptr |-> 0, len |-> StringBufInit]

Rest(buf) == buf.len - buf.ptr

(* fault: no place for the 0                                               *)
FitsWithout0(buf, text) == Len(text) <= Rest(buf)

(* written < rest                                                          *)
Fits(buf, text) == Len(text) < Rest(buf)

(* vsnprintf at ptr                                                        *)
Printed(buf, text) ==
  IF Rest(buf) = 0 THEN buf.contents
  ELSE LET shown == SubSeq(text, 1, IF Fits(buf, text) THEN Len(text) ELSE Rest(buf) - 1)
       IN  SubSeq(buf.contents, 1, buf.ptr) \o Append(shown, Nul)
             \o SubSeq(buf.contents, buf.ptr + Len(shown) + 2, Len(buf.contents))

Advanced(buf, text) ==
  [buf EXCEPT !.contents = Printed(buf, text), !.ptr = @ + Len(text)]

(* fault: as much again as there was at the start, if it is still that     *)
ExtendedOnce(buf, byte) ==
  [buf EXCEPT !.len = 2 * StringBufInit,
              !.contents = @ \o [i \in 1 .. 2 * StringBufInit - Len(@) |-> byte]]

(* extendStringBuf; the new half holds whatever was there                  *)
Extended(buf, byte) ==
  [buf EXCEPT !.len = 2 * @, !.contents = @ \o [i \in 1 .. Len(@) |-> byte]]

(* the text a C function sees                                              *)
TextOf(contents) ==
  LET ends == {i \in DOMAIN contents : contents[i] = Nul}
  IN  IF ends = {} THEN contents
      ELSE SubSeq(contents, 1, (CHOOSE i \in ends : \A j \in ends : i <= j) - 1)
=============================================================================
