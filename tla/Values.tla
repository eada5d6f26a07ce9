------------------------------- MODULE Values -------------------------------
(***************************************************************************)
(* What runtime.c computes about whole values: their order (Lcompare),     *)
(* their hash (Lhash) and their text (printValue, stringcat).  Each is a   *)
(* recursive function of its own over the same objects, and they have to   *)
(* agree on which values are the same.                                     *)
(*                                                                         *)
(* A value is a tree.  An object that contains itself is left out: on one, *)
(* all but the hash, which goes no deeper than HASH_DEPTH, never return.   *)
(***************************************************************************)
EXTENDS Words, Sequences, SequencesExt, TLC

CONSTANTS HashDepth,  \* HASH_DEPTH
          HashRange,  \* the numbers that are hashes (0x400000)
          ConsTag     \* the tag of a list cell

(* t is what the word is (a raw pointer is one that leads to no object), n *)
(* a number, the tag of an S-expression or the entry of a closure, and els *)
(* are the characters, elements, members or captured values.               *)
Value(t, n, els) == [t |-> t, n |-> n, els |-> els]
IntValue(n) == Value("int", n, << >>)
Raw(a) == Value("raw", a, << >>)
String(chars) == Value("string", 0, [i \in DOMAIN chars |-> IntValue(chars[i])])
Array(vs) == Value("array", 0, vs)
Sexp(tag, vs) == Value("sexp", tag, vs)
Closure(entry, vs) == Value("closure", entry, vs)

IsObject(p) == p.t \notin {"int", "raw"}

TagNumber(p) ==
  CASE p.t = "string" -> 1 [] p.t = "array" -> 3 [] p.t = "sexp" -> 5 [] p.t = "closure" -> 7

(* LEN counts the entry of a closure                                       *)
LEN(p) == Len(p.els) + (IF p.t = "closure" THEN 1 ELSE 0)

(* the characters a C function sees: up to the first 0                     *)
CString(p) ==
  LET zeros == {i \in DOMAIN p.els : p.els[i].n = 0}
  IN  IF zeros = {} THEN p.els
      ELSE SubSeq(p.els, 1, (CHOOSE i \in zeros : \A j \in zeros : i <= j) - 1)

-----------------------------------------------------------------------------
(***************************************************************************)
(* Lcompare                                                                *)
(***************************************************************************)
Difference(x, y) == BOX(Wrapped(x - y))

(* the first of the numbers that is not a boxed 0, or a boxed 0            *)
FirstNonZero(results) == FoldLeft(LAMBDA r, x : IF r # BOX(0) THEN r ELSE x, BOX(0), results)

Strcmp(s, t) ==
  LET differ == {i \in 1 .. (IF Len(s) < Len(t) THEN Len(s) ELSE Len(t)) : s[i] # t[i]}
      i == CHOOSE k \in differ : \A j \in differ : k <= j
      sign(a, b) == IF a < b THEN -1 ELSE Truth(a > b)
  IN  IF differ = {} THEN sign(Len(s), Len(t)) ELSE sign(s[i].n, t[i].n)

RECURSIVE Lcompare(_, _)

(* fault: lengths are not compared                                         *)
CompareElements(p, q) ==
  FirstNonZero(<<Difference(p.n, q.n)>> \o
               [i \in 1 .. (IF LEN(p) < LEN(q) THEN Len(p.els) ELSE Len(q.els)) |->
                  Lcompare(p.els[i], q.els[i])])

(* two objects of a kind: the tag or entry, the length, the elements       *)
CompareFields(p, q) ==
  IF p.n # q.n THEN Difference(p.n, q.n)
  ELSE IF LEN(p) # LEN(q) THEN Difference(LEN(p), LEN(q))
  ELSE FirstNonZero([i \in DOMAIN p.els |-> Lcompare(p.els[i], q.els[i])])

Lcompare(p, q) ==
  CASE p = q -> BOX(0)
    [] p.t = q.t /\ ~IsObject(p) -> Difference(p.n, q.n)
    [] p.t = "int" /\ q.t # "int" -> BOX(-1)
    [] p.t # "int" /\ q.t = "int" -> BOX(1)
    [] IsObject(p) /\ q.t = "raw" -> BOX(-1)
    [] p.t = "raw" /\ IsObject(q) -> BOX(1)
    [] IsObject(p) /\ IsObject(q) /\ p.t # q.t -> Difference(TagNumber(p), TagNumber(q))
    [] p.t = "string" /\ q.t = "string" /\ p # q -> BOX(Strcmp(CString(p), CString(q)))
    [] OTHER -> CompareFields(p, q)

-----------------------------------------------------------------------------
(***************************************************************************)
(* Lhash, in unsigned words                                                *)
(***************************************************************************)
HASH_APPEND(acc, x) ==
  LET s == (acc + x) % Modulus IN (s % HalfWord) * HalfWord + s \div HalfWord

Appended(acc, xs) == FoldLeft(HASH_APPEND, acc, xs)

RECURSIVE InnerHash(_, _, _)

(* fault: all characters of a string, not those before a 0                 *)
HashedAll(p) == [i \in DOMAIN p.els |-> p.els[i].n]

HashedChars(p) == [i \in DOMAIN CString(p) |-> p.els[i].n]

InnerHash(depth, acc, p) ==
  IF depth > HashDepth THEN acc
  ELSE IF ~IsObject(p) THEN HASH_APPEND(acc, p.n)
  ELSE LET header == Appended(acc, <<TagNumber(p), LEN(p)>>) IN
       CASE p.t = "string" -> Appended(header, HashedChars(p))
         [] p.t = "array" -> FoldLeft(LAMBDA h, x : InnerHash(depth + 1, h, x), header, p.els)
         [] OTHER -> FoldLeft(LAMBDA h, x : InnerHash(depth + 1, h, x), HASH_APPEND(header, p.n), p.els)

Lhash(p) == BOX(InnerHash(0, 0, p) % HashRange)

-----------------------------------------------------------------------------
(***************************************************************************)
(* The text of a value: the sequence of calls of printStringBuf, each with *)
(* the sequence of what it prints.                                         *)
(***************************************************************************)
Text(p) == [i \in DOMAIN CString(p) |-> ToString(p.els[i].n)]

(* calls for each value, and one for a comma between them                  *)
WithCommas(texts) ==
  FlattenSeq([i \in DOMAIN texts |-> IF i = Len(texts) THEN texts[i] ELSE texts[i] \o << <<", ">> >>])

RECURSIVE ListValues(_)

(* printValue and stringcat take what a list cell's second member leads to *)
(* for another list cell                                                   *)
ListValues(p) ==
  IF p.els = << >> THEN << >>
  ELSE <<p.els[1]>> \o (IF p.els[2].t = "int" THEN << >> ELSE ListValues(p.els[2]))

(* a list that ends in an empty S-expression has a comma more than values  *)
RECURSIVE EndsInEmpty(_)
EndsInEmpty(p) ==
  p.els = << >> \/ (p.els[2].t # "int" /\ EndsInEmpty(p.els[2]))

RECURSIVE PrintValue(_)

PrintValue(p) ==
  LET texts(vs) == [i \in DOMAIN vs |-> PrintValue(vs[i])] IN
  CASE p.t = "int" -> << <<ToString(p.n)>> >>
    [] p.t = "raw" -> << <<"0x", ToString(p.n)>> >>
    [] p.t = "string" -> << <<"quote">> \o Text(p) \o <<"quote">> >>
    [] p.t = "closure" ->
         << <<"<closure ">> >> \o WithCommas(<< << <<"0x", ToString(p.n)>> >> >> \o texts(p.els)) \o << <<">">> >>
    [] p.t = "array" -> << <<"[">> >> \o WithCommas(texts(p.els)) \o << <<"]">> >>
    [] p.t = "sexp" /\ p.n = ConsTag ->
         << <<"{">> >> \o WithCommas(texts(ListValues(p)))
           \o (IF EndsInEmpty(p) /\ p.els # << >> THEN << <<", ">> >> ELSE << >>) \o << <<"}">> >>
    [] OTHER ->
         << <<"tag", ToString(p.n)>> >>
           \o (IF p.els = << >> THEN << >> ELSE << <<" (">> >> \o WithCommas(texts(p.els)) \o << <<")">> >>)

RECURSIVE StringCat(_)

StringCat(p) ==
  CASE p.t = "int" -> << >>
    [] p.t = "string" -> <<Text(p)>>
    [] p.t = "sexp" /\ p.n = ConsTag ->
         LET vs == ListValues(p) IN FlattenSeq([i \in DOMAIN vs |-> StringCat(vs[i])])
    [] OTHER -> << <<"***">> >>

(* Its lists can be printed: what follows a list cell is an integer or can *)
(* be read as one.  Anything else is read beyond its end.                  *)
RECURSIVE ListsHold(_)
ListsHold(p) ==
  /\ \A i \in DOMAIN p.els : ListsHold(p.els[i])
  /\ p.t = "sexp" /\ p.n = ConsTag =>
       /\ Len(p.els) = 2
       /\ p.els[2].t = "int" \/ (p.els[2].t = "sexp" /\ Len(p.els[2].els) # 1)
=============================================================================
