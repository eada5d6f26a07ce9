----------------------------- MODULE MCLibrary -----------------------------
(***************************************************************************)
(* Words of six bits, tags of two characters out of two, hashes that look *)
(* one level deep, a buffer that starts with room for one character, and a *)
(* session for each question.                                              *)
(***************************************************************************)
EXTENDS Library

Session(calls) == [script |-> calls, typed |-> << >>]
UpTo(S, n) == UNION {[1 .. k -> S] : k \in 0 .. n}

(* the smallest, the largest, and those around 0                           *)
SomeWords == {MinWord, MinWord + 1, MaxWord - 1, MaxWord} \cup -4 .. 5

Operators ==
  {Session(<<[f |-> f, op |-> op, l |-> l, r |-> r]>>) :
     f \in {"BINOP", "Infix"}, op \in Ops, l \in Word, r \in SomeWords}

Begins ==
  {Session(<<[f |-> "BEGIN", args |-> a, stack |-> s]>>) :
     a \in 0 .. 2 * HalfWord, s \in 0 .. 2 * HalfWord}

Names == {[f |-> "LtagHash", name |-> s] : s \in UpTo(0 .. Digits, TagChars + 1)}
TagPairs == {Session(<<c, d>>) : c \in Names, d \in Names}

Flats == {Session(<<[f |-> "LflatCompare", l |-> l, r |-> r]>>) : l \in Word, r \in SomeWords}

Ints == {IntValue(n) : n \in {MinInt, -1, 0, MaxInt}}
Strings == {String(s) : s \in UpTo({0, 1}, 2) \cup {<<2>>, <<0, 2>>}}
Small == {IntValue(0), IntValue(1), String(<<0>>), String(<<0, 1>>), String(<<1>>)}
Arrays == {Array(<< >>)} \cup {Array(<<v>>) : v \in Small} \cup {Array(<<IntValue(0), v>>) : v \in Ints}
Trees ==
  {Sexp(1, << >>), Sexp(2, << >>), Sexp(1, <<IntValue(0)>>), Closure(1, << >>), Closure(2, << >>),
   Closure(1, <<IntValue(1)>>), Array(<<Array(<<IntValue(1)>>)>>), Sexp(1, <<Array(<< >>)>>)}
Compares == Ints \cup {Raw(2), Raw(3)} \cup Strings \cup Arrays \cup Trees

Matches ==
  {Session(<<[f |-> "Btag", p |-> p, name |-> c.name, n |-> n]>>) :
     p \in Ints \cup Strings \cup Trees, c \in Names, n \in 0 .. 2}

Comparison(p, q) == [f |-> "Lcompare", p |-> p, q |-> q]
HashOf(p) == [f |-> "Lhash", p |-> p]
Orders ==
  {Session(<<Comparison(p, q), Comparison(q, r), Comparison(p, r)>>) :
     p \in Compares, q \in Compares, r \in Compares}
Hashes ==
  {Session(<<Comparison(p, q), HashOf(p), HashOf(q)>>) : p \in Compares, q \in Compares}

Objects == {p \in Compares : p.t # "raw"}
Patterns ==
  {Session(<<Comparison(p, q), [f |-> "Bstring_patt", p |-> p, q |-> q]>>) : p \in Objects, q \in Objects}
    \cup {Session(<<[f |-> "PATT", p |-> p], [f |-> "Barray_patt", p |-> p, n |-> n]>>) :
            p \in Objects, n \in 0 .. 2}

Nil == Sexp(ConsTag, << >>)
Pair(p, q) == Sexp(ConsTag, <<p, q>>)
Lists ==
  {Pair(v, w) : v \in {IntValue(0), String(<<1, 0>>), Array(<<IntValue(0)>>)},
                w \in {IntValue(0), IntValue(1), Nil, Pair(IntValue(1), IntValue(0)), Pair(String(<<1>>), Nil)}}
Printable == {v \in Strings \cup Arrays \cup Trees \cup Lists \cup {Nil} : ListsHold(v)}
TextCalls ==
  {Session(<<[f |-> "Lstring", p |-> v]>>) : v \in Printable \cup Ints \cup {Raw(2)}}
    \cup {Session(<<[f |-> "Lstringcat", p |-> v]>>) : v \in Printable \cup Ints}
    \cup {Session(<<[f |-> "Lsprintf", text |-> s], [f |-> "Lsprintf", text |-> t]>>) :
            s \in UpTo({"a", "b"}, 3), t \in UpTo({"a"}, 9)}

OutsideCalls ==
  {[f |-> "LreadLine"], [f |-> "Lread"]}
    \cup {[f |-> f, there |-> b] : f \in {"Lfexists", "Lfread"}, b \in BOOLEAN}
Reading ==
  {[script |-> s, typed |-> t] : s \in UpTo(OutsideCalls, 3), t \in UpTo({"0", "a", EndOfLine}, 3)}
Rereading ==
  {[script |-> s, typed |-> t] :
     s \in [1 .. 4 -> {[f |-> "LreadLine"], [f |-> "Lread"], [f |-> "Lfexists", there |-> TRUE]}],
     t \in UpTo({"0", "a", EndOfLine}, 4)}

MCSessions == {Operators, Begins, TagPairs, Matches, Patterns, Flats, Orders, Hashes, TextCalls,
               Reading, Rereading}
=============================================================================
