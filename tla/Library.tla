------------------------------ MODULE Library ------------------------------
(***************************************************************************)
(* A program's calls of the functions of runtime.c that are about values   *)
(* and about the outside: operators, tags, order and hash of values, the   *)
(* text of values with the buffer it is printed into, and the input and    *)
(* the files.  (What calls do to the heap and its roots: RuntimeRoots.)    *)
(*                                                                         *)
(* Input is a sequence of characters: digits, letters and ends of line.    *)
(***************************************************************************)
EXTENDS Values, Tags, StringBuf

CONSTANTS Sessions,   \* what a program may call, and what its input may be:
                      \* sets of such pairs
          MaxFiles    \* files that a process can have open at a time

ASSUME LibraryAssumption == MaxFiles \in Nat

VARIABLES script,   \* calls to come
          answers,  \* calls that returned, each with its result
          buf,      \* stringBuf
          todo,     \* texts that the call under way has still to print
          typed,    \* the whole input ...
          input,    \* ... and what is left of it
          errno,    \* whether a C function has failed so far
          files,    \* files that are open
          status    \* "runs", or how the process ended: "failure", "trap",
                    \* or "undefined"

strings == <<buf, todo>>
outside == <<typed, input, errno, files>>
vars == <<script, answers, strings, outside, status>>

Call == Head(script)
Calls(f) == status = "runs" /\ buf = NoBuf /\ script # << >> /\ Call.f = f

Answer(result) ==
  /\ script' = Tail(script)
  /\ answers' = Append(answers, [call |-> Call, result |-> result])
  /\ UNCHANGED status

(* the process ends                                                        *)
Ends(how) == status' = how /\ UNCHANGED <<script, answers>>

Init ==
  /\ \E kind \in Sessions : \E s \in kind :
       script = s.script /\ typed = s.typed /\ input = s.typed
  /\ answers = << >>
  /\ buf = NoBuf /\ todo = << >>
  /\ errno = FALSE /\ files = 0
  /\ status = "runs"

-----------------------------------------------------------------------------
(***************************************************************************)
(* Values                                                                  *)
(***************************************************************************)

(* an operator, interpreted or as a function of a compiled program         *)
Operator ==
  \E how \in {"BINOP", "Infix"} :
    /\ Calls(how)
    /\ LET r == IF how = "BINOP" THEN Binop(Call.l, Call.r, Call.op)
                                 ELSE Synonym(Call.l, Call.r, Call.op)
       IN  IF r.end = "word" THEN Answer(r.w) ELSE Ends(r.end)
    /\ UNCHANGED <<strings, outside>>

(* the verifier leaves the stack that a function needs in its BEGIN        *)
PatchBegin ==
  /\ Calls("BEGIN")
  /\ Answer(Patched(Call.args, Call.stack))
  /\ UNCHANGED <<strings, outside>>

TagHash ==
  /\ Calls("LtagHash")
  /\ IF Refused(Call.name) THEN Ends("failure") ELSE Answer(LtagHash(Call.name))
  /\ UNCHANGED <<strings, outside>>

(* the instruction TAG of the interpreter                                  *)
Btag(p, name, n) == p.t = "sexp" /\ p.n = LtagHash(name) /\ LEN(p) = n

MatchTag ==
  /\ Calls("Btag")
  /\ IF Refused(Call.name) THEN Ends("failure") ELSE Answer(Btag(Call.p, Call.name, Call.n))
  /\ UNCHANGED <<strings, outside>>

(* the instruction ARRAY                                                   *)
MatchArray ==
  /\ Calls("Barray_patt")
  /\ Answer(Call.p.t = "array" /\ LEN(Call.p) = Call.n)
  /\ UNCHANGED <<strings, outside>>

(* patts_match                                                             *)
Kinds == {"#val", "#ref", "#string", "#array", "#sexp", "#fun"}

OfKind(p, kind) ==
  CASE kind = "#val" -> p.t = "int"
    [] kind = "#ref" -> p.t # "int"
    [] kind = "#string" -> p.t = "string"
    [] kind = "#array" -> p.t = "array"
    [] kind = "#sexp" -> p.t = "sexp"
    [] kind = "#fun" -> p.t = "closure"

MatchKinds ==
  /\ Calls("PATT")
  /\ Answer({kind \in Kinds : OfKind(Call.p, kind)})
  /\ UNCHANGED <<strings, outside>>

(* PATT =str calls Bstring_patt with the top of the stack and the word     *)
(* below it, which has to be a string or an integer; of an integer the     *)
(* characters are read if the other one is a string.                       *)
MatchString ==
  /\ Calls("Bstring_patt")
  /\ LET x == Call.p
         y == Call.q
     IN  CASE y.t \notin {"int", "string"} -> Ends("failure")
           [] y.t = "int" /\ x.t = "string" -> Ends("undefined")
           [] OTHER -> Answer(x.t = "string" /\ CString(x) = CString(y))
  /\ UNCHANGED <<strings, outside>>

CompareWords ==
  /\ Calls("LflatCompare")
  /\ Answer(FlatCompare(Call.l, Call.r))
  /\ UNCHANGED <<strings, outside>>

Compare ==
  /\ Calls("Lcompare")
  /\ Answer(Lcompare(Call.p, Call.q))
  /\ UNCHANGED <<strings, outside>>

Hash ==
  /\ Calls("Lhash")
  /\ Answer(Lhash(Call.p))
  /\ UNCHANGED <<strings, outside>>

-----------------------------------------------------------------------------
(***************************************************************************)
(* Texts: Lstring, Lstringcat and Lsprintf                                 *)
(***************************************************************************)

(* the texts that a call prints, one after the other                       *)
Texts(call) ==
  CASE call.f = "Lstring" -> PrintValue(call.p)
    [] call.f = "Lstringcat" -> StringCat(call.p)
    [] call.f = "Lsprintf" -> <<call.text>>

StartText ==
  /\ \E f \in {"Lstring", "Lstringcat", "Lsprintf"} : Calls(f)
  /\ buf' = CreateStringBuf
  /\ todo' = Texts(Call)
  /\ UNCHANGED <<script, answers, outside, status>>

(* vprintStringBuf, when the text fits                                     *)
PrintText ==
  /\ todo # << >> /\ Fits(buf, Head(todo))
  /\ buf' = Advanced(buf, Head(todo))
  /\ todo' = Tail(todo)
  /\ UNCHANGED <<script, answers, outside, status>>

(* ... and when only a part of it has been written                         *)
ExtendBuf ==
  /\ todo # << >> /\ ~Fits(buf, Head(todo))
  /\ \E byte \in {Nul, Uninitialized} :
       buf' = Extended([buf EXCEPT !.contents = Printed(buf, Head(todo))], byte)
  /\ UNCHANGED <<script, answers, todo, outside, status>>

(* Bstring copies up to the 0                                              *)
FinishText ==
  /\ buf # NoBuf /\ todo = << >>
  /\ Answer(TextOf(buf.contents))
  /\ buf' = NoBuf
  /\ UNCHANGED <<todo, outside>>

-----------------------------------------------------------------------------
(***************************************************************************)
(* Input and files                                                         *)
(***************************************************************************)
Digit == {"0", "1"}
EndOfLine == "\n"

RECURSIVE While(_, _)
(* the characters in front that are in C                                   *)
While(C, text) ==
  IF text = << >> \/ Head(text) \notin C THEN << >>
  ELSE <<Head(text)>> \o While(C, Tail(text))

After(front, text) == SubSeq(text, Len(front) + 1, Len(text))

Characters == ToSet(typed)
Line == While(Characters \ {EndOfLine}, input)

(* fault: the end of the line is not taken                                 *)
RestAtEnd(line) == After(line, input)

(* getchar takes the end of the line, if there is one                      *)
RestAfter(line) ==
  LET rest == After(line, input) IN IF rest = << >> THEN rest ELSE Tail(rest)

(* A line of no characters is read as the end of the input is, and is left *)
(* where it is; then errno tells whether that is a failure.                *)
ReadLine ==
  /\ Calls("LreadLine")
  /\ IF Line # << >>
       THEN Answer(Line) /\ input' = RestAfter(Line)
       ELSE /\ IF errno THEN Ends("failure") ELSE Answer(<< >>)
            /\ UNCHANGED input
  /\ UNCHANGED <<strings, typed, errno, files>>

(* The result was set to BOX(0), which is 1, and stays when there is no    *)
(* number.                                                                 *)
Read ==
  /\ Calls("Lread")
  /\ LET number == After(While({EndOfLine}, input), input)
         digits == While(Digit, number)
     IN  /\ Answer(IF digits = << >> THEN <<"1">> ELSE digits)
         /\ input' = After(digits, number)
  /\ UNCHANGED <<strings, typed, errno, files>>

Opens == Call.there /\ files < MaxFiles

(* The file is not closed.                                                 *)
FileExists ==
  /\ Calls("Lfexists")
  /\ Answer(Opens)
  /\ files' = files + (IF Opens THEN 1 ELSE 0)
  /\ errno' = (errno \/ ~Opens)
  /\ UNCHANGED <<strings, typed, input>>

(* Opened, read and closed; or a failure.                                  *)
FileRead ==
  /\ Calls("Lfread")
  /\ IF Opens THEN Answer(<< >>) ELSE Ends("failure")
  /\ errno' = (errno \/ ~Opens)
  /\ UNCHANGED <<strings, typed, input, files>>

-----------------------------------------------------------------------------
Next ==
  \/ Operator \/ PatchBegin \/ TagHash \/ MatchTag \/ MatchArray \/ MatchKinds
  \/ MatchString \/ CompareWords \/ Compare \/ Hash
  \/ StartText \/ PrintText \/ ExtendBuf \/ FinishText
  \/ ReadLine \/ Read \/ FileExists \/ FileRead

(* A call that is under way goes on.                                       *)
LibSpec == Init /\ [][Next]_vars /\ WF_vars(Next)

-----------------------------------------------------------------------------
(***************************************************************************)
(* Properties                                                              *)
(***************************************************************************)

Answered(f) == {i \in DOMAIN answers : answers[i].call.f = f}
Result(i) == answers[i].result

Ended(f) == status # "runs" /\ Call.f = f

(* v is the value of an operator on integers                               *)
IsValue(v, l, r, op) ==
  LET rest == IF op = "/" THEN l - r * v ELSE v IN
  IF op \in {"/", "%"}
    THEN /\ rest * rest < r * r /\ rest * l >= 0
         /\ op = "%" => \E q \in Word : l = q * r + v
    ELSE v = Arithmetic(l, r, op)

(* Interpreted or compiled, an operator on two integers gives the integer  *)
(* that arithmetic gives, modulo the 31 bits that are left for it, and     *)
(* only a division by zero ends the process; the quotient of the smallest  *)
(* integer by -1 does not.  On anything else the interpreter goes on where *)
(* the compiled program fails, but for == and the difference of pointers.  *)
(* (visit_binop, arithm_op, Ls__Infix_...)                                 *)
OperatorsAgree ==
  /\ \A i \in Answered("BINOP") \cup Answered("Infix") :
       LET c == answers[i].call IN
       UNBOXED(c.l) /\ UNBOXED(c.r) =>
         \E v \in Word : BOX(v) = Result(i) /\ IsValue(v, UNBOX(c.l), UNBOX(c.r), c.op)
  /\ \A i \in Answered("Infix") :
       LET c == answers[i].call IN
       ~(UNBOXED(c.l) /\ UNBOXED(c.r)) => c.op = "==" \/ (c.op = "-" /\ ~UNBOXED(c.l) /\ ~UNBOXED(c.r))
  /\ Ended("BINOP") =>
       status = "trap" /\ Call.op \in {"/", "%"} /\ UNBOX(Call.r) = 0
  /\ Ended("Infix") =>
       \/ status = "failure" /\ ~(UNBOXED(Call.l) /\ UNBOXED(Call.r))
       \/ status = "trap" /\ Call.op \in {"/", "%"} /\ Call.r = BOX(0)

(* What the verifier adds to the number of arguments in a BEGIN can be     *)
(* told apart from it exactly when both fit into half a word.              *)
(* (check_depth, visit_begin)                                              *)
PatchDecodes ==
  \A i \in Answered("BEGIN") :
    LET c == answers[i].call IN
    (RealArgs(Result(i)) = c.args /\ RequiredStack(Result(i)) = c.stack)
      <=> (c.args < HalfWord /\ c.stack < HalfWord)

(* A name is refused as a tag exactly when one of its first characters     *)
(* cannot be in a tag or it starts with "_"; any other is read back from   *)
(* its number, cut to five characters, and so two names are the same tag   *)
(* exactly when they start with the same five, and match as one.           *)
(* (LtagHash, de_hash, Btag)                                               *)
TagsExact ==
  /\ \A i \in Answered("LtagHash") : DeHash(Result(i)) = Counted(answers[i].call.name)
  /\ \A i, j \in Answered("LtagHash") :
       (Result(i) = Result(j)) <=> (Counted(answers[i].call.name) = Counted(answers[j].call.name))
  /\ \A i \in Answered("Btag") :
       LET call == answers[i].call IN
       Result(i) <=> /\ call.p.t = "sexp" /\ Len(call.p.els) = call.n
                     /\ DeHash(call.p.n) = Counted(call.name)
  /\ Ended("LtagHash") \/ Ended("Btag") =>
       \/ Digits \in ToSet(Counted(Call.name))
       \/ Call.name # << >> /\ Call.name[1] = 0

(* Two values packed into one word come out of it again, and a name made a *)
(* number is read back from it, up to the limits of each.                  *)
EncodingsExact == PatchDecodes /\ TagsExact

(* all numbers in a value                                                  *)
RECURSIVE Numbers(_)
Numbers(p) == {p.n} \cup UNION {Numbers(x) : x \in ToSet(p.els)}

(* no two of the numbers are further apart than an integer can be          *)
Near(ps) == LET ns == UNION {Numbers(p) : p \in ps} IN \A x, y \in ns : x - y <= MaxInt

(* In the same place of both are strings of different lengths.             *)
RECURSIVE LengthsDiffer(_, _)
LengthsDiffer(p, q) ==
  IF p.t = "string" /\ q.t = "string" THEN Len(p.els) # Len(q.els)
  ELSE \E i \in DOMAIN p.els \cap DOMAIN q.els : LengthsDiffer(p.els[i], q.els[i])

Sign(w) == IF UNBOX(w) < 0 THEN -1 ELSE Truth(UNBOX(w) > 0)

Compared(i, p, q) == answers[i].call.p = p /\ answers[i].call.q = q

(* Lcompare orders values: the other way round it gives the other sign,    *)
(* and what is not above a second one is not above a third that the second *)
(* is not above, if no two integers in them are 2^30 apart or more.        *)
(* Values that it finds equal have the same hash, unless there are strings *)
(* in them that differ only after a 0, in their length: the hash counts    *)
(* it, the order does not.  LflatCompare finds two words equal only when   *)
(* they are the same one, or pointers half of the memory apart; its sign   *)
(* tells the order of integers that are as near.  The pattern of a string  *)
(* matches what Lcompare finds equal to it, and fails only when the word   *)
(* below the top of the stack is none; and a value matches one of the      *)
(* patterns of kinds, or also #ref when it is an object.                   *)
(* (Lcompare, inner_hash, LflatCompare, Bstring_patt, patts_match)         *)
ValuesAgree ==
  /\ \A i \in Answered("LflatCompare") :
       LET c == answers[i].call
           d == UNBOX(c.l) - UNBOX(c.r)
       IN  /\ Result(i) = BOX(0) <=>
                c.l = c.r \/ (~UNBOXED(c.l) /\ ~UNBOXED(c.r) /\ 2 * (c.l - c.r) % Modulus = 0)
           /\ UNBOXED(c.l) /\ UNBOXED(c.r) /\ d \in MinInt .. MaxInt => UNBOX(Result(i)) = d
  /\ Ended("Bstring_patt") => Call.q.t # "string"
  /\ \A i \in Answered("PATT") :
       Cardinality(Result(i) \ {"#ref"}) = 1 /\ ("#ref" \in Result(i) <=> "#val" \notin Result(i))
  /\ \A i \in Answered("Lcompare") :
       LET p == answers[i].call.p
           q == answers[i].call.q
       IN  /\ \A j \in Answered("Lcompare") :
                Compared(j, q, p) /\ Near({p, q}) => Sign(Result(j)) = -Sign(Result(i))
           /\ \A j, k \in Answered("Lcompare") :
                LET r == answers[j].call.q IN
                Compared(j, q, r) /\ Compared(k, p, r) /\ Near({p, q, r})
                /\ Sign(Result(i)) <= 0 /\ Sign(Result(j)) <= 0 => Sign(Result(k)) <= 0
           /\ \A j, k \in Answered("Lhash") :
                answers[j].call.p = p /\ answers[k].call.p = q /\ Result(i) = BOX(0)
                  => Result(j) = Result(k) \/ LengthsDiffer(p, q)
           /\ \A j \in Answered("Bstring_patt") :
                Compared(j, p, q) /\ "string" \in {p.t, q.t} =>
                  (Result(j) <=> Result(i) = BOX(0))

(* the text of these values with commas between them                       *)
RECURSIVE ListText(_)
ListText(vs) ==
  IF vs = << >> THEN << >>
  ELSE FlattenSeq(PrintValue(Head(vs)))
         \o (IF Tail(vs) = << >> THEN << >> ELSE <<", ">> \o ListText(Tail(vs)))

RECURSIVE IsList(_)
IsList(p) ==
  p.t = "sexp" /\ p.n = ConsTag /\ Len(p.els) = 2 /\ (p.els[2].t = "int" \/ IsList(p.els[2]))

(* The buffer always has a 0 behind what has been printed, which is what   *)
(* the texts before the next one are; so what a call returns is all of its *)
(* texts, however often the buffer had to grow in between, and for a list  *)
(* that ends in an integer its values with commas between them.            *)
(* (vprintStringBuf, printValue, Lstring, Lsprintf)                        *)
BufferHolds ==
  /\ buf # NoBuf =>
       LET texts == Texts(Call)
           before == FlattenSeq(SubSeq(texts, 1, Len(texts) - Len(todo)))
           text == TextOf(buf.contents)
       IN  /\ Len(buf.contents) = buf.len /\ buf.ptr < buf.len
           /\ buf.ptr = Len(before) /\ Len(text) < buf.len
           /\ IF todo = << >> THEN text = before
                              ELSE SubSeq(text, 1, buf.ptr) = before
                                   /\ IsPrefix(SubSeq(text, buf.ptr + 1, Len(text)), Head(todo))
  /\ \A i \in DOMAIN answers :
       LET call == answers[i].call IN
       /\ call.f \in {"Lstring", "Lstringcat", "Lsprintf"} => Result(i) = FlattenSeq(Texts(call))
       /\ call.f = "Lstring" /\ IsList(call.p) =>
            Result(i) = <<"{">> \o ListText(ListValues(call.p)) \o <<"}">>

Lines(is) == FlattenSeq([k \in 1 .. Len(is) |-> Append(Result(is[k]), EndOfLine)])

(* Lines are read whole and in order: what has been read, as lines, and    *)
(* what is left is the input; and a line of no characters is never passed, *)
(* it is read as 0 for ever, unless a number is read (which passes it).    *)
(* Reading a line fails only where an earlier question after a file set    *)
(* errno and was answered; and a file that is there is answered not to be  *)
(* only when asking has left as many files open as a process can have.     *)
(* (LreadLine, Lread, Lfexists)                                            *)
OutsideAnswers ==
  /\ Answered("Lread") = {} =>
       LET read == SelectSeq(SetToSortSeq(Answered("LreadLine"), <), LAMBDA i : Result(i) # << >>)
       IN  /\ Lines(read) \o input \in {typed, Append(typed, EndOfLine)}
           /\ \A i, j \in Answered("LreadLine") : i < j /\ Result(i) = << >> => Result(j) = << >>
  /\ Ended("LreadLine") => \E i \in Answered("Lfexists") : ~Result(i)
  /\ \A i \in Answered("Lfexists") :
       answers[i].call.there /\ ~Result(i) =>
         Cardinality({j \in Answered("Lfexists") : j < i /\ Result(j)}) = MaxFiles
  /\ Ended("Lfread") /\ Call.there =>
       Cardinality({j \in Answered("Lfexists") : Result(j)}) = MaxFiles

(* Every call returns or ends the process: the buffer grows until the text *)
(* fits.  (vprintStringBuf)                                                *)
CallsReturn == <>(script = << >> \/ status # "runs")
=============================================================================
