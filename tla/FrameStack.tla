----------------------------- MODULE FrameStack -----------------------------
(***************************************************************************)
(* What a Lama program expects of the operand stack: a stack of frames,    *)
(* each with its own arguments, locals and operands.  A call takes its     *)
(* arguments (and the closure below them) from the operands of the caller  *)
(* and gives one value back to exactly this caller.                        *)
(*                                                                         *)
(* No layout and no words: this is the abstract specification that the     *)
(* word-level machine of StackVM.tla implements.                           *)
(***************************************************************************)
EXTENDS Naturals, Sequences, SequencesExt

CONSTANTS Values,   \* what an operand can be
          Closures, \* the operands that can be called
          Blank,    \* what every local but the first holds at first
          Unset,    \* stands for a first local that was not assigned
          Sites,    \* return addresses
          Shapes    \* functions: records [nargs, nlocals]

VARIABLES frames,   \* the frames, the outermost first
          finished  \* the outermost frame has ended

fsVars == <<frames, finished>>

Frame(f, site, args) ==
  [ site |-> site, args |-> args,
    locals |-> [k \in 1 .. f.nlocals |-> IF k = 1 THEN Unset ELSE Blank],
    ops |-> << >> ]

This == Last(frames)

WithThis(frame) == Append(Front(frames), frame)

FSInit ==
  /\ \E f \in Shapes : frames = <<Frame(f, Unset, << >>)>>
  /\ finished = FALSE

PushValue(v) ==
  /\ frames' = WithThis([This EXCEPT !.ops = Append(@, v)])
  /\ UNCHANGED finished

(* of values that come from nowhere but the frame itself                   *)
Literal == \E v \in Values : PushValue(v)
LoadArg == \E k \in DOMAIN This.args : PushValue(This.args[k])
LoadLocal == \E k \in DOMAIN This.locals :
               This.locals[k] # Unset /\ PushValue(This.locals[k])

(* What an unassigned first local gives is whatever is there.              *)
LoadUnset ==
  /\ \E k \in DOMAIN This.locals : This.locals[k] = Unset
  /\ Last(frames').ops # << >>
  /\ PushValue(Last(Last(frames').ops))

Drop ==
  /\ This.ops # << >>
  /\ frames' = WithThis([This EXCEPT !.ops = Front(@)])
  /\ UNCHANGED finished

StoreLocal ==
  /\ This.ops # << >>
  /\ \E k \in DOMAIN This.locals :
       frames' = WithThis([This EXCEPT !.locals[k] = Last(This.ops)])
  /\ UNCHANGED finished

(* taken: how many operands below the arguments the call takes as well     *)
CallWith(f, site, taken) ==
  LET ops == This.ops
      rest == Len(ops) - f.nargs
  IN  /\ rest >= taken
      /\ taken = 1 => ops[rest] \in Closures
      /\ frames' = Append(WithThis([This EXCEPT !.ops = SubSeq(@, 1, rest - taken)]),
                          Frame(f, site, SubSeq(ops, rest + 1, Len(ops))))
      /\ UNCHANGED finished

Call == \E f \in Shapes, site \in Sites : CallWith(f, site, 0)
CallClosure == \E f \in Shapes, site \in Sites : CallWith(f, site, 1)

Return ==
  /\ Len(frames) > 1
  /\ This.ops # << >>
  /\ LET caller == frames[Len(frames) - 1]
     IN  frames' = Append(SubSeq(frames, 1, Len(frames) - 2),
                          [caller EXCEPT !.ops = Append(@, Last(This.ops))])
  /\ UNCHANGED finished

Finish ==
  /\ Len(frames) = 1
  /\ finished' = TRUE
  /\ UNCHANGED frames

FSNext ==
  /\ ~finished
  /\ \/ Literal \/ LoadArg \/ LoadLocal \/ LoadUnset \/ Drop \/ StoreLocal
     \/ Call \/ CallClosure \/ Return \/ Finish

FSSpec == FSInit /\ [][FSNext]_fsVars
=============================================================================
