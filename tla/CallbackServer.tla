--------------------------- MODULE CallbackServer ---------------------------
(***************************************************************************)
(* What the asynchronous NAND and IOS calls of the guest are promised:     *)
(* their completion callbacks are delivered one at a time, in the order in *)
(* which the calls completed, each once.                                   *)
(***************************************************************************)
EXTENDS Sequences

CONSTANTS
  Callback,     (* completion callbacks of calls that are outstanding      *)
  Null          (* no callback                                             *)

VARIABLES
  queue,        (* the callbacks to deliver, the oldest first              *)
  serving       (* the callback that executes                              *)

vars == << queue, serving >>

Init == queue = << >> /\ serving = Null

Complete(c) ==
  /\ queue' = Append(queue, c)
  /\ UNCHANGED serving

Begin ==
  /\ serving = Null
  /\ queue # << >>
  /\ serving' = Head(queue)
  /\ queue' = Tail(queue)

End ==
  /\ serving # Null
  /\ serving' = Null
  /\ UNCHANGED queue

Next == (\E c \in Callback : Complete(c)) \/ Begin \/ End

Spec == Init /\ [][Next]_vars
=============================================================================
