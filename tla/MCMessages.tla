----------------------------- MODULE MCMessages -----------------------------
(***************************************************************************)
(* An instance of OSMessage for TLC: a sender, a receiver, a thread that   *)
(* jams and receives, and callbacks that send, as retrace callbacks do.    *)
(***************************************************************************)
EXTENDS OSMessage

CONSTANTS a, b, x, y, sendq, recvq

Three == {Main, a, b}

\* Priorities: 0 is the most urgent.
ReceiverFirst == (Main :> 1) @@ (a :> 0) @@ (b :> 1)

\* Besides messages: the default thread starts and cancels the others.
OtherCalls ==
  [t \in Three |->
     IF t = Main THEN {"OSCreateThread", "OSResumeThread", "OSCancelThread"}
     ELSE {"OSYieldThread"}]

Send(m, block) == [op |-> "OSSendMessage", msg |-> m, block |-> block]
Jam(m, block) == [op |-> "OSJamMessage", msg |-> m, block |-> block]
Receive(keep, block) == [op |-> "OSReceiveMessage", keep |-> keep, block |-> block]

\* What each thread asks of the queue.
Requests ==
  (Main :> {Send(x, TRUE)}) @@
  (a :> {Receive(TRUE, TRUE)}) @@
  (b :> {Jam(y, TRUE), Receive(FALSE, TRUE)})

\* A callback must not block.
FromCallbacks == {Send(y, FALSE)}
=============================================================================
