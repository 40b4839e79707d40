------------------------------ MODULE OSMessage ------------------------------
(***************************************************************************)
(* os_message.cpp: an OSMessageQueue, that is a ring buffer with a queue of *)
(* blocked senders and one of blocked receivers, used by the guest threads *)
(* and callbacks of OSThreads.                                             *)
(*                                                                         *)
(* The three calls share the loop MsgQueueOp.  A round of it is one step;  *)
(* the wakeup and the sleep in it are those of the scheduler, so a call is *)
(* left between any two rounds while other threads use the same queue.     *)
(***************************************************************************)
EXTENDS OSThreads

CONSTANTS
  Message,           (* message words                                      *)
  NoMessage,         (* the contents of memory nothing has been written to *)
  Capacity,          (* the size of the message array                      *)
  SendQueue,         (* the wait queue of blocked senders                  *)
  RecvQueue,         (* the wait queue of blocked receivers                *)
  ThreadRequests,    (* the message calls that each thread makes           *)
  CallbackRequests   (* those that callbacks make                          *)

\* A call as its caller makes it: whether it may block, what it sends, and
\* whether a receiver wants the message.
Request ==
  [op : {"OSSendMessage", "OSJamMessage"}, msg : Message, block : BOOLEAN] \cup
  [op : {"OSReceiveMessage"}, keep : BOOLEAN, block : BOOLEAN]

ASSUME MessageConstants ==
  /\ MessageCall = Request
  /\ Capacity \in Nat \ {0}
  /\ SendQueue \in WaitQueue
  /\ RecvQueue \in WaitQueue
  /\ SendQueue # RecvQueue
  /\ ThreadRequests \in [Thread -> SUBSET Request]
  /\ CallbackRequests \subseteq Request

VARIABLES
  array,   (* the message array                                            *)
  first,   (* the index of the next message                                *)
  used,    (* how many messages there are                                  *)
  inbox    (* where each thread receives: the word its outMsgPtr points at *)

queueVars == << array, first, used >>
messageVars == << queueVars, inbox >>
osVars == << threadVars, lifeVars, links, resched, schedVars, mutexVars, timerVars >>

-----------------------------------------------------------------------------
(* The ring.                                                               *)

Index == 0 .. Capacity - 1

MsgQueueIsFull  == used >= Capacity
MsgQueueIsEmpty == used = 0

\* Mutant: the ring is taken to start at 0.
EnqueueFromZero(m) ==
  /\ array' = [array EXCEPT ![used % Capacity] = m]
  /\ used' = used + 1
  /\ UNCHANGED << first, inbox >>

MsgQueueEnqueue(m) ==
  /\ array' = [array EXCEPT ![(first + used) % Capacity] = m]
  /\ used' = used + 1
  /\ UNCHANGED << first, inbox >>

\* Mutant: the index does not wrap.
JamBelowZero(m) ==
  /\ array' = [array EXCEPT ![first] = m]
  /\ first' = first - 1
  /\ used' = used + 1
  /\ UNCHANGED inbox

MsgQueueJam(m) ==
  LET before == IF first = 0 THEN Capacity - 1 ELSE first - 1
  IN  /\ array' = [array EXCEPT ![before] = m]
      /\ first' = before
      /\ used' = used + 1
      /\ UNCHANGED inbox

MsgQueueDequeue(keep) ==
  /\ inbox' = IF keep THEN [inbox EXCEPT ![exec] = array[first]] ELSE inbox
  /\ first' = (first + 1) % Capacity
  /\ used' = used - 1
  /\ UNCHANGED array

-----------------------------------------------------------------------------
(* The calls.                                                              *)

MsgReady(r) == IF r.op = "OSReceiveMessage" THEN ~ MsgQueueIsEmpty ELSE ~ MsgQueueIsFull

MsgApply(r) ==
  \/ r.op = "OSSendMessage" /\ MsgQueueEnqueue(r.msg)
  \/ r.op = "OSJamMessage" /\ MsgQueueJam(r.msg)
  \/ r.op = "OSReceiveMessage" /\ MsgQueueDequeue(r.keep)

\* Mutant: an effect wakes the side it was made from.
WakeOwnSide(r) == IF r.op = "OSReceiveMessage" THEN RecvQueue ELSE SendQueue

\* The other side of the queue, woken by every effect, and the own side, on
\* which a call that cannot have its effect waits.
WakeQueue(r)  == IF r.op = "OSReceiveMessage" THEN SendQueue ELSE RecvQueue
BlockQueue(r) == IF r.op = "OSReceiveMessage" THEN RecvQueue ELSE SendQueue

\* Mutant: the flag is not looked at.
AlwaysBlocks(r) == TRUE

\* OS_MESSAGE_BLOCK.
MayBlock(r) == r.block

\* A call of MsgQueueOp, by whether it may give up the processor.
Round(r) == Call(IF r.block THEN "MsgQueueWait" ELSE "MsgQueueTry", r)

\* A round of MsgQueueOp: have the effect and wake the other side, give up, or
\* sleep and try again.
MsgQueueOp ==
  /\ At({"MsgQueueWait", "MsgQueueTry"})
  /\ \E r \in Request :
       /\ Arg = r
       /\ IF MsgReady(r)
          THEN /\ MsgApply(r)
               /\ Continue(<< Call("OSWakeupThread", WakeQueue(r)) >>)
          ELSE /\ Continue(IF MayBlock(r)
                           THEN << Call("OSSleepThread", BlockQueue(r)), Round(r) >>
                           ELSE << >>)
               /\ UNCHANGED messageVars
  /\ UNCHANGED << osVars, exec >>

\* Guest code makes a message call.
GuestMessageCall ==
  /\ InGuestCode \/ InCallback
  /\ \E r \in IF InGuestCode THEN ThreadRequests[exec] ELSE CallbackRequests :
       stack' = [stack EXCEPT ![exec] = << Round(r) >> \o @]
  /\ UNCHANGED << osVars, exec, messageVars >>

\* OSInitMessageQueue, which guest code calls on a queue nobody waits for.
OSInitMessageQueue ==
  /\ InGuestCode
  /\ links.queue[SendQueue] = << >> /\ links.queue[RecvQueue] = << >>
  /\ first' = 0
  /\ used' = 0
  /\ UNCHANGED << osVars, exec, stack, array, inbox >>

-----------------------------------------------------------------------------
(* The specification.                                                      *)

MessageInit ==
  /\ Init
  /\ array = [i \in Index |-> NoMessage]
  /\ first = 0
  /\ used = 0
  /\ inbox = [t \in Thread |-> NoMessage]

OSStep == Next /\ UNCHANGED messageVars

MessageNext == OSStep \/ MsgQueueOp \/ GuestMessageCall \/ OSInitMessageQueue

allVars == << vars, messageVars >>

MessageSpec == MessageInit /\ [][MessageNext]_allVars

\* Of HLE code and the idle loop what OSThreads assumes; nothing of guest code.
FairMessageSpec ==
  /\ MessageSpec
  /\ WF_allVars((HleStep /\ UNCHANGED messageVars) \/ MsgQueueOp)
  /\ SF_allVars((EndCallback \/ IdleCallbackReturns) /\ UNCHANGED messageVars)

-----------------------------------------------------------------------------
(* What a message queue promises.                                          *)

\* Types, of the guest threads and of the queue.
MessageTypeOK ==
  /\ array \in [Index -> Message \cup {NoMessage}]
  /\ first \in Index
  /\ used \in 0 .. Capacity
  /\ inbox \in [Thread -> Message \cup {NoMessage}]

\* The messages in the order they will be received in.
Items == [i \in 1 .. used |-> array[(first + i - 1) % Capacity]]

Queue == INSTANCE BoundedQueue WITH items <- Items, Receiver <- Thread

\* The ring, with its indices, its loops and everything that happens between
\* two rounds of them, is a bounded FIFO queue: no message is lost, duplicated,
\* overtaken other than by a jam, or read from a word nobody has written.
ImplementsQueue == Queue!Spec

\* No wakeup is lost: a receiver that is blocked while there is a message, or a
\* sender that is blocked while there is space, is about to be woken, by a call
\* that may itself have been left by its thread.
BlockedOnlyByQueue ==
  /\ links.queue[RecvQueue] # << >> /\ ~ MsgQueueIsEmpty =>
       \E op \in {"OSWakeupThread", "WakeupLinked"} : Pending(Call(op, RecvQueue))
  /\ links.queue[SendQueue] # << >> /\ ~ MsgQueueIsFull =>
       \E op \in {"OSWakeupThread", "WakeupLinked"} : Pending(Call(op, SendQueue))
=============================================================================
