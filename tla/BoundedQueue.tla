---------------------------- MODULE BoundedQueue ----------------------------
(***************************************************************************)
(* What an OSMessageQueue promises: a bounded sequence of messages that    *)
(* senders put at the end, or jam in at the front, and that receivers take *)
(* from the front.  Each effect is one step, whatever the callers and the  *)
(* scheduler do around it.                                                 *)
(***************************************************************************)
EXTENDS Naturals, Sequences

CONSTANTS
  Message,    (* what is sent                                             *)
  NoMessage,  (* what a receiver has before it has been given anything    *)
  Receiver,   (* who receives                                             *)
  Capacity    (* how many messages the queue holds                        *)

VARIABLES
  items,      (* the messages in the queue, the next one first             *)
  inbox       (* the last message each receiver has been given             *)

Init ==
  /\ items = << >>
  /\ inbox = [r \in Receiver |-> NoMessage]

Put ==
  /\ Len(items) < Capacity
  /\ \E m \in Message : items' = Append(items, m)
  /\ UNCHANGED inbox

Jam ==
  /\ Len(items) < Capacity
  /\ \E m \in Message : items' = << m >> \o items
  /\ UNCHANGED inbox

\* A receiver may have no use for the message.
Get ==
  /\ items # << >>
  /\ items' = Tail(items)
  /\ \/ \E r \in Receiver : inbox' = [inbox EXCEPT ![r] = Head(items)]
     \/ UNCHANGED inbox

\* The queue is set up anew.
Reset == items' = << >> /\ UNCHANGED inbox

Next == Put \/ Jam \/ Get \/ Reset

Spec == Init /\ [][Next]_<< items, inbox >>
=============================================================================
