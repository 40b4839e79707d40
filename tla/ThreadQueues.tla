---------------------------- MODULE ThreadQueues ----------------------------
(***************************************************************************)
(* The OSThreadQueue operations that the scheduler, the sleep code and the *)
(* fiber manager share.                                                    *)
(*                                                                         *)
(* In guest memory a queue is a head/tail pair and the threads carry the   *)
(* links, a pointer to the queue they are linked into (offset 0x2DC) and,  *)
(* for a run queue, a bit of the scheduler's pending mask says that it is  *)
(* not empty.  Here the whole of it is one record L:                       *)
(*                                                                         *)
(*   L.queue    for every queue the sequence of threads linked in it       *)
(*   L.at       for every thread its queue pointer, Null for 0             *)
(*   L.pending  the priorities whose pending bit is set                    *)
(*                                                                         *)
(* The run queue of priority p is the queue p itself; every other queue is *)
(* an address outside Priority.  The operators do not ask that L is well   *)
(* formed: that the code only applies them to linked threads is a property *)
(* of the code, stated in OSThreads.                                       *)
(*                                                                         *)
(* Here and in the modules that build on this one, an operator that says   *)
(* "Mutant" in its comment stands for the operator below it with a bug the *)
(* code could have; no definition uses it.                                 *)
(***************************************************************************)
EXTENDS Naturals, Sequences, SequencesExt

CONSTANTS
  LowestPriority,   (* 31 on the console: run queues are 0..LowestPriority *)
  Null              (* the null pointer                                    *)

Priority == 0 .. LowestPriority

\* kSuspendedWaitPriority: a suspended waiter sorts behind every other one.
SuspendedWaitPriority == LowestPriority + 1

\* Mutant: the bit stays set.
NeverUpdatePending(L, q) == L

\* Drop the pending bit of q when q is a run queue that has become empty.
UpdatePending(L, q) ==
  IF q \in Priority /\ L.queue[q] = << >>
  THEN [queue |-> L.queue, at |-> L.at, pending |-> L.pending \ {q}]
  ELSE L

\* Mutant: the neighbours keep their links to t.
ForgetQueue(L, t) == [L EXCEPT !.at[t] = Null]

\* RemoveThreadFromQueue: unlink t from the queue its pointer names.
Unlink(L, t) ==
  IF L.at[t] = Null
  THEN L
  ELSE UpdatePending([queue   |-> [L.queue EXCEPT ![L.at[t]] = RemoveFirst(@, t)],
                      at      |-> [L.at EXCEPT ![t] = Null],
                      pending |-> L.pending],
                     L.at[t])

\* PopThreadQueueHead: the popped thread keeps its queue pointer and, for a run
\* queue, the pending bit is the caller's business.
PopHead(L, q) == [queue   |-> [L.queue EXCEPT ![q] = Tail(@)],
                  at      |-> L.at,
                  pending |-> L.pending]

\* The pointer of a popped thread is cleared.
ClearPointer(L, t) == [queue   |-> L.queue,
                       at      |-> [L.at EXCEPT ![t] = Null],
                       pending |-> L.pending]

\* Mutant: first come, first served.
AtTheEnd(s, p, prio) == Len(s) + 1

\* Where InsertThreadIntoQueueByPriority links a thread of priority p: in front
\* of the first thread whose priority number is greater.
InsertPosition(s, p, prio) ==
  LET behind == {i \in DOMAIN s : prio[s[i]] > p}
  IN  IF behind = {} THEN Len(s) + 1
                     ELSE CHOOSE i \in behind : \A j \in behind : i <= j

InsertByPriority(L, q, t, p, prio) ==
  [queue   |-> [L.queue EXCEPT ![q] = InsertAt(@, InsertPosition(@, p, prio), t)],
   at      |-> [L.at EXCEPT ![t] = q],
   pending |-> IF q \in Priority THEN L.pending \cup {q} ELSE L.pending]

\* Mutant: the bit is not set.
LinkOnly(L, t, p) ==
  [queue   |-> [L.queue EXCEPT ![p] = Append(@, t)],
   at      |-> [L.at EXCEPT ![t] = p],
   pending |-> L.pending]

\* LinkThreadOnRunQueue and the pending half of MarkRunQueuePending.
LinkOnRunQueue(L, t, p) ==
  [queue   |-> [L.queue EXCEPT ![p] = Append(@, t)],
   at      |-> [L.at EXCEPT ![t] = p],
   pending |-> L.pending \cup {p}]
=============================================================================
