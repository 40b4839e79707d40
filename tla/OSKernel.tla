------------------------------ MODULE OSKernel ------------------------------
(***************************************************************************)
(* The state that the HLE of the guest operating system shares between its *)
(* source files, and how its C++ call chains are represented.              *)
(*                                                                         *)
(* Guest threads are cooperative: each has a host fiber, exactly one fiber *)
(* executes, and control moves to another one only inside SwitchToThread,  *)
(* which only SelectThread calls.  An HLE function that reaches            *)
(* SelectThread can therefore be left half done, for as long as the        *)
(* scheduler pleases, and be finished by the same fiber later.  The model  *)
(* keeps what is left to do of every fiber as a stack of frames, the next  *)
(* one to execute first; a step of the system is a step of the top frame   *)
(* of the executing fiber.  A fiber with an empty stack is in guest code.  *)
(***************************************************************************)
EXTENDS ThreadQueues, FiniteSets

CONSTANTS
  Thread,           (* OSThread blocks                                     *)
  Main,             (* the default thread, whose fiber the host starts on  *)
  WaitQueue,        (* OSThreadQueues of guest code                        *)
  Mutex,            (* OSMutexes; a mutex starts with its wait queue       *)
  IdleContext,      (* the idle context, never a thread                    *)
  BasePriority,     (* the priority guest code creates each thread with    *)
  Detached,         (* the threads guest code creates with attribute 1     *)
  GuestCalls,       (* the OS functions that the code of a thread calls    *)
  CallbackCalls,    (* those that a callback may call                      *)
  MessageCall,      (* what guest code calls message queues with; OSMessage *)
  MaxSuspend,       (* bound: guest code nests OSSuspendThread this deep   *)
  MaxLock,          (* bound: guest code nests OSLockMutex this deep       *)
  MaxFrames         (* bound: no timer is due on a deeper stack than this  *)

\* Every queue a thread can wait on.  The queue of a mutex is at the address of
\* the mutex; the join queue of a thread is named by the thread.
WaitQueueId == WaitQueue \cup Mutex \cup Thread

QueueId == Priority \cup WaitQueueId

\* Distinct objects have distinct addresses, and no address is 0.
ASSUME AddressesDistinct ==
  /\ WaitQueue \cap Mutex = {}
  /\ Thread \cap (WaitQueue \cup Mutex) = {}
  /\ Priority \cap WaitQueueId = {}
  /\ Null \notin QueueId
  /\ IdleContext \notin Thread \cup {Null}

\* The functions guest code calls, by what they are called with.
ThreadCall == {"OSCreateThread", "OSSuspendThread", "OSResumeThread", "OSCancelThread",
               "OSJoinThread", "OSDetachThread"}
QueueCall  == {"OSSleepThread", "OSWakeupThread"}
MutexCall  == {"OSLockMutex", "OSUnlockMutex"}
PlainCall  == {"OSExitThread", "OSYieldThread", "OSSleepTicks", "ThreadReturns"}
OSFunction == ThreadCall \cup QueueCall \cup MutexCall \cup PlainCall

ASSUME ConstantTypes ==
  /\ LowestPriority \in Nat
  /\ IsFiniteSet(Thread)
  /\ Main \in Thread
  /\ BasePriority \in [Thread -> Priority]
  /\ Detached \subseteq Thread
  /\ GuestCalls \in [Thread -> SUBSET OSFunction]
  /\ CallbackCalls \subseteq OSFunction
  /\ MaxSuspend \in Nat
  /\ MaxLock \in Nat
  /\ MaxFrames \in Nat

VARIABLES
  state,        (* OSThread.state; "none" is 0                             *)
  suspend,      (* OSThread.suspend                                        *)
  prio,         (* OSThread.priority, the effective one                    *)
  detached,     (* attribute bit 0                                         *)
  blockedOn,    (* OSThread.mutex: the mutex the thread waits for          *)
  held,         (* the list of mutexes the thread owns                     *)
  listed,       (* the threads in the active thread list                   *)
  links,        (* every thread queue, see ThreadQueues                    *)
  resched,      (* kSchedulerReschedCounterAddr # 0                        *)
  disable,      (* the OSDisableScheduler nesting count                    *)
  running,      (* kOSRunningContextAddr                                   *)
  current,      (* kOSCurrentContextAddr                                   *)
  owner,        (* OSMutex.thread                                          *)
  count,        (* OSMutex.count                                           *)
  timers,       (* gSleepTimers: the threads that have one                 *)
  outstanding,  (* gOutstandingParks                                       *)
  firstSeen,    (* strandFirstSeen: parks the reconciler has seen once     *)
  exec,         (* the thread whose fiber executes                         *)
  stack         (* what is left to do of every fiber                       *)

threadVars == << state, suspend, prio >>
lifeVars   == << detached, listed >>
schedVars  == << disable, running, current >>
mutexVars  == << blockedOn, held, owner, count >>
timerVars  == << timers, outstanding, firstSeen >>
fiberVars  == << exec, stack >>
vars == << threadVars, lifeVars, links, resched, schedVars, mutexVars, timerVars,
           fiberVars >>

-----------------------------------------------------------------------------
(* Frames.                                                                 *)

\* The places inside them, and inside the scheduler, where a fiber can be
\* stopped or a loop comes round again.  A frame carries the one local variable
\* that is still needed: a thread, the owner a chain walk has reached, a queue.
Frame ==
  [op  : ThreadCall \cup {"SleepTimerDue", "UnlockAll", "JoinReturn", "WakeNoSwitch"},
   arg : Thread] \cup
  [op  : {"Promote", "Propagate"},
   arg : Thread \cup {Null}] \cup
  [op  : QueueCall \cup {"WakeupLinked", "SleepReturn"},
   arg : WaitQueueId] \cup
  [op  : MutexCall \cup {"LockRetry"},
   arg : Mutex] \cup
  [op  : PlainCall \cup {"SelectThread", "Select", "SelectForced", "IdleLoop", "Dispatch",
                         "Reschedule", "Reconcile", "ParkReturn", "ExitReschedule",
                         "Callback", "IdleCallback", "LeaveFiber"},
   arg : {Null}] \cup
  [op  : {"MsgQueueWait"},
   arg : {r \in MessageCall : r.block}] \cup
  [op  : {"MsgQueueTry"},
   arg : {r \in MessageCall : ~ r.block}]

Call(op, arg) == [op |-> op, arg |-> arg]
Each(op, args) == [i \in 1 .. Len(args) |-> Call(op, args[i])]

At(ops) == stack[exec] # << >> /\ Head(stack[exec]).op \in ops
Arg == Head(stack[exec]).arg

\* Replace the frame being executed by what it leads to.
Continue(frames) == stack' = [stack EXCEPT ![exec] = frames \o Tail(@)]
Return == Continue(<< >>)

\* The bound on the recursion of the sleep timers into the scheduler.
Deep == Len(stack[exec]) > MaxFrames

\* Guest code executes: that of a thread, or a callback the HLE invokes.
InGuestCode == stack[exec] = << >>
InCallback  == At({"Callback", "IdleCallback"})

-----------------------------------------------------------------------------
(* Helpers on threads and mutexes.                                         *)

\* ThreadStateIsTerminated; the fiber manager's terminated flag agrees.
Dead(t) == state[t] \in {"none", "moribund"}

\* Mutant: a suspended thread counts.
Ready(t) == state[t] = "ready"

\* The shape of a thread that is linked on a run queue.
OnRunQueue(t) == state[t] = "ready" /\ suspend[t] = 0

\* Mutant: a suspended waiter is linked.
Alive(t) == ~ Dead(t)

\* A waiter that a wakeup links on a run queue.
Wakeable(t) == ~ Dead(t) /\ suspend[t] = 0

\* ComputeThreadEffectivePriority: the priority t is created with, or that of
\* the first waiter of one of the mutexes it owns if that is higher.
InheritedPriority(t, mutexes) ==
  LET contended == {m \in ToSet(mutexes) : links.queue[m] # << >>}
      lent == {prio[Head(links.queue[m])] : m \in contended}
      candidates == {BasePriority[t]} \cup lent
  IN  CHOOSE p \in candidates : \A q \in candidates : p <= q

EffectivePriority(t) == InheritedPriority(t, held[t])

OwnerOf(m) == IF m = Null THEN Null ELSE owner[m]

\* Every way in which some of the members of S can follow one another.
Orderings(S) ==
  {s \in UNION {[1 .. n -> S] : n \in 0 .. Cardinality(S)} : IsInjective(s)}
=============================================================================
