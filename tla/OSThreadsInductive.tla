-------------------------- MODULE OSThreadsInductive --------------------------
(***************************************************************************)
(* The inductive invariant of OSThreads, for guest code that keeps to what *)
(* the HLE supports: no thread returns from its entry function, and        *)
(* callbacks only wake and resume.                                         *)
(*                                                                         *)
(* Where a thread is depends on its state, and what state the executing    *)
(* thread is in depends on how far its call chain has got.  The first part *)
(* is QueueInv, the second ControlInv.  The third, MutexInv, only keeps    *)
(* lock counts from going below zero.                                      *)
(***************************************************************************)
EXTENDS OSThreads

\* What the theorems assume of guest code.
Disciplined ==
  /\ \A t \in Thread : "ThreadReturns" \notin GuestCalls[t]
  /\ CallbackCalls \subseteq {"OSWakeupThread", "OSResumeThread"}

-----------------------------------------------------------------------------
(* Queues, states and priorities.                                          *)

Members(q) == ToSet(links.queue[q])

\* A thread that is linked is in the state its queue stands for; a ready one is
\* linked; a waiter has a pointer to wait by; only the executing thread runs,
\* and only suspended threads sort behind the others.
Placed(t) ==
  /\ \A p \in Priority : t \in Members(p) =>
       state[t] = "ready" /\ suspend[t] = 0 /\ prio[t] = p
  /\ \A q \in WaitQueueId : t \in Members(q) => state[t] = "waiting"
  /\ OnRunQueue(t) => prio[t] \in Priority /\ t \in Members(prio[t])
  /\ state[t] = "waiting" => links.at[t] \in WaitQueueId
  /\ state[t] = "running" => t = exec /\ suspend[t] = 0
  /\ prio[t] \notin Priority => Dead(t) \/ suspend[t] > 0

QueueInv ==
  /\ PendingMaskExact
  /\ LinkedOnce
  /\ \A t \in Thread : Placed(t)

-----------------------------------------------------------------------------
(* Call chains.                                                            *)

\* The frames in front of which the scheduler refuses to switch, and those that
\* can come to stand above them, or above a scheduler call.
Barrier == {"IdleLoop", "Callback", "IdleCallback"}
Quiet == {"SleepTimerDue", "Reconcile", "OSResumeThread", "Propagate", "Reschedule",
          "SelectThread", "Select", "OSWakeupThread", "WakeupLinked", "UnlockAll",
          "MsgQueueTry"}

Has(s, ops) == \E i \in DOMAIN s : s[i].op \in ops

\* A fiber that does not execute is in the open: it left in Dispatch.
OthersOpen ==
  \A u \in Thread \ {exec} : ~ Has(stack[u], Barrier \cup {"Dispatch", "OSCreateThread"})
DeadEmpty == \A u \in Thread \ {exec} : Dead(u) => stack[u] = << >>

\* Callbacks run on the idle loop or at the bottom of a fiber, one at a time,
\* and nothing but quiet frames is above either.
Shaped(s) ==
  \A i, j \in DOMAIN s :
    i < j /\ s[j].op \in Barrier =>
      \/ s[i].op \in Quiet
      \/ s[i].op \in {"Callback", "IdleCallback"} /\ s[j].op = "IdleLoop"
BarrierShape == Shaped(stack[exec])

\* Dispatch is always next, with nothing barring it and somebody to dispatch; so
\* is the creation of a thread, in a block that is free.
FirstOnly ==
  stack[exec] # << >> => ~ Has(Tail(stack[exec]), {"Dispatch", "OSCreateThread"})
DispatchNext ==
  At({"Dispatch"}) => /\ ~ Has(stack[exec], Barrier)
                      /\ links.pending # {} /\ state[exec] # "running"
CreateNext == At({"OSCreateThread"}) => Dead(Arg)
NoReturns ==
  \A u \in Thread : ~ Has(stack[u], {"ThreadReturns", "WakeNoSwitch", "LeaveFiber"})

\* The scheduler's globals say where the executing fiber is.
DisableCounts == disable = IF Has(stack[exec], {"Callback"}) THEN 1 ELSE 0
IdleCallbackIdles == Has(stack[exec], {"IdleCallback"}) => Has(stack[exec], {"IdleLoop"})
IdleRunsNobody == Has(stack[exec], {"IdleLoop"}) => running = Null
IdleNotRunning == Has(stack[exec], {"IdleLoop"}) => state[exec] # "running"
OpenRunsItself ==
  ~ Has(stack[exec], {"IdleLoop", "Dispatch"}) => running = exec /\ current = exec

\* The executing thread has given up the processor only inside a scheduler call,
\* or just before one; in a callback from guest code it never has.
Leaves(f, request) ==
  \/ f.op \in {"SelectThread", "Select", "Dispatch", "IdleLoop", "ExitReschedule"}
  \/ f.op = "Reschedule" /\ request
Leaving(s, request) ==
  \E i \in DOMAIN s :
    /\ Leaves(s[i], request)
    /\ \A j \in DOMAIN s : j < i => s[j].op \in Quiet \cup {"Callback", "IdleCallback"}
NotRunningLeaves == state[exec] # "running" => Leaving(stack[exec], resched)
CallbackRuns ==
  Has(stack[exec], {"Callback"}) /\ ~ Has(stack[exec], {"IdleLoop"}) =>
    state[exec] = "running"

ControlInv ==
  /\ OthersOpen
  /\ DeadEmpty
  /\ BarrierShape
  /\ FirstOnly
  /\ DispatchNext
  /\ CreateNext
  /\ NoReturns
  /\ DisableCounts
  /\ IdleCallbackIdles
  /\ IdleRunsNobody
  /\ IdleNotRunning
  /\ OpenRunsItself
  /\ NotRunningLeaves
  /\ CallbackRuns

-----------------------------------------------------------------------------
(* Mutexes.                                                                *)

\* A mutex that is owned is locked at least once.
MutexInv == \A m \in Mutex : owner[m] # Null => count[m] > 0

IInv == TypeOK /\ QueueInv /\ ControlInv /\ MutexInv

-----------------------------------------------------------------------------
(* A second invariant, on top of IInv: who waits where, and for whom.      *)

\* A waiter is linked where its queue pointer says.  Only a join queue can have
\* been emptied under it, by the creation of a thread in the same block.
WaitersLinked ==
  \A t \in Thread :
    state[t] = "waiting" => t \in Members(links.at[t]) \/ links.at[t] \in Thread

\* Between the decision to wait for something and the wait nobody else executes:
\* the frames that stand for it are only ever the next ones of the executing
\* fiber, first those that lend the owner of a mutex a priority, then the sleep.
Deciding == {"OSJoinThread", "Promote", "OSSleepThread"}
DecidingNext ==
  /\ \A u \in Thread \ {exec} : ~ Has(stack[u], Deciding)
  /\ stack[exec] # << >> =>
       LET below == Tail(stack[exec])
       IN  IF At({"Promote"})
           THEN below # << >> /\ Head(below).op = "OSSleepThread" /\ ~ Has(Tail(below), Deciding)
           ELSE ~ Has(below, Deciding)

AboutToSleep(q) == Call("OSSleepThread", q) \in ToSet(stack[exec])
SleepsOnOwned == \A m \in Mutex : AboutToSleep(m) => blockedOn[exec] = m /\ owner[m] # Null

\* A queue is woken to the end before its caller can lose the processor, so
\* that a mutex without an owner has no waiters except while they are woken.
Waking(q) == At({"OSWakeupThread", "WakeupLinked"}) /\ Arg = q
LockWaiters ==
  \A m \in Mutex :
    /\ \A t \in Members(m) : blockedOn[t] = m
    /\ links.queue[m] # << >> => owner[m] # Null \/ Waking(m)

WaitInv == WaitQueuesSorted /\ WaitersLinked /\ DecidingNext /\ SleepsOnOwned /\ LockWaiters

-----------------------------------------------------------------------------
(* A third one, for guest code that never ends a thread that owns a mutex. *)
(* The HLE releases the mutexes of such a thread one by one, but on a      *)
(* fiber that can be dropped half way, see the run OwnerExit.              *)

ReleasesFirst ==
  /\ At({"OSExitThread"}) => held[exec] = << >>
  /\ At({"OSCancelThread"}) => held[Arg] = << >>

\* A thread that ends owns nothing, so that its last rites are performed at once.
RitesNext ==
  /\ \A u \in Thread \ {exec} : ~ Has(stack[u], {"UnlockAll"})
  /\ stack[exec] # << >> => ~ Has(Tail(stack[exec]), {"UnlockAll"})
  /\ At({"UnlockAll"}) => held[Arg] = << >>

AllWaitersLinked == \A t \in Thread : state[t] = "waiting" => t \in Members(links.at[t])
DeadHoldNothing == \A t \in Thread : Dead(t) => held[t] = << >>

\* A thread is joined while it has not been reaped, and slept for while it
\* lives; when it has ended its joiners are woken before anything else happens.
ListedExist == \A t \in listed : state[t] # "none"
JoinsListed == At({"OSJoinThread"}) => Arg \in listed
JoinsLiving == \A t \in Thread : AboutToSleep(t) => ~ Dead(t)
JoinersNext ==
  \A t \in Thread : Dead(t) /\ links.queue[t] # << >> =>
    \/ Waking(t)
    \/ /\ At({"UnlockAll"}) /\ Arg = t
       /\ Tail(stack[exec]) # << >>
       /\ Head(Tail(stack[exec])) = Call("OSWakeupThread", t)

\* An owner has the priority of its waiters, unless it is suspended or the walk
\* along the owners has just come to it; so it has that of the thread about to
\* wait.
Lends(u, t) == suspend[u] > 0 \/ prio[u] <= prio[t]
Inherited ==
  \A m \in Mutex : owner[m] # Null =>
    /\ \A t \in Members(m) :
         \/ Lends(owner[m], t)
         \/ At({"Propagate"}) /\ Arg = owner[m]
         \/ At({"Promote"}) /\ Arg = owner[m] /\ prio[exec] <= prio[t]
    /\ AboutToSleep(m) => \/ Lends(owner[m], exec)
                          \/ At({"Promote"}) /\ Arg = owner[m]

EndInv ==
  /\ RitesNext
  /\ AllWaitersLinked
  /\ OwnershipAgrees
  /\ DeadHoldNothing
  /\ ListedExist
  /\ JoinsListed
  /\ JoinsLiving
  /\ JoinersNext
  /\ Inherited

-----------------------------------------------------------------------------
(* A fourth one, for guest code that besides cancels no thread while it    *)
(* waits for a mutex: OSCancelThread does not take back what the thread    *)
(* has lent to the owner.                                                  *)

CancelsNoLockWaiter ==
  At({"OSCancelThread"}) => ~ (state[Arg] = "waiting" /\ links.at[Arg] \in Mutex)

\* The waiters of a mutex are woken at once when it is unlocked, so nobody takes
\* the mutex before all of them have left its queue.
Wakes(m) == {Call("OSWakeupThread", m), Call("WakeupLinked", m)}
WakesNext ==
  \A m \in Mutex :
    /\ \A u \in Thread \ {exec} : ToSet(stack[u]) \cap Wakes(m) = {}
    /\ stack[exec] # << >> => ToSet(Tail(stack[exec])) \cap Wakes(m) = {}
    /\ Waking(m) => owner[m] = Null

\* A thread with a mutex to wait for has yet to come back from the wait, and
\* waits for nothing else before.
RetriesLock ==
  \A u \in Thread : blockedOn[u] # Null /\ ~ Dead(u) => Has(stack[u], {"LockRetry"})
WaitsElsewhere ==
  \/ At({"OSJoinThread"})
  \/ \E q \in WaitQueueId \ Mutex : AboutToSleep(q)
WaitsForOne == WaitsElsewhere => ~ Has(stack[exec], {"LockRetry"})
BlockedThere ==
  \A u \in Thread : state[u] = "waiting" /\ blockedOn[u] # Null => links.at[u] = blockedOn[u]

\* Who is suspended in a wait lends nothing.
SuspendedLast ==
  \A t \in Thread : state[t] = "waiting" /\ suspend[t] > 0 => prio[t] = SuspendedWaitPriority

\* The priority of a thread is its own or that of somebody who waits for a mutex
\* it owns, or is about to, unless the walk along the owners has just come to it.
Lent(u, p) ==
  \E m \in Mutex :
    /\ owner[m] = u
    /\ \/ \E t \in Members(m) : prio[t] <= p
       \/ AboutToSleep(m) /\ prio[exec] <= p
PromotesLent == At({"Promote"}) /\ Arg # Null => Lent(Arg, prio[exec])
Justified(u) ==
  \/ BasePriority[u] <= prio[u]
  \/ Lent(u, prio[u])
  \/ At({"Propagate"}) /\ Arg = u
AllJustified == \A u \in Thread : ~ Dead(u) /\ suspend[u] = 0 => Justified(u)

LendInv ==
  /\ WakesNext
  /\ RetriesLock
  /\ WaitsForOne
  /\ BlockedThere
  /\ SuspendedLast
  /\ PromotesLent
  /\ AllJustified

-----------------------------------------------------------------------------
(* Preemption.                                                             *)

\* Somebody more urgent than the running thread is ready.
Outranked == state[exec] = "running" /\ \E p \in links.pending : p < prio[exec]

\* That happens only while the request to reschedule stands, or when the first
\* waiter about to be woken will raise it.
RaisesRequest ==
  /\ At({"OSWakeupThread"})
  /\ links.queue[Arg] # << >>
  /\ Wakeable(Head(links.queue[Arg]))
PreemptionKept == Outranked => resched \/ RaisesRequest

\* Without callbacks, the scheduler is called before guest code goes on.
NoCallbacks == \A u \in Thread : ~ Has(stack[u], {"Callback", "IdleCallback"})
PropagateNext ==
  /\ \A u \in Thread \ {exec} : ~ Has(stack[u], {"Propagate"})
  /\ stack[exec] # << >> => ~ Has(Tail(stack[exec]), {"Propagate"})
  /\ At({"Propagate"}) =>
       Tail(stack[exec]) # << >> /\ Head(Tail(stack[exec])).op = "Reschedule"
Selects(f, request) == f.op = "WakeupLinked" \/ Leaves(f, request)
SelectsSoon(s, request) ==
  \E i \in DOMAIN s : Selects(s[i], request) /\ \A j \in DOMAIN s : j < i => s[j].op \in Quiet
HighestKept == Outranked => RaisesRequest \/ SelectsSoon(stack[exec], resched)

HighestInv == CallbackCalls = {} => NoCallbacks /\ PropagateNext /\ HighestKept

-----------------------------------------------------------------------------
(* Tick sleeps, for guest code that suspends no thread in a tick sleep,    *)
(* which looks the same as the sleep, and as long as no fiber is dropped   *)
(* that has taken timers off the table and not delivered them yet, see the *)
(* runs StaleTimer and LostSleeper.                                        *)

SuspendsNoSleeper ==
  At({"OSSuspendThread"}) /\ Has(stack[Arg], {"ParkReturn"}) =>
    /\ Tail(stack[exec]) # << >>
    /\ Head(Tail(stack[exec])).op = "ParkReturn"

Deliveries == {"SleepTimerDue", "OSResumeThread"}
DeliversFirst ==
  /\ At({"OSCancelThread"}) /\ Arg # exec => ~ Has(stack[Arg], Deliveries)
  /\ At({"Dispatch"}) /\ Dead(exec) => ~ Has(stack[exec], Deliveries)

\* Nothing in which a thread can wait or end is in the same chain as a tick
\* sleep.
Parks == {"OSSleepTicks", "ParkReturn"}
Blocks == {"OSSleepThread", "OSJoinThread", "Promote", "OSLockMutex", "LockRetry",
           "OSExitThread", "OSCancelThread"}
ParksAlone == \A u \in Thread : Has(stack[u], Parks) => ~ Has(stack[u], Blocks)

\* A suspension is executed at once, and that of a tick sleep is its own.
SuspendNext ==
  /\ \A u \in Thread \ {exec} : ~ Has(stack[u], {"OSSuspendThread"})
  /\ stack[exec] # << >> => ~ Has(Tail(stack[exec]), {"OSSuspendThread"})
  /\ At({"OSSuspendThread"}) /\ Tail(stack[exec]) # << >> =>
       Arg = exec /\ exec \in outstanding

\* A thread in a tick sleep is ready and suspended once, or has been resumed.
ParkedOnce ==
  \A u \in Thread : Has(stack[u], {"ParkReturn"}) =>
    state[u] \in {"ready", "running"} /\ suspend[u] <= 1

ParkInv == ParksAlone /\ SuspendNext /\ ParkedOnce /\ ParkHasWakeSource
=============================================================================
