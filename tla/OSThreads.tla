------------------------------ MODULE OSThreads ------------------------------
(***************************************************************************)
(* The guest threads: guest code, the scheduler, sleeping, mutexes and the *)
(* thread lifecycle put together, and what must be true of them.           *)
(***************************************************************************)
EXTENDS OSScheduler, OSMutex, OSThreadLife, GuestFibers

-----------------------------------------------------------------------------
(* Guest code.                                                             *)

\* Calls that guest code makes on objects it may use: it creates a thread in a
\* block that is free, names threads that exist, and never ends or recreates
\* the default thread.  The two Max bounds keep the counters finite.
Legal(c) ==
  /\ c.op = "OSCreateThread" => c.arg # Main /\ c.arg \notin listed /\ Dead(c.arg)
  /\ c.op \in ThreadCall \ {"OSCreateThread"} => c.arg \in listed
  /\ c.op = "OSCancelThread" => c.arg # Main
  /\ c.op = "OSJoinThread" => c.arg # exec
  /\ c.op = "OSSuspendThread" => suspend[c.arg] < MaxSuspend
  /\ c.op \in {"OSExitThread", "ThreadReturns"} => exec # Main
  /\ c.op = "OSLockMutex" /\ owner[c.arg] = exec => count[c.arg] < MaxLock
  /\ c.op \in QueueCall => c.arg \in WaitQueue

GuestCall ==
  /\ InGuestCode \/ InCallback
  /\ \E c \in Frame :
       /\ c.op \in IF InGuestCode THEN GuestCalls[exec] ELSE CallbackCalls
       /\ Legal(c)
       /\ stack' = [stack EXCEPT ![exec] = << c >> \o @]
  /\ UNCHANGED << threadVars, lifeVars, links, resched, schedVars, mutexVars, timerVars,
                  exec >>

-----------------------------------------------------------------------------
(* The specification.                                                      *)

\* __OSThreadInit has run: the default thread executes, alone.
Init ==
  /\ state = [t \in Thread |-> IF t = Main THEN "running" ELSE "none"]
  /\ suspend = [t \in Thread |-> 0]
  /\ prio = BasePriority
  /\ detached = [t \in Thread |-> t = Main /\ Main \in Detached]
  /\ blockedOn = [t \in Thread |-> Null]
  /\ held = [t \in Thread |-> << >>]
  /\ listed = {Main}
  /\ links = [queue   |-> [q \in QueueId |-> << >>],
              at      |-> [t \in Thread |-> Null],
              pending |-> {}]
  /\ resched = FALSE
  /\ disable = 0
  /\ running = Main
  /\ current = Main
  /\ owner = [m \in Mutex |-> Null]
  /\ count = [m \in Mutex |-> 0]
  /\ timers = {}
  /\ outstanding = {}
  /\ firstSeen = {}
  /\ exec = Main
  /\ stack = [t \in Thread |-> << >>]

SleepStep == OSSleepThread \/ SleepReturn \/ OSSleepTicks \/ ParkReturn \/ SleepTimerDue
             \/ Reconcile
SchedulerStep == SelectThread \/ SelectReturns \/ SelectLeaves \/ Dispatch \/ Reschedule
                 \/ IdleTimers \/ LeaveIdleLoop \/ OSWakeupThread \/ WakeupDone
MutexStep == Promote \/ Propagate \/ OSLockMutex \/ LockRetry \/ OSUnlockMutex \/ UnlockAll
LifeStep == OSCreateThread \/ OSSuspendThread \/ OSResumeThread \/ OSExitThread
            \/ ExitReschedule \/ OSCancelThread \/ OSJoinThread \/ JoinReturn
            \/ OSDetachThread \/ ThreadReturns \/ WakeNoSwitch \/ LeaveFiber
CallbackStep == IdleCallback \/ IdleCallbackReturns \/ BeginCallback \/ EndCallback

HleStep == SleepStep \/ SchedulerStep \/ MutexStep \/ LifeStep

Next == HleStep \/ CallbackStep \/ GuestCall

Spec == Init /\ [][Next]_vars

\* The host thread executes HLE code without stopping, callbacks return, and a
\* fiber that stays in the idle loop sees every armed timer come due.  Nothing
\* is assumed of guest code.
FairSpec ==
  /\ Spec
  /\ WF_vars(HleStep)
  /\ SF_vars(EndCallback \/ IdleCallbackReturns)
  /\ SF_vars(IdleTimers /\ timers' = {})

-----------------------------------------------------------------------------
(* The queues and the scheduler.                                           *)

TypeOK ==
  /\ state \in [Thread -> {"none", "ready", "running", "waiting", "moribund"}]
  /\ suspend \in [Thread -> Nat]
  /\ prio \in [Thread -> Priority \cup {SuspendedWaitPriority}]
  /\ detached \in [Thread -> BOOLEAN]
  /\ blockedOn \in [Thread -> Mutex \cup {Null}]
  /\ held \in [Thread -> Seq(Mutex)]
  /\ listed \subseteq Thread
  /\ links \in [queue   : [QueueId -> Seq(Thread)],
                at      : [Thread -> QueueId \cup {Null}],
                pending : SUBSET Priority]
  /\ resched \in BOOLEAN
  /\ disable \in Nat
  /\ running \in Thread \cup {Null}
  /\ current \in Thread \cup {Null, IdleContext}
  /\ owner \in [Mutex -> Thread \cup {Null}]
  /\ count \in [Mutex -> Nat]
  /\ timers \subseteq Thread
  /\ outstanding \subseteq Thread
  /\ firstSeen \subseteq Thread
  /\ exec \in Thread
  /\ stack \in [Thread -> Seq(Frame)]

\* A pending bit is set exactly when its run queue is not empty: SelectThread
\* chooses by the bits, and the idle loop ends when one is set.
PendingMaskExact == links.pending = {p \in Priority : links.queue[p] # << >>}

\* A thread is linked at most once, in the queue its queue pointer names.
LinkedOnce ==
  \A q \in QueueId :
    /\ IsInjective(links.queue[q])
    /\ \A t \in ToSet(links.queue[q]) : links.at[t] = q

\* A queue pointer is only cleared while the thread is linked in the queue it
\* names, although a wakeup leaves the pointer of a suspended waiter behind.
UnlinksOnlyLinked ==
  [][\A t \in Thread :
       links.at[t] # Null /\ links'.at[t] = Null =>
         t \in ToSet(links.queue[links.at[t]])]_vars

InRunQueue(t) == \E p \in Priority : t \in ToSet(links.queue[p])
InWaitQueue(t) == \E q \in WaitQueueId : t \in ToSet(links.queue[q])

\* The state of a thread says where it is: ready and not suspended, on the run
\* queue of its priority; waiting, on a wait queue; running, the one thread
\* that executes; suspended or dead, nowhere.
StateSaysWhere ==
  \A t \in Thread :
    /\ InRunQueue(t) <=> state[t] = "ready" /\ suspend[t] = 0
    /\ InRunQueue(t) => t \in ToSet(links.queue[prio[t]])
    /\ InWaitQueue(t) <=> state[t] = "waiting"
    /\ state[t] = "running" => t = running /\ t = exec

\* A thread that is back in guest code is the running one and is not suspended,
\* whatever happened while the call it comes back from was blocked.
GuestRunsUnsuspended ==
  InGuestCode => /\ running = exec /\ current = exec
                 /\ state[exec] = "running" /\ suspend[exec] = 0
                 /\ disable = 0

\* Control moves to another fiber only by way of the scheduler, which has made
\* its thread the running one.
DispatchedOnSwitch ==
  [][exec' # exec => /\ running' = exec' /\ current' = exec'
                     /\ state'[exec'] = "running" /\ suspend'[exec'] = 0]_vars

\* Without callbacks, guest code executes only on a thread of the highest
\* priority that is ready: every call that readies a thread, or lowers the
\* priority of its caller, gives way.
HighestRuns == InGuestCode => \A p \in links.pending : prio[exec] <= p

\* With callbacks, it may execute below such a thread, but only while the
\* request to reschedule is still pending.
PreemptionNotLost ==
  InGuestCode => \A p \in links.pending : p < prio[exec] => resched

\* OSSleepThread, called where the scheduler cannot switch away, leaves the
\* thread it was called for running.
RefusedSleepLeavesRunning ==
  [][At({"OSSleepThread"}) /\ disable # 0 => state'[running'] = "running"]_vars

\* Every call gets back to guest code, or to the idle loop: no loop of the HLE,
\* and no recursion between them, keeps the host thread for ever.
CallsEnd == stack[exec] # << >> ~> InGuestCode \/ InCallback \/ Idling

-----------------------------------------------------------------------------
(* Sleeping.                                                               *)

\* Some fiber still has the frame f to execute.
Pending(f) == \E t \in Thread : f \in ToSet(stack[t])

InTickSleep(t) == Call("ParkReturn", Null) \in ToSet(stack[t]) /\ suspend[t] > 0

\* A sleeper that only its timer can wake still has a source of wakeups: the
\* timer, a fiber that took it off the table to deliver it, or the reconciler.
ParkHasWakeSource ==
  \A t \in Thread :
    InTickSleep(t) => \/ t \in timers \cup outstanding
                      \/ Pending(Call("SleepTimerDue", t))
                      \/ Pending(Call("OSResumeThread", t))

\* A timer that comes due resumes a thread only out of a tick sleep.
TimersEndTickSleeps ==
  [][\A t \in Thread :
       At({"SleepTimerDue"}) /\ Arg = t /\ Head(stack'[exec]) = Call("OSResumeThread", t) =>
         InTickSleep(t)]_vars

\* When everybody waits, a tick sleep ends and guest code goes on.
TickSleepsEnd ==
  Idling /\ (\E t \in timers : InTickSleep(t) /\ suspend[t] = 1) ~> InGuestCode

-----------------------------------------------------------------------------
(* Mutexes.                                                                *)

\* The owner, the lock count and the lists of held mutexes agree.
OwnershipAgrees ==
  /\ \A t \in Thread : IsInjective(held[t])
  /\ \A m \in Mutex : /\ (owner[m] = Null) <=> (count[m] = 0)
                      /\ \A t \in Thread : owner[m] = t <=> m \in ToSet(held[t])

\* The waiters of a mutex wait for its owner, or their wakeup is on its way.
MutexWaitersWoken ==
  \A m \in Mutex :
    /\ \A t \in ToSet(links.queue[m]) : blockedOn[t] = m
    /\ links.queue[m] # << >> =>
         \/ owner[m] # Null
         \/ Pending(Call("OSWakeupThread", m)) \/ Pending(Call("WakeupLinked", m))

\* Outside the chain walks, the owner of a mutex has at least the priority of
\* every waiter, along chains of owners too, unless it is suspended.
PriorityInherited ==
  ~ At({"Promote", "Propagate"}) =>
    \A m \in Mutex : \A t \in ToSet(links.queue[m]) :
      owner[m] # Null /\ suspend[owner[m]] = 0 => prio[owner[m]] <= prio[t]

\* Every wait queue is in the order of the priorities its threads have now.
WaitQueuesSorted ==
  \A q \in WaitQueueId : \A i, j \in DOMAIN links.queue[q] :
    i < j => prio[links.queue[q][i]] <= prio[links.queue[q][j]]

-----------------------------------------------------------------------------
(* The end of a thread.                                                    *)

\* Whoever waits for the end of a thread that has ended is being woken.
JoinersWoken ==
  \A t \in Thread :
    Dead(t) /\ links.queue[t] # << >> =>
      \E op \in {"OSWakeupThread", "WakeupLinked", "WakeNoSwitch"} : Pending(Call(op, t))

\* A thread that has ended owns no mutex, or they are being released.
DeadOwnNothing ==
  \A m \in Mutex :
    owner[m] # Null /\ Dead(owner[m]) => Pending(Call("UnlockAll", owner[m]))
=============================================================================
