--------------------------- MODULE OSThreadsProofs ---------------------------
(***************************************************************************)
(* What OSThreads guarantees for any number of threads, queues and mutexes,*)
(* any priorities and any bounds, if guest code is Disciplined.            *)
(***************************************************************************)
EXTENDS OSStepProofs

-----------------------------------------------------------------------------
(* The invariant.                                                          *)

\* __OSThreadInit leaves a system in which the default thread executes alone.
LEMMA InitInvariant ==
  ASSUME Init
  PROVE  IInv
<1>1. /\ Main \in Thread /\ BasePriority \in [Thread -> Priority] /\ LowestPriority \in Nat
      /\ Null \notin QueueId /\ Main # Null
  BY ConstantTypes, AddressFacts DEF ConstantTypes
<1>2. /\ \A q \in QueueId : links.queue[q] = << >>
      /\ \A t \in Thread : links.at[t] = Null /\ stack[t] = << >> /\ suspend[t] = 0
      /\ \A t \in Thread : prio[t] \in Priority /\ stack[t] \in Seq(Frame)
      /\ \A t \in Thread : state[t] = IF t = Main THEN "running" ELSE "none"
      /\ exec = Main /\ running = Main /\ current = Main /\ disable = 0
      /\ links.pending = {}
  BY <1>1 DEF Init
<1>3. TypeOK
  <2>1. links \in [queue   : [QueueId -> Seq(Thread)],
                  at      : [Thread -> QueueId \cup {Null}],
                  pending : SUBSET Priority]
    <3>1. /\ [q \in QueueId |-> << >>] \in [QueueId -> Seq(Thread)]
          /\ [t \in Thread |-> Null] \in [Thread -> QueueId \cup {Null}]
      OBVIOUS
    <3> QED  BY <3>1 DEF Init
  <2>2. /\ stack \in [Thread -> Seq(Frame)] /\ held \in [Thread -> Seq(Mutex)]
        /\ prio \in [Thread -> Priority \cup {SuspendedWaitPriority}]
    BY <1>1 DEF Init
  <2>3. /\ state \in [Thread -> {"none", "ready", "running", "waiting", "moribund"}]
        /\ suspend \in [Thread -> Nat] /\ detached \in [Thread -> BOOLEAN]
        /\ blockedOn \in [Thread -> Mutex \cup {Null}]
        /\ owner \in [Mutex -> Thread \cup {Null}] /\ count \in [Mutex -> Nat]
    BY DEF Init
  <2>4. /\ listed \subseteq Thread /\ resched \in BOOLEAN /\ disable \in Nat
        /\ running \in Thread \cup {Null} /\ current \in Thread \cup {Null, IdleContext}
        /\ timers \subseteq Thread /\ outstanding \subseteq Thread
        /\ firstSeen \subseteq Thread /\ exec \in Thread
    BY <1>1 DEF Init
  <2> QED  BY <2>1, <2>2, <2>3, <2>4 DEF TypeOK
<1>4. QueueInv
  <2>1. \A q \in QueueId : ToSet(links.queue[q]) = {} /\ IsInjective(links.queue[q])
    BY <1>2 DEF IsInjective, ToSet
  <2>2. PendingMaskExact /\ LinkedOnce
    BY <1>2, <2>1, AddressFacts DEF PendingMaskExact, LinkedOnce
  <2>3. \A t \in Thread : Placed(t)
    BY <1>2, <2>1, AddressFacts DEF Placed, Members, OnRunQueue
  <2> QED  BY <2>2, <2>3 DEF QueueInv
<1>5. ControlInv
  <2>1. stack[exec] = << >> /\ \A u \in Thread : \A ops : ~ Has(stack[u], ops)
    BY <1>1, <1>2 DEF Has
  <2>2. BarrierShape
    BY <2>1 DEF BarrierShape, Shaped
  <2>3. OthersOpen /\ DeadEmpty /\ FirstOnly /\ DispatchNext /\ CreateNext /\ NoReturns
    BY <1>2, <2>1 DEF OthersOpen, DeadEmpty, FirstOnly, DispatchNext, CreateNext, NoReturns, At
  <2>4. /\ DisableCounts /\ IdleCallbackIdles /\ IdleRunsNobody /\ IdleNotRunning
        /\ OpenRunsItself /\ NotRunningLeaves /\ CallbackRuns
    BY <1>1, <1>2, <2>1
    DEF DisableCounts, IdleCallbackIdles, IdleRunsNobody, IdleNotRunning, OpenRunsItself,
        NotRunningLeaves, CallbackRuns
  <2> QED  BY <2>2, <2>3, <2>4 DEF ControlInv
<1>6. MutexInv
  BY DEF Init, MutexInv
<1> QED  BY <1>3, <1>4, <1>5, <1>6 DEF IInv

\* The steps of a fiber whose entry function has returned do not occur.
LEMMA NobodyReturns ==
  ASSUME IInv
  PROVE  ~ ThreadReturns /\ ~ WakeNoSwitch /\ ~ LeaveFiber
<1>1. exec \in Thread /\ stack[exec] \in Seq(Frame)
  BY ChainNow
<1>2. ~ Has(stack[exec], {"ThreadReturns", "WakeNoSwitch", "LeaveFiber"})
  BY <1>1 DEF IInv, ControlInv, NoReturns
<1>3. \A ops : At(ops) => Has(stack[exec], ops)
  <2>1. << >> \in Seq(Frame)
    OBVIOUS
  <2> QED  BY <1>1, <2>1, HasReplace DEF At
<1>4. ~ At({"ThreadReturns"}) /\ ~ At({"WakeNoSwitch"}) /\ ~ At({"LeaveFiber"})
  BY <1>2 , <1>3 DEF Has
<1> QED  BY <1>4 DEF ThreadReturns, WakeNoSwitch, LeaveFiber

LEMMA NextInvariant ==
  ASSUME Disciplined, IInv, [Next]_vars
  PROVE  IInv'
<1>1. CASE SleepStep
  BY <1>1, OSSleepThreadStep, SleepReturnStep, OSSleepTicksStep, ParkReturnStep,
     SleepTimerDueStep, ReconcileStep
  DEF SleepStep
<1>2. CASE SchedulerStep
  BY <1>2, SelectThreadStep, SelectReturnsStep, SelectLeavesStep, DispatchStep,
     RescheduleStep, IdleTimersStep, LeaveIdleLoopStep, OSWakeupThreadStep, WakeupDoneStep
  DEF SchedulerStep
<1>3. CASE MutexStep
  BY <1>3, PromoteStep, PropagateStep, OSLockMutexStep, LockRetryStep, OSUnlockMutexStep,
     UnlockAllStep
  DEF MutexStep
<1>4. CASE LifeStep
  BY <1>4, OSCreateThreadStep, OSSuspendThreadStep, OSResumeThreadStep, OSExitThreadStep,
     ExitRescheduleStep, OSCancelThreadStep, OSJoinThreadStep, JoinReturnStep,
     OSDetachThreadStep, NobodyReturns
  DEF LifeStep
<1>5. CASE CallbackStep
  BY <1>5, IdleCallbackStep, IdleCallbackReturnsStep, BeginCallbackStep, EndCallbackStep
  DEF CallbackStep
<1>6. CASE GuestCall
  BY <1>6, GuestCallStep
<1>7. CASE UNCHANGED vars
  BY <1>7, StutterStep
<1> QED  BY <1>1, <1>2, <1>3, <1>4, <1>5, <1>6, <1>7 DEF Next, HleStep

\* The inductive invariant holds in every reachable state: whatever an HLE
\* function does, where a thread is linked agrees with its state, and its state
\* with how far its call chain has got.
THEOREM InvariantHolds ==
  ASSUME Disciplined
  PROVE  Spec => []IInv
<1>1. Init => IInv
  BY InitInvariant
<1>2. IInv /\ [Next]_vars => IInv'
  BY NextInvariant
<1> QED  BY <1>1, <1>2, PTL DEF Spec

-----------------------------------------------------------------------------
(* What follows from it.                                                   *)

\* Every field and global keeps to its type: no priority but 32 is out of
\* range, no suspend or lock count goes below zero, frames are well formed.
THEOREM TypesHold ==
  ASSUME Disciplined
  PROVE  Spec => []TypeOK
<1>1. IInv => TypeOK
  BY DEF IInv
<1> QED  BY <1>1, InvariantHolds, PTL

\* The run queue bits that SelectThread and the idle loop go by are exact.
THEOREM PendingMaskIsExact ==
  ASSUME Disciplined
  PROVE  Spec => []PendingMaskExact
<1>1. IInv => PendingMaskExact
  BY DEF IInv, QueueInv
<1> QED  BY <1>1, InvariantHolds, PTL

\* No thread is ever linked twice, or in a queue that its pointer does not name.
THEOREM ThreadsLinkedOnce ==
  ASSUME Disciplined
  PROVE  Spec => []LinkedOnce
<1>1. IInv => LinkedOnce
  BY DEF IInv, QueueInv
<1> QED  BY <1>1, InvariantHolds, PTL

\* Every HLE call returns to a guest thread that runs, is not suspended, is the
\* one the globals name, and has the scheduler enabled.
THEOREM GuestCodeRunsUnsuspended ==
  ASSUME Disciplined
  PROVE  Spec => []GuestRunsUnsuspended
<1>1. IInv => GuestRunsUnsuspended
  <2>1. SUFFICES ASSUME IInv, InGuestCode
                 PROVE  /\ running = exec /\ current = exec
                        /\ state[exec] = "running" /\ suspend[exec] = 0
                        /\ disable = 0
    BY DEF GuestRunsUnsuspended
  <2>2. state[exec] = "running" /\ running = exec /\ current = exec /\ disable = 0
    BY <2>1, GuestFacts DEF IInv
  <2>3. Placed(exec)
    BY <2>1 DEF IInv, TypeOK, QueueInv
  <2> QED  BY <2>2, <2>3 DEF Placed
<1> QED  BY <1>1, InvariantHolds, PTL

\* What StateSaysWhere says of linked and of running threads.  That a waiter is
\* linked is not included: OSCreateThread empties the join queue of the block it
\* is given, whoever waits there.
LinkedByState ==
  \A t \in Thread :
    /\ InRunQueue(t) <=> state[t] = "ready" /\ suspend[t] = 0
    /\ InRunQueue(t) => t \in ToSet(links.queue[prio[t]])
    /\ InWaitQueue(t) => state[t] = "waiting"
    /\ state[t] = "running" => t = running /\ t = exec

\* A thread on a run queue is ready and on the queue of its priority, one on a
\* wait queue waits, and only the thread that executes is running.
THEOREM StateSaysWhereLinked ==
  ASSUME Disciplined
  PROVE  Spec => []LinkedByState
<1>1. IInv => LinkedByState
  <2>1. SUFFICES ASSUME IInv, NEW t \in Thread
                 PROVE  /\ InRunQueue(t) <=> state[t] = "ready" /\ suspend[t] = 0
                        /\ InRunQueue(t) => t \in ToSet(links.queue[prio[t]])
                        /\ InWaitQueue(t) => state[t] = "waiting"
                        /\ state[t] = "running" => t = running /\ t = exec
    BY DEF LinkedByState
  <2>2. Placed(t)
    BY <2>1 DEF IInv, QueueInv
  <2>3. InRunQueue(t) <=> state[t] = "ready" /\ suspend[t] = 0
    BY <2>2 DEF Placed, Members, InRunQueue, OnRunQueue
  <2>4. InRunQueue(t) => t \in ToSet(links.queue[prio[t]])
    BY <2>2 DEF Placed, Members, InRunQueue, OnRunQueue
  <2>5. InWaitQueue(t) => state[t] = "waiting"
    BY <2>2 DEF Placed, Members, InWaitQueue
  <2>6. state[t] = "running" => t = running /\ t = exec
    <3>1. SUFFICES ASSUME state[t] = "running"
                   PROVE  t = running /\ t = exec
      OBVIOUS
    <3>2. t = exec
      BY <2>2, <3>1 DEF Placed
    <3>3. stack[exec] \in Seq(Frame) /\ ChainInv(stack[exec], disable)
      BY <2>1, ChainNow
    <3>4. ~ Has(stack[exec], {"IdleLoop", "Dispatch"})
      <4>1. ~ Has(stack[exec], {"IdleLoop"})
        BY <3>1, <3>2, <3>3 DEF ChainInv
      <4>2. ~ Has(stack[exec], {"Dispatch"})
        <5>1. CASE stack[exec] = << >>
          BY <5>1 DEF Has
        <5>2. CASE stack[exec] # << >>
          <6>1. ~ Has(Tail(stack[exec]), {"Dispatch"}) /\ Head(stack[exec]).op # "Dispatch"
            BY <3>1, <3>2, <3>3, <5>2 DEF ChainInv, Has
          <6>2. << >> \in Seq(Frame)
            OBVIOUS
          <6> QED  BY <3>3, <5>2, <6>1, <6>2, HasReplace
        <5> QED  BY <5>1, <5>2
      <4> QED  BY <4>1, <4>2 DEF Has
    <3> QED  BY <3>2, <3>3, <3>4 DEF ChainInv
  <2> QED  BY <2>3, <2>4, <2>5, <2>6
<1> QED  BY <1>1, InvariantHolds, PTL

\* Only Dispatch makes another fiber execute.
LEMMA OnlyDispatchSwitches ==
  ASSUME IInv, Next, exec' # exec
  PROVE  Dispatch
<1>1. ~ SleepStep
  BY DEF SleepStep, OSSleepThread, SleepReturn, OSSleepTicks, ParkReturn, SleepTimerDue,
         Reconcile
<1>2. SchedulerStep => Dispatch
  BY DEF SchedulerStep, SelectThread, SelectReturns, SelectLeaves, Reschedule, IdleTimers,
         LeaveIdleLoop, OSWakeupThread, WakeupDone
<1>3. ~ MutexStep
  BY DEF MutexStep, Promote, Propagate, OSLockMutex, LockRetry, OSUnlockMutex, UnlockAll
<1>4. ~ LifeStep
  BY NobodyReturns
  DEF LifeStep, OSCreateThread, OSSuspendThread, OSResumeThread, OSExitThread,
      ExitReschedule, OSCancelThread, OSJoinThread, JoinReturn, OSDetachThread
<1>5. ~ CallbackStep /\ ~ GuestCall
  BY DEF CallbackStep, IdleCallback, IdleCallbackReturns, BeginCallback, EndCallback,
         GuestCall
<1> QED  BY <1>1, <1>2, <1>3, <1>4, <1>5 DEF Next, HleStep

\* Control passes to another fiber only by way of a dispatch that has made its
\* thread the running one, and never to a thread that is suspended.
THEOREM SwitchesAreDispatches ==
  ASSUME Disciplined
  PROVE  Spec => DispatchedOnSwitch
<1> DEFINE Switched == exec' # exec =>
                         /\ running' = exec' /\ current' = exec'
                         /\ state'[exec'] = "running" /\ suspend'[exec'] = 0
<1>1. IInv /\ [Next]_vars => [Switched]_vars
  <2>1. SUFFICES ASSUME IInv, Next, exec' # exec
                 PROVE  /\ running' = exec' /\ current' = exec'
                        /\ state'[exec'] = "running" /\ suspend'[exec'] = 0
    BY DEF vars, fiberVars
  <2>2. Dispatch
    BY <2>1, OnlyDispatchSwitches
  <2>3. IInv'
    <3>1. UNCHANGED suspend
      BY <2>2 DEF Dispatch
    <3> QED  BY <2>1, <2>2, DispatchStep
  <2>4. running' = exec' /\ current' = exec'
    BY <2>1, <2>2 DEF Dispatch
  <2>5. exec' \in Thread /\ state \in [Thread -> {"none", "ready", "running", "waiting", "moribund"}]
    BY <2>1, <2>3 DEF IInv, TypeOK
  <2>6. state' = [state EXCEPT ![exec'] = "running"]
    BY <2>1, <2>2 DEF Dispatch
  <2>7. state'[exec'] = "running"
    BY <2>5, <2>6
  <2>8. Placed(exec)'
    BY <2>3, <2>5 DEF IInv, QueueInv
  <2> QED  BY <2>4, <2>7, <2>8 DEF Placed
<1> QED  BY <1>1, InvariantHolds, PTL DEF Spec, DispatchedOnSwitch

-----------------------------------------------------------------------------
(* What a step does to the wait queues.                                    *)

\* The order of a queue.
WaitSorted(L, f) == \A q \in WaitQueueId : SortedBy(L.queue[q], f)

SortStep == WaitSorted(links, prio) => WaitSorted(links', prio')

\* Whoever is linked in a wait queue afterwards waited for it before, or goes to
\* sleep on it.
EnterStep ==
  \A q \in WaitQueueId : \A u \in In(links', q) :
    \/ state[u] = "waiting" /\ links.at[u] = q
    \/ At({"OSSleepThread"}) /\ Arg = q /\ u = exec

\* Whoever waits afterwards is linked, or was not linked before either; or a
\* thread has been created in the block its join queue belongs to.
StayStep ==
  \A u \in Thread : state'[u] = "waiting" =>
    \/ u \in In(links', links'.at[u])
    \/ /\ state[u] = "waiting" /\ links'.at[u] = links.at[u]
       /\ u \in In(links, links.at[u]) => At({"OSCreateThread"}) /\ Arg = links.at[u]

\* A queue pointer is cleared of a thread that is linked, or that waits.
ClearStep ==
  \A u \in Thread : links.at[u] # Null /\ links'.at[u] = Null =>
    u \in In(links, links.at[u]) \/ state[u] = "waiting"

LinkStep == SortStep /\ EnterStep /\ StayStep /\ ClearStep

LEMMA LinkedFacts ==
  ASSUME IInv
  PROVE  /\ WellFormed(links, QueueId, Thread)
         /\ links.at \in [Thread -> QueueId \cup {Null}]
         /\ \A q \in QueueId : /\ links.queue[q] \in Seq(Thread)
                               /\ IsInjective(links.queue[q])
                               /\ In(links, q) \subseteq Thread
                               /\ \A u \in In(links, q) : links.at[u] = q
         /\ \A q \in WaitQueueId : \A u \in In(links, q) : state[u] = "waiting"
         /\ \A p \in Priority : \A u \in In(links, p) : OnRunQueue(u)
         /\ \A u \in Thread : OnRunQueue(u) => links.at[u] = prio[u] /\ u \in In(links, prio[u])
         /\ prio \in [Thread -> Nat]
         /\ \A u \in Thread : state[u] = "waiting" => links.at[u] \in WaitQueueId
<1>1. WellFormed(links, QueueId, Thread)
  BY LinksWellFormed DEF IInv, QueueInv
<1>2. /\ links.at \in [Thread -> QueueId \cup {Null}]
      /\ \A q \in QueueId : /\ links.queue[q] \in Seq(Thread)
                            /\ IsInjective(links.queue[q])
                            /\ \A u \in In(links, q) : links.at[u] = q
  BY <1>1 DEF WellFormed, In
<1>3. \A q \in QueueId : In(links, q) \subseteq Thread
  BY <1>2, ElementOfSeq DEF In, ToSet
<1>4. \A u \in Thread : Placed(u)
  BY DEF IInv, QueueInv
<1>5. /\ \A q \in WaitQueueId : \A u \in In(links, q) : state[u] = "waiting"
      /\ \A p \in Priority : \A u \in In(links, p) : OnRunQueue(u)
  BY <1>3, <1>4, AddressFacts DEF Placed, Members, In, OnRunQueue
<1>6. \A u \in Thread : OnRunQueue(u) => links.at[u] = prio[u] /\ u \in In(links, prio[u])
  BY <1>2, <1>4, AddressFacts DEF Placed, Members, In
<1>7. prio \in [Thread -> Nat]
  BY PriorityFacts DEF IInv, TypeOK
<1>8. \A u \in Thread : state[u] = "waiting" => links.at[u] \in WaitQueueId
  BY <1>4 DEF Placed
<1> QED  BY <1>1, <1>2, <1>3, <1>5, <1>6, <1>7, <1>8

\* A step that leaves the queues alone.
LEMMA KeptLinks ==
  ASSUME IInv, links' = links,
         \A u \in Thread : state'[u] = "waiting" => state[u] = "waiting",
         \A u \in Thread : state[u] = "waiting" => prio'[u] = prio[u]
  PROVE  LinkStep
<1>1. SortStep
  <2>1. SUFFICES ASSUME NEW q \in WaitQueueId, SortedBy(links.queue[q], prio)
                 PROVE  SortedBy(links.queue[q], prio')
    BY DEF SortStep, WaitSorted
  <2>2. links.queue[q] \in Seq(Thread) /\ \A u \in ToSet(links.queue[q]) : prio'[u] = prio[u]
    BY AddressFacts, LinkedFacts DEF In
  <2> QED  BY <2>1, <2>2, SortedAgain
<1>2. EnterStep
  BY AddressFacts, LinkedFacts DEF EnterStep
<1>3. StayStep
  BY DEF StayStep
<1>4. ClearStep
  BY DEF ClearStep
<1> QED  BY <1>1, <1>2, <1>3, <1>4 DEF LinkStep

\* A step in which one thread may leave a wait queue, and nobody enters one.
LEMMA OneLeaves ==
  ASSUME IInv, NEW t \in Thread,
         \A q \in WaitQueueId :
           /\ In(links', q) \subseteq In(links, q)
           /\ SortedBy(links.queue[q], prio) => SortedBy(links'.queue[q], prio)
           /\ \A u \in In(links, q) : u # t => u \in In(links', q),
         \A u \in Thread \ {t} :
           /\ state'[u] = "waiting" => state[u] = "waiting"
           /\ links'.at[u] = links.at[u]
           /\ prio'[u] = prio[u],
         state'[t] # "waiting",
         \A q \in WaitQueueId : t \in In(links', q) => prio'[t] = prio[t],
         WellFormed(links', QueueId, Thread),
         links'.at[t] = Null =>
           links.at[t] = Null \/ t \in In(links, links.at[t]) \/ state[t] = "waiting"
  PROVE  LinkStep
<1>1. SortStep
  <2>1. SUFFICES ASSUME NEW q \in WaitQueueId, SortedBy(links.queue[q], prio)
                 PROVE  SortedBy(links'.queue[q], prio')
    BY DEF SortStep, WaitSorted
  <2>2. links'.queue[q] \in Seq(Thread)
    BY AddressFacts DEF WellFormed
  <2>3. \A u \in ToSet(links'.queue[q]) : u \in Thread
    BY <2>2, ElementOfSeq DEF ToSet
  <2>4. \A u \in ToSet(links'.queue[q]) : prio'[u] = prio[u]
    BY <2>3 DEF In
  <2>5. SortedBy(links'.queue[q], prio)
    BY <2>1
  <2> QED  BY <2>2, <2>4, <2>5, SortedAgain
<1>2. EnterStep
  BY AddressFacts, LinkedFacts DEF EnterStep
<1>3. StayStep
  <2>1. SUFFICES ASSUME NEW u \in Thread \ {t}, state'[u] = "waiting"
                 PROVE  \/ u \in In(links', links.at[u])
                        \/ state[u] = "waiting" /\ u \notin In(links, links.at[u])
    BY DEF StayStep
  <2>2. links.at[u] \in WaitQueueId
    BY <2>1, LinkedFacts
  <2> QED  BY <2>1, <2>2
<1>4. ClearStep
  BY DEF ClearStep
<1> QED  BY <1>1, <1>2, <1>3, <1>4 DEF LinkStep

\* What the operations on one queue leave in each of them.
LEMMA UnlinkQueues ==
  ASSUME NEW L, WellFormed(L, QueueId, Thread), NEW t \in Thread, NEW r \in QueueId
  PROVE  Unlink(L, t).queue[r] = RemoveFirst(L.queue[r], t)
<1>1. /\ L.queue \in [QueueId -> Seq(Thread)] /\ L.at \in [Thread -> QueueId \cup {Null}]
      /\ \A q \in QueueId : t \in ToSet(L.queue[q]) => L.at[t] = q
  BY DEF WellFormed
<1>2. r # L.at[t] => RemoveFirst(L.queue[r], t) = L.queue[r]
  <2>1. ASSUME r # L.at[t]
        PROVE  ~ \E i \in 1 .. Len(L.queue[r]) : L.queue[r][i] = t
    BY <1>1, <2>1 DEF ToSet
  <2> QED  BY <2>1 DEF RemoveFirst
<1>3. CASE L.at[t] = Null
  BY <1>2, <1>3, AddressFacts DEF Unlink
<1>4. CASE L.at[t] # Null
  <2>1. Unlink(L, t).queue = [L.queue EXCEPT ![L.at[t]] = RemoveFirst(L.queue[L.at[t]], t)]
    BY <1>4 DEF Unlink, UpdatePending
  <2> QED  BY <1>1, <1>2, <2>1
<1> QED  BY <1>3, <1>4

LEMMA InsertQueues ==
  ASSUME NEW L, WellFormed(L, QueueId, Thread), NEW t \in Thread, NEW q \in QueueId,
         NEW p, NEW f, NEW M, M = InsertByPriority(L, q, t, p, f)
  PROVE  /\ M.queue[q] = InsertAt(L.queue[q], InsertPosition(L.queue[q], p, f), t)
         /\ \A r \in QueueId : r # q => M.queue[r] = L.queue[r]
<1>1. L.queue \in [QueueId -> Seq(Thread)]
  BY DEF WellFormed
<1>2. M.queue = [L.queue EXCEPT
                   ![q] = InsertAt(L.queue[q], InsertPosition(L.queue[q], p, f), t)]
  BY DEF InsertByPriority
<1> QED  BY <1>1, <1>2

\* Moving a thread to its place in a wait queue, or into one, keeps all of them
\* in order.
LEMMA InsertSorts ==
  ASSUME NEW L, WellFormed(L, QueueId, Thread), NEW t \in Thread,
         NEW K, WellFormed(K, QueueId, Thread),
         \A r \in QueueId : K.queue[r] = RemoveFirst(L.queue[r], t),
         \A r \in QueueId : t \notin In(K, r),
         NEW q \in WaitQueueId, NEW f \in [Thread -> Nat], NEW g \in [Thread -> Nat],
         \A u \in Thread \ {t} : g[u] = f[u],
         NEW M, M = InsertByPriority(K, q, t, g[t], f),
         WaitSorted(L, f)
  PROVE  WaitSorted(M, g)
<1>1. SUFFICES ASSUME NEW r \in WaitQueueId
               PROVE  SortedBy(M.queue[r], g)
  BY DEF WaitSorted
<1>2. L.queue[r] \in Seq(Thread) /\ K.queue[r] \in Seq(Thread) /\ r \in QueueId
  BY AddressFacts DEF WellFormed
<1>3. SortedBy(K.queue[r], f)
  <2>1. SortedBy(L.queue[r], f)
    BY DEF WaitSorted
  <2>2. SortedBy(RemoveFirst(L.queue[r], t), f)
    BY <1>2, <2>1, SortedRemove
  <2> QED  BY <1>2, <2>2
<1>4. \A u \in ToSet(K.queue[r]) : g[u] = f[u]
  <2>1. \A u \in ToSet(K.queue[r]) : u \in Thread
    BY <1>2, ElementOfSeq DEF ToSet
  <2> QED  BY <1>2, <2>1 DEF In
<1>5. CASE r # q
  <2>1. M.queue[r] = K.queue[r]
    <3>1. q \in QueueId
      BY AddressFacts
    <3>2. \A x \in QueueId : x # q => M.queue[x] = K.queue[x]
      BY <3>1, InsertQueues
    <3> QED  BY <1>2, <1>5, <3>2
  <2> QED  BY <1>2, <1>3, <1>4, <2>1, SortedAgain
<1>6. CASE r = q
  <2> DEFINE s == K.queue[q]
  <2>1. M.queue[q] = InsertAt(s, InsertPosition(s, g[t], f), t)
    BY <1>2, <1>6, InsertQueues
  <2>2. s \in Seq(Thread) /\ SortedBy(s, f) /\ \A u \in ToSet(s) : g[u] = f[u]
    BY <1>2, <1>3, <1>4, <1>6
  <2> HIDE DEF s
  <2>3. SortedBy(M.queue[q], g)
    BY <2>1, <2>2, SortedInsert
  <2> QED  BY <1>6, <2>3
<1> QED  BY <1>5, <1>6

\* A waiter is moved to the place of its new priority.
LEMMA WaiterResorted ==
  ASSUME IInv, NEW t \in Thread, state[t] = "waiting",
         links' = InsertByPriority(Unlink(links, t), links.at[t], t, prio'[t], prio),
         prio' \in [Thread -> Nat],
         \A u \in Thread \ {t} : prio'[u] = prio[u],
         \A u \in Thread : state'[u] = "waiting" => state[u] = "waiting"
  PROVE  LinkStep
<1> DEFINE q == links.at[t]
           K == Unlink(links, t)
<1>1. q \in WaitQueueId /\ q \in QueueId /\ WellFormed(links, QueueId, Thread)
      /\ prio \in [Thread -> Nat]
  BY LinkedFacts, AddressFacts
<1>2. /\ WellFormed(K, QueueId, Thread) /\ Removed(K, links, t, QueueId)
      /\ \A r \in QueueId : K.queue[r] = RemoveFirst(links.queue[r], t)
  BY <1>1, AddressFacts, UnlinkFacts, UnlinkQueues
<1>3. /\ WellFormed(links', QueueId, Thread)
      /\ In(links', q) = In(links, q) \cup {t}
      /\ \A r \in QueueId : r # q => In(links', r) = In(links, r) \ {t}
      /\ links'.at[t] = q /\ \A u \in Thread \ {t} : links'.at[u] = links.at[u]
  BY <1>1, MoveFacts
<1>4. SortStep
  <2>1. \A r \in QueueId : t \notin In(K, r)
    BY <1>2 DEF Removed
  <2>2. links' = InsertByPriority(K, q, t, prio'[t], prio)
    OBVIOUS
  <2> HIDE DEF K, q
  <2> QED  BY <1>1, <1>2, <2>1, <2>2, InsertSorts DEF SortStep
<1> HIDE DEF q
<1>5. EnterStep
  <2>1. SUFFICES ASSUME NEW r \in WaitQueueId, NEW u \in In(links', r)
                 PROVE  state[u] = "waiting" /\ links.at[u] = r
    BY DEF EnterStep
  <2>2. CASE u = t /\ r = q
    BY <2>2 DEF q
  <2>3. CASE u # t \/ r # q
    <3>1. u \in In(links, r)
      BY <1>3, <2>1, <2>3, AddressFacts
    <3> QED  BY <3>1, AddressFacts, LinkedFacts
  <2> QED  BY <2>2, <2>3
<1>6. StayStep
  <2>1. SUFFICES ASSUME NEW u \in Thread, state'[u] = "waiting"
                 PROVE  \/ u \in In(links', links'.at[u])
                        \/ /\ state[u] = "waiting" /\ links'.at[u] = links.at[u]
                           /\ u \notin In(links, links.at[u])
    BY DEF StayStep
  <2>2. CASE u = t
    BY <1>3, <2>2
  <2>3. CASE u # t
    <3>1. state[u] = "waiting" /\ links'.at[u] = links.at[u] /\ links.at[u] \in QueueId
      BY <1>3, <2>1, <2>3, LinkedFacts, AddressFacts
    <3>2. u \in In(links, links.at[u]) => u \in In(links', links.at[u])
      BY <1>3, <2>3, <3>1
    <3> QED  BY <3>1, <3>2
  <2> QED  BY <2>2, <2>3
<1>7. ClearStep
  <2>1. q # Null
    BY <1>1, AddressFacts
  <2> QED  BY <1>3, <2>1 DEF ClearStep
<1> QED  BY <1>4, <1>5, <1>6, <1>7 DEF LinkStep

\* The steps that leave the queues alone, and every waiter in its state and at
\* its priority.
LEMMA SleepKeepsLinks ==
  ASSUME IInv, OSSleepTicks \/ SleepReturn \/ ParkReturn \/ SleepTimerDue \/ Reconcile
  PROVE  LinkStep
<1>1. /\ state \in [Thread -> {"none", "ready", "running", "waiting", "moribund"}]
      /\ exec \in Thread
  BY DEF IInv, TypeOK
<1>2. CASE SleepReturn
  <2>1. state[exec] = "running"
    <3>1. At({"SleepReturn"})
      BY <1>2 DEF SleepReturn
    <3> QED  BY <3>1, BusyTopFacts DEF Quiet, Barrier
  <2>2. UNCHANGED << links, state, prio >>
    BY <1>2, <2>1 DEF SleepReturn
  <2> QED  BY <2>2, KeptLinks
<1>3. CASE ParkReturn
  <2>1. links' = links /\ prio' = prio
    BY <1>3 DEF ParkReturn
  <2>2. state' = state \/ state' = [state EXCEPT ![exec] = "running"]
    BY <1>3 DEF ParkReturn
  <2>3. \A u \in Thread : state'[u] = "waiting" => state[u] = "waiting"
    BY <1>1, <2>2
  <2> QED  BY <2>1, <2>3, KeptLinks
<1>4. CASE OSSleepTicks \/ SleepTimerDue \/ Reconcile
  <2>1. UNCHANGED << links, state, prio >>
    BY <1>4 DEF OSSleepTicks, SleepTimerDue, Reconcile, threadVars
  <2> QED  BY <2>1, KeptLinks
<1> QED  BY <1>2, <1>3, <1>4

LEMMA SchedulerKeepsLinks ==
  ASSUME IInv, SelectThread \/ SelectReturns \/ Reschedule \/ IdleTimers \/ LeaveIdleLoop
               \/ WakeupDone \/ CallbackStep \/ GuestCall \/ UNCHANGED vars
  PROVE  LinkStep
<1>1. UNCHANGED << links, state, prio >>
  BY DEF SelectThread, SelectReturns, Reschedule, IdleTimers, LeaveIdleLoop, WakeupDone,
         CallbackStep, IdleCallback, IdleCallbackReturns, BeginCallback, EndCallback,
         GuestCall, threadVars, vars
<1> QED  BY <1>1, KeptLinks

LEMMA MutexKeepsLinks ==
  ASSUME IInv, OSLockMutex \/ LockRetry \/ OSUnlockMutex \/ UnlockAll
  PROVE  LinkStep
<1>1. CASE OSLockMutex \/ LockRetry \/ UnlockAll
  <2>1. UNCHANGED << links, state, prio >>
    BY <1>1 DEF OSLockMutex, LockRetry, UnlockAll, threadVars
  <2> QED  BY <2>1, KeptLinks
<1>2. CASE OSUnlockMutex
  <2>1. prio \in [Thread -> Nat] /\ exec \in Thread
    BY LinkedFacts DEF IInv, TypeOK
  <2>2. state[exec] = "running"
    <3>1. At({"OSUnlockMutex"})
      BY <1>2 DEF OSUnlockMutex
    <3> QED  BY <3>1, BusyTopFacts DEF Quiet, Barrier
  <2>3. links' = links /\ state' = state
    BY <1>2 DEF OSUnlockMutex
  <2>4. prio' = prio \/ \E p : prio' = [prio EXCEPT ![exec] = p]
    BY <1>2 DEF OSUnlockMutex
  <2>5. \A u \in Thread : state[u] = "waiting" => prio'[u] = prio[u]
    BY <2>1, <2>2, <2>4
  <2> QED  BY <2>3, <2>5, KeptLinks
<1> QED  BY <1>1, <1>2

LEMMA LifeKeepsLinks ==
  ASSUME IInv, OSExitThread \/ ExitReschedule \/ OSJoinThread \/ JoinReturn \/ OSDetachThread
  PROVE  LinkStep
<1>1. /\ state \in [Thread -> {"none", "ready", "running", "waiting", "moribund"}]
      /\ exec \in Thread
  BY DEF IInv, TypeOK
<1>2. links' = links /\ prio' = prio
  BY DEF OSExitThread, ExitReschedule, OSJoinThread, JoinReturn, OSDetachThread, threadVars
<1>3. state' = state \/ \E t, x : x # "waiting" /\ state' = [state EXCEPT ![t] = x]
  BY DEF OSExitThread, Terminate, ExitReschedule, OSJoinThread, JoinReturn, OSDetachThread,
         Reap, threadVars
<1>4. \A u \in Thread : state'[u] = "waiting" => state[u] = "waiting"
  BY <1>1, <1>3
<1> QED  BY <1>2, <1>4, KeptLinks

\* A thread that does not wait moves on or off the run queues.
LEMMA RunQueueMove ==
  ASSUME IInv, NEW t \in Thread, state[t] # "waiting", state'[t] # "waiting",
         WellFormed(links', QueueId, Thread),
         \A q \in WaitQueueId : links'.queue[q] = links.queue[q],
         \A u \in Thread \ {t} :
           state'[u] = state[u] /\ links'.at[u] = links.at[u] /\ prio'[u] = prio[u],
         links'.at[t] = Null => links.at[t] = Null \/ t \in In(links, links.at[t])
  PROVE  LinkStep
<1>1. \A q \in WaitQueueId : t \notin In(links, q)
  BY LinkedFacts
<1>2. \A q \in WaitQueueId : In(links', q) = In(links, q)
  BY DEF In
<1>3. \A q \in WaitQueueId :
        /\ In(links', q) \subseteq In(links, q)
        /\ SortedBy(links.queue[q], prio) => SortedBy(links'.queue[q], prio)
        /\ \A u \in In(links, q) : u # t => u \in In(links', q)
  BY <1>2
<1>4. \A q \in WaitQueueId : t \in In(links', q) => prio'[t] = prio[t]
  BY <1>1, <1>2
<1>5. \A u \in Thread \ {t} :
        /\ state'[u] = "waiting" => state[u] = "waiting"
        /\ links'.at[u] = links.at[u]
        /\ prio'[u] = prio[u]
  OBVIOUS
<1> QED  BY <1>3, <1>4, <1>5, OneLeaves

LEMMA QueuesWellFormed ==
  ASSUME IInv'
  PROVE  WellFormed(links', QueueId, Thread)
BY DEF IInv, QueueInv, TypeOK, PendingMaskExact, LinkedOnce, WellFormed

LEMMA DispatchLinks ==
  ASSUME IInv, IInv', Dispatch
  PROVE  LinkStep
<1> DEFINE p == CHOOSE q \in links.pending : \A r \in links.pending : q <= r
           t == Head(links.queue[p])
           M == ClearPointer(UpdatePending(PopHead(links, p), p), t)
<1>1. At({"Dispatch"}) /\ links.pending # {}
  BY DEF Dispatch, IInv, ControlInv, DispatchNext
<1>2. WellFormed(links, QueueId, Thread) /\ WellFormed(links', QueueId, Thread)
  BY LinkedFacts, QueuesWellFormed
<1>3. p \in Priority /\ p \in links.pending
  <2>1. links.pending \in SUBSET Nat /\ links.pending \subseteq Priority
    BY <1>2, PriorityFacts DEF WellFormed
  <2>2. \E x \in links.pending : \A y \in links.pending : x <= y
    BY <1>1, <2>1, LeastElement
  <2> QED  BY <2>1, <2>2
<1>4. links.queue[p] # << >>
  BY <1>2, <1>3 DEF WellFormed
<1> HIDE DEF p
<1>5. /\ t \in Thread /\ t \in In(links, p) /\ M.at = [links.at EXCEPT ![t] = Null]
  <2>1. t = Head(links.queue[p]) /\ M = ClearPointer(UpdatePending(PopHead(links, p), p), t)
    OBVIOUS
  <2>2. Priority \subseteq QueueId
    BY AddressFacts
  <2> HIDE DEF t, M
  <2> QED  BY <1>2, <1>3, <1>4, <2>1, <2>2, DispatchFacts
<1>6. OnRunQueue(t) /\ links.at[t] = p
  BY <1>3, <1>5, AddressFacts, LinkedFacts
<1>7. ~ Dead(t) /\ state[t] # "waiting"
  BY <1>6 DEF OnRunQueue, Dead
<1>8. links' = M /\ state' = [state EXCEPT ![t] = "running"] /\ prio' = prio
  BY <1>1, <1>4, <1>7 DEF Dispatch, p
<1>9. \A q \in WaitQueueId : links'.queue[q] = links.queue[q]
  <2>1. links'.queue = [links.queue EXCEPT ![p] = Tail(@)]
    BY <1>8 DEF ClearPointer, UpdatePending, PopHead
  <2>2. links.queue \in [QueueId -> Seq(Thread)]
    BY <1>2 DEF WellFormed
  <2> QED  BY <1>3, <2>1, <2>2, AddressFacts
<1> HIDE DEF M, t
<1>10. /\ state \in [Thread -> {"none", "ready", "running", "waiting", "moribund"}]
       /\ links.at \in [Thread -> QueueId \cup {Null}]
  BY <1>2 DEF IInv, TypeOK, WellFormed
<1>11. /\ state'[t] # "waiting"
       /\ \A u \in Thread \ {t} :
            state'[u] = state[u] /\ links'.at[u] = links.at[u] /\ prio'[u] = prio[u]
  BY <1>5, <1>8, <1>10
<1> QED  BY <1>2, <1>5, <1>6, <1>7, <1>9, <1>11, RunQueueMove

LEMMA SelectLeavesLinks ==
  ASSUME IInv, IInv', SelectLeaves
  PROVE  LinkStep
<1>1. /\ running = exec /\ exec \in Thread
      /\ state \in [Thread -> {"none", "ready", "running", "waiting", "moribund"}]
      /\ WellFormed(links, QueueId, Thread) /\ WellFormed(links', QueueId, Thread)
  <2>1. At({"Select", "SelectForced"}) /\ ~ SelectRefused
    BY DEF SelectLeaves
  <2> QED  BY <2>1, LeavePlace, LinkedFacts, QueuesWellFormed DEF IInv, TypeOK
<1>2. CASE state[exec] # "running"
  <2>1. UNCHANGED << links, state, prio >>
    BY <1>1, <1>2 DEF SelectLeaves
  <2> QED  BY <2>1, KeptLinks
<1>3. CASE state[exec] = "running"
  <2> DEFINE p == prio[exec]
  <2>1. /\ links' = LinkOnRunQueue(links, exec, p)
        /\ state' = [state EXCEPT ![exec] = "ready"] /\ prio' = prio
    BY <1>1, <1>3 DEF SelectLeaves
  <2>2. p \in Priority
    BY <1>1, <1>3 DEF IInv, QueueInv, Placed, Dead
  <2> HIDE DEF p
  <2>3. /\ links'.queue = [links.queue EXCEPT ![p] = Append(@, exec)]
        /\ links'.at = [links.at EXCEPT ![exec] = p]
    BY <2>1 DEF LinkOnRunQueue
  <2>4. links.queue \in [QueueId -> Seq(Thread)] /\ links.at \in [Thread -> QueueId \cup {Null}]
    BY <1>1 DEF WellFormed
  <2>5. \A q \in WaitQueueId : links'.queue[q] = links.queue[q]
    BY <2>2, <2>3, <2>4, AddressFacts
  <2>6. /\ state'[exec] # "waiting" /\ links'.at[exec] # Null
        /\ \A u \in Thread \ {exec} :
             state'[u] = state[u] /\ links'.at[u] = links.at[u] /\ prio'[u] = prio[u]
    BY <1>1, <2>1, <2>2, <2>3, <2>4, AddressFacts
  <2> QED  BY <1>1, <1>3, <2>5, <2>6, RunQueueMove
<1> QED  BY <1>2, <1>3

LEMMA OSWakeupThreadLinks ==
  ASSUME IInv, IInv', OSWakeupThread
  PROVE  LinkStep
<1> DEFINE q == Arg
           t == Head(links.queue[q])
           K == PopHead(links, q)
           p == IF prio[t] \in Priority THEN prio[t] ELSE LowestPriority
<1>1. /\ q \in WaitQueueId /\ q \in QueueId /\ q \notin Priority /\ links.queue[q] # << >>
      /\ WellFormed(links, QueueId, Thread) /\ WellFormed(links', QueueId, Thread)
  <2>1. At({"OSWakeupThread", "WakeupLinked"}) /\ links.queue[q] # << >>
    BY DEF OSWakeupThread
  <2>2. q \in WaitQueueId
    BY <2>1, TopFacts, ArgFacts DEF Arg
  <2> QED  BY <2>1, <2>2, AddressFacts, LinkedFacts, QueuesWellFormed
<1> HIDE DEF q
<1>2. /\ WellFormed(K, QueueId, Thread) /\ Removed(K, links, t, QueueId) /\ K.at = links.at
      /\ t \in Thread /\ t \in In(links, q)
  BY <1>1, AddressFacts, PopHeadFacts
<1>3. K.queue = [links.queue EXCEPT ![q] = Tail(@)]
  BY DEF PopHead
<1>4. state[t] = "waiting" /\ links.at[t] = q /\ ~ Dead(t)
  BY <1>1, <1>2, LinkedFacts DEF Dead
<1>5. p \in Priority
  BY PriorityFacts
<1>6. links' = K \/ links' = LinkOnRunQueue(K, t, p)
  BY <1>4 DEF OSWakeupThread, q
<1>7. state' = [state EXCEPT ![t] = "ready"] /\ prio' = prio
  BY <1>4 DEF OSWakeupThread, q
<1> HIDE DEF t, K, p
<1>8. \A r \in WaitQueueId : links'.queue[r] = K.queue[r]
  <2>1. CASE links' = LinkOnRunQueue(K, t, p)
    <3>1. links'.queue = [K.queue EXCEPT ![p] = Append(@, t)]
      BY <2>1 DEF LinkOnRunQueue
    <3>2. K.queue \in [QueueId -> Seq(Thread)]
      BY <1>2 DEF WellFormed
    <3> QED  BY <1>5, <3>1, <3>2, AddressFacts
  <2> QED  BY <1>6, <2>1
<1>9. \A r \in WaitQueueId :
        /\ In(links', r) = In(links, r) \ {t}
        /\ SortedBy(links.queue[r], prio) => SortedBy(links'.queue[r], prio)
  <2>1. SUFFICES ASSUME NEW r \in WaitQueueId
                 PROVE  /\ In(links', r) = In(links, r) \ {t}
                        /\ SortedBy(links.queue[r], prio) => SortedBy(links'.queue[r], prio)
    OBVIOUS
  <2>2. r \in QueueId /\ links.queue \in [QueueId -> Seq(Thread)]
    BY <1>1, AddressFacts DEF WellFormed
  <2>3. In(links', r) = In(links, r) \ {t}
    BY <1>2, <1>8, <2>2 DEF In, Removed
  <2>4. \/ links'.queue[r] = links.queue[r]
        \/ r = q /\ links'.queue[r] = Tail(links.queue[q])
    BY <1>3, <1>8, <2>2
  <2>5. links.queue[q] \in Seq(Thread)
    BY <1>1, <2>2
  <2>6. SortedBy(links.queue[q], prio) => SortedBy(Tail(links.queue[q]), prio)
    BY <1>1, <2>5, SortedTail
  <2> QED  BY <2>3, <2>4, <2>6
<1>10. /\ links'.at[t] # Null
       /\ \A u \in Thread \ {t} : links'.at[u] = links.at[u]
  <2>1. links.at \in [Thread -> QueueId \cup {Null}]
    BY <1>1 DEF WellFormed
  <2>2. links'.at = links.at \/ links'.at = [links.at EXCEPT ![t] = p]
    BY <1>2, <1>6 DEF LinkOnRunQueue
  <2> QED  BY <1>1, <1>2, <1>4, <1>5, <2>1, <2>2, AddressFacts
<1>11. /\ state'[t] # "waiting"
       /\ \A u \in Thread \ {t} : /\ state'[u] = "waiting" => state[u] = "waiting"
                                  /\ links'.at[u] = links.at[u]
                                  /\ prio'[u] = prio[u]
  BY <1>2, <1>7, <1>10 DEF IInv, TypeOK
<1>12. \A r \in WaitQueueId :
         /\ In(links', r) \subseteq In(links, r)
         /\ SortedBy(links.queue[r], prio) => SortedBy(links'.queue[r], prio)
         /\ \A u \in In(links, r) : u # t => u \in In(links', r)
  BY <1>9
<1>13. \A r \in WaitQueueId : t \in In(links', r) => prio'[t] = prio[t]
  BY <1>9
<1> QED  BY <1>1, <1>2, <1>10, <1>11, <1>12, <1>13, OneLeaves

LEMMA UnlinkElsewhere ==
  ASSUME NEW L, WellFormed(L, QueueId, Thread), NEW t \in Thread, NEW r \in QueueId,
         r # L.at[t]
  PROVE  Unlink(L, t).queue[r] = L.queue[r]
<1>1. L.queue \in [QueueId -> Seq(Thread)] /\ L.at \in [Thread -> QueueId \cup {Null}]
  BY DEF WellFormed
<1>2. L.at[t] # Null =>
        Unlink(L, t).queue = [L.queue EXCEPT ![L.at[t]] = RemoveFirst(L.queue[L.at[t]], t)]
  BY DEF Unlink, UpdatePending
<1>3. L.at[t] = Null => Unlink(L, t) = L
  BY DEF Unlink
<1> QED  BY <1>1, <1>2, <1>3

\* SetThreadEffectivePriority moves a waiter to its new place.
LEMMA SetPriorityLinks ==
  ASSUME IInv, IInv', NEW t \in Thread, NEW p \in Priority, suspend[t] = 0,
         SetPriority(t, p), state' = state
  PROVE  LinkStep
<1>1. /\ prio \in [Thread -> Nat] /\ p \in Nat
      /\ WellFormed(links, QueueId, Thread) /\ WellFormed(links', QueueId, Thread)
      /\ links.at \in [Thread -> QueueId \cup {Null}]
  BY LinkedFacts, QueuesWellFormed, PriorityFacts DEF WellFormed
<1>2. prio' \in [Thread -> Nat] /\ \A u \in Thread \ {t} : prio'[u] = prio[u]
  BY <1>1 DEF SetPriority
<1>3. CASE state[t] = "waiting"
  <2>1. links.at[t] # Null
    BY <1>3, LinkedFacts, AddressFacts
  <2>2. links' = InsertByPriority(Unlink(links, t), links.at[t], t, p, prio)
    BY <1>3, <2>1 DEF SetPriority
  <2>3. prio'[t] = p
    BY <1>1, <1>3 DEF SetPriority
  <2> QED  BY <1>2, <1>3, <2>2, <2>3, WaiterResorted
<1>4. CASE state[t] = "ready"
  <2> DEFINE K == Unlink(links, t)
  <2>1. OnRunQueue(t) /\ links.at[t] \in Priority
    <3>1. Placed(t) /\ OnRunQueue(t)
      BY <1>4 DEF IInv, QueueInv, OnRunQueue
    <3> QED  BY <3>1, LinkedFacts DEF Placed
  <2>2. links' = InsertByPriority(K, p, t, p, prio)
    BY <1>4 DEF SetPriority
  <2>3. WellFormed(K, QueueId, Thread) /\ K.at = [links.at EXCEPT ![t] = Null]
    BY <1>1, AddressFacts, UnlinkFacts
  <2>4. \A q \in WaitQueueId : K.queue[q] = links.queue[q]
    BY <1>1, <2>1, AddressFacts, UnlinkElsewhere
  <2> HIDE DEF K
  <2>5. /\ links'.queue = [K.queue EXCEPT ![p] = InsertAt(@, InsertPosition(@, p, prio), t)]
        /\ links'.at = [K.at EXCEPT ![t] = p]
    BY <2>2 DEF InsertByPriority
  <2>6. K.queue \in [QueueId -> Seq(Thread)]
    BY <2>3 DEF WellFormed
  <2>7. \A q \in WaitQueueId : links'.queue[q] = links.queue[q]
    BY <2>4, <2>5, <2>6, AddressFacts
  <2>8. links'.at[t] # Null /\ \A u \in Thread \ {t} : links'.at[u] = links.at[u]
    BY <1>1, <2>3, <2>5, AddressFacts
  <2>9. \A u \in Thread \ {t} :
          state'[u] = state[u] /\ links'.at[u] = links.at[u] /\ prio'[u] = prio[u]
    BY <1>2, <2>8
  <2> QED  BY <1>1, <1>4, <2>7, <2>8, <2>9, RunQueueMove
<1>5. CASE state[t] \notin {"ready", "waiting"}
  <2>1. links' = links
    BY <1>5 DEF SetPriority
  <2>2. \A u \in Thread : state[u] = "waiting" => prio'[u] = prio[u]
    BY <1>2, <1>5
  <2> QED  BY <2>1, <2>2, KeptLinks
<1> QED  BY <1>3, <1>4, <1>5

LEMMA PromoteLinks ==
  ASSUME IInv, IInv', Promote
  PROVE  LinkStep
<1>1. At({"Promote"}) /\ state' = state
  BY DEF Promote
<1>2. exec \in Thread /\ prio[exec] \in Priority /\ Arg \in Thread \cup {Null}
  BY <1>1, TopFacts, BusyTopFacts, ArgFacts DEF Quiet, Barrier, Arg
<1>3. CASE Arg = Null \/ suspend[Arg] > 0 \/ prio[Arg] <= prio[exec]
  <2>1. UNCHANGED << links, prio >>
    BY <1>3 DEF Promote
  <2> QED  BY <1>1, <2>1, KeptLinks
<1>4. CASE ~ (Arg = Null \/ suspend[Arg] > 0 \/ prio[Arg] <= prio[exec])
  <2>1. Arg \in Thread /\ suspend[Arg] = 0 /\ SetPriority(Arg, prio[exec])
    BY <1>2, <1>4 DEF Promote, IInv, TypeOK
  <2> QED  BY <1>1, <1>2, <2>1, SetPriorityLinks
<1> QED  BY <1>3, <1>4

LEMMA PropagateLinks ==
  ASSUME IInv, IInv', Propagate
  PROVE  LinkStep
<1>1. At({"Propagate"}) /\ state' = state
  BY DEF Propagate
<1>2. Arg \in Thread \cup {Null}
  BY <1>1, TopFacts, ArgFacts DEF Arg
<1>3. CASE Arg = Null \/ suspend[Arg] > 0 \/ prio[Arg] = EffectivePriority(Arg)
  <2>1. UNCHANGED << links, prio >>
    BY <1>3 DEF Propagate
  <2> QED  BY <1>1, <2>1, KeptLinks
<1>4. CASE ~ (Arg = Null \/ suspend[Arg] > 0 \/ prio[Arg] = EffectivePriority(Arg))
  <2>1. Arg \in Thread /\ suspend[Arg] = 0 /\ SetPriority(Arg, EffectivePriority(Arg))
    BY <1>2, <1>4 DEF Propagate, IInv, TypeOK
  <2>2. EffectivePriority(Arg) \in Priority
    BY <2>1, EffectivePriorityType DEF IInv
  <2> QED  BY <1>1, <2>1, <2>2, SetPriorityLinks
<1> QED  BY <1>3, <1>4

LEMMA OSSuspendThreadLinks ==
  ASSUME IInv, IInv', OSSuspendThread
  PROVE  LinkStep
<1> DEFINE t == Arg
<1>1. t \in Thread
  <2>1. At({"OSSuspendThread"})
    BY DEF OSSuspendThread
  <2> QED  BY <2>1, TopFacts, ArgFacts DEF Arg, ThreadCall
<1>2. /\ prio \in [Thread -> Nat] /\ SuspendedWaitPriority \in Nat
      /\ WellFormed(links, QueueId, Thread) /\ WellFormed(links', QueueId, Thread)
      /\ links.at \in [Thread -> QueueId \cup {Null}]
      /\ state \in [Thread -> {"none", "ready", "running", "waiting", "moribund"}]
  BY LinkedFacts, QueuesWellFormed, PriorityFacts DEF WellFormed, IInv, TypeOK
<1>3. /\ \A u \in Thread \ {t} : state'[u] = state[u] /\ prio'[u] = prio[u]
      /\ state'[t] # state[t] => state'[t] = "ready" /\ state[t] = "running"
  BY <1>1, <1>2 DEF OSSuspendThread
<1>4. CASE suspend[t] = 0 /\ state[t] = "waiting"
  <2>1. links.at[t] # Null /\ ~ OnRunQueue(t)
    BY <1>1, <1>4, LinkedFacts, AddressFacts DEF OnRunQueue
  <2>2. prio' = [prio EXCEPT ![t] = SuspendedWaitPriority]
    BY <1>4 DEF OSSuspendThread
  <2>3. links' = InsertByPriority(Unlink(links, t), links.at[t], t, SuspendedWaitPriority, prio)
    BY <1>4, <2>1 DEF OSSuspendThread
  <2>4. prio'[t] = SuspendedWaitPriority /\ prio' \in [Thread -> Nat]
    BY <1>1, <1>2, <2>2
  <2>5. \A u \in Thread : state'[u] = "waiting" => state[u] = "waiting"
    BY <1>3, <1>4
  <2> HIDE DEF t
  <2> QED  BY <1>1, <1>3, <1>4, <2>3, <2>4, <2>5, WaiterResorted
<1>5. CASE OnRunQueue(t)
  <2>1. links' = Unlink(links, t)
    BY <1>5 DEF OSSuspendThread, OnRunQueue
  <2>2. links.at[t] \in Priority /\ t \in In(links, links.at[t])
    <3>1. Placed(t)
      BY <1>1 DEF IInv, QueueInv
    <3> QED  BY <1>1, <1>5, <3>1, LinkedFacts DEF Placed
  <2>3. \A q \in WaitQueueId : links'.queue[q] = links.queue[q]
    BY <1>1, <1>2, <2>1, <2>2, AddressFacts, UnlinkElsewhere
  <2>4. links'.at = [links.at EXCEPT ![t] = Null]
    BY <1>1, <1>2, <2>1, AddressFacts, UnlinkFacts
  <2>5. state[t] # "waiting" /\ state'[t] # "waiting"
    BY <1>3, <1>5 DEF OnRunQueue
  <2>6. \A u \in Thread \ {t} :
          state'[u] = state[u] /\ links'.at[u] = links.at[u] /\ prio'[u] = prio[u]
    BY <1>2, <1>3, <2>4
  <2> HIDE DEF t
  <2> QED  BY <1>1, <1>2, <2>2, <2>3, <2>5, <2>6, RunQueueMove
<1>6. CASE ~ OnRunQueue(t) /\ ~ (suspend[t] = 0 /\ state[t] = "waiting")
  <2>1. links' = links /\ prio' = prio
    BY <1>6 DEF OSSuspendThread
  <2>2. \A u \in Thread : state'[u] = "waiting" => state[u] = "waiting"
    BY <1>3
  <2> QED  BY <2>1, <2>2, KeptLinks
<1> QED  BY <1>4, <1>5, <1>6

LEMMA OSResumeThreadLinks ==
  ASSUME IInv, IInv', OSResumeThread
  PROVE  LinkStep
<1> DEFINE t == Arg
           p == EffectivePriority(t)
<1>1. t \in Thread
  <2>1. At({"OSResumeThread"})
    BY DEF OSResumeThread
  <2> QED  BY <2>1, TopFacts, ArgFacts DEF Arg, ThreadCall
<1>2. /\ prio \in [Thread -> Nat]
      /\ WellFormed(links, QueueId, Thread) /\ WellFormed(links', QueueId, Thread)
      /\ links.at \in [Thread -> QueueId \cup {Null}]
      /\ state \in [Thread -> {"none", "ready", "running", "waiting", "moribund"}]
  BY LinkedFacts, QueuesWellFormed DEF WellFormed, IInv, TypeOK
<1>3. p \in Priority /\ p \in Nat
  BY <1>1, EffectivePriorityType, PriorityFacts DEF IInv
<1>4. /\ \A u \in Thread \ {t} : state'[u] = state[u] /\ prio'[u] = prio[u]
      /\ state'[t] # state[t] => state'[t] = "ready" /\ state[t] \in {"ready", "running"}
  BY <1>1, <1>2 DEF OSResumeThread
<1>5. CASE suspend[t] = 1 /\ state[t] = "waiting"
  <2>1. links.at[t] # Null
    BY <1>1, <1>5, LinkedFacts, AddressFacts
  <2>2. prio' = [prio EXCEPT ![t] = p]
    BY <1>5 DEF OSResumeThread
  <2>3. links' = InsertByPriority(Unlink(links, t), links.at[t], t, p, prio)
    BY <1>5, <2>1 DEF OSResumeThread
  <2>4. prio'[t] = p /\ prio' \in [Thread -> Nat]
    BY <1>1, <1>2, <1>3, <2>2
  <2>5. \A u \in Thread : state'[u] = "waiting" => state[u] = "waiting"
    BY <1>4, <1>5
  <2> HIDE DEF t, p
  <2> QED  BY <1>1, <1>4, <1>5, <2>3, <2>4, <2>5, WaiterResorted
<1>6. CASE suspend[t] = 1 /\ state[t] \in {"ready", "running"}
  <2>1. links' = InsertByPriority(links, p, t, p, prio)
    BY <1>6 DEF OSResumeThread
  <2>2. /\ links'.queue = [links.queue EXCEPT ![p] = InsertAt(@, InsertPosition(@, p, prio), t)]
        /\ links'.at = [links.at EXCEPT ![t] = p]
    BY <2>1 DEF InsertByPriority
  <2>3. links.queue \in [QueueId -> Seq(Thread)]
    BY <1>2 DEF WellFormed
  <2> HIDE DEF p
  <2>4. \A q \in WaitQueueId : links'.queue[q] = links.queue[q]
    BY <1>3, <2>2, <2>3, AddressFacts
  <2>5. /\ state[t] # "waiting" /\ state'[t] # "waiting" /\ links'.at[t] # Null
        /\ \A u \in Thread \ {t} : links'.at[u] = links.at[u]
    BY <1>1, <1>2, <1>3, <1>4, <1>6, <2>2, AddressFacts
  <2> HIDE DEF t
  <2> QED  BY <1>1, <1>2, <1>4, <2>4, <2>5, RunQueueMove
<1>7. CASE ~ (suspend[t] = 1 /\ state[t] \in {"ready", "running", "waiting"})
  <2>1. links' = links /\ prio' = prio
    BY <1>7 DEF OSResumeThread
  <2>2. \A u \in Thread : state'[u] = "waiting" => state[u] = "waiting"
    BY <1>4
  <2> QED  BY <2>1, <2>2, KeptLinks
<1> QED  BY <1>5, <1>6, <1>7

LEMMA OSCancelThreadLinks ==
  ASSUME IInv, IInv', OSCancelThread
  PROVE  LinkStep
<1> DEFINE t == Arg
<1>1. t \in Thread
  <2>1. At({"OSCancelThread"})
    BY DEF OSCancelThread
  <2> QED  BY <2>1, TopFacts, ArgFacts DEF Arg, ThreadCall
<1>2. /\ WellFormed(links, QueueId, Thread) /\ WellFormed(links', QueueId, Thread)
      /\ links.at \in [Thread -> QueueId \cup {Null}]
      /\ state \in [Thread -> {"none", "ready", "running", "waiting", "moribund"}]
      /\ prio' = prio
  BY LinkedFacts, QueuesWellFormed DEF WellFormed, IInv, TypeOK, OSCancelThread
<1>3. CASE Dead(t)
  <2>1. UNCHANGED << links, state, prio >>
    BY <1>2, <1>3 DEF OSCancelThread
  <2> QED  BY <2>1, KeptLinks
<1>4. CASE ~ Dead(t)
  <2>1. /\ state'[t] # "waiting" /\ \A u \in Thread \ {t} : state'[u] = state[u]
    BY <1>1, <1>2, <1>4 DEF OSCancelThread, Terminate
  <2>2. CASE state[t] # "waiting" /\ ~ OnRunQueue(t)
    <3>1. links' = links
      BY <1>4, <2>2 DEF OSCancelThread
    <3>2. \A u \in Thread : state'[u] = "waiting" => state[u] = "waiting"
      BY <2>1
    <3> QED  BY <1>2, <3>1, <3>2, KeptLinks
  <2>3. CASE state[t] = "waiting" \/ OnRunQueue(t)
    <3>1. links' = Unlink(links, t)
      BY <1>4, <2>3 DEF OSCancelThread
    <3>2. links'.at = [links.at EXCEPT ![t] = Null] /\ Removed(links', links, t, QueueId)
      BY <1>1, <1>2, <3>1, AddressFacts, UnlinkFacts
    <3>3. \A u \in Thread \ {t} :
            state'[u] = state[u] /\ links'.at[u] = links.at[u] /\ prio'[u] = prio[u]
      BY <1>2, <2>1, <3>2
    <3> HIDE DEF t
    <3>4. CASE OnRunQueue(t)
      <4>1. links.at[t] \in Priority /\ t \in In(links, links.at[t])
        <5>1. Placed(t)
          BY <1>1 DEF IInv, QueueInv
        <5> QED  BY <1>1, <3>4, <5>1, LinkedFacts DEF Placed
      <4>2. \A q \in WaitQueueId : links'.queue[q] = links.queue[q]
        BY <1>1, <1>2, <3>1, <4>1, AddressFacts, UnlinkElsewhere
      <4>3. state[t] # "waiting"
        BY <3>4 DEF OnRunQueue
      <4> QED  BY <1>1, <1>2, <2>1, <3>3, <4>1, <4>2, <4>3, RunQueueMove
    <3>5. CASE state[t] = "waiting"
      <4>1. \A q \in WaitQueueId :
              SortedBy(links.queue[q], prio) => SortedBy(links'.queue[q], prio)
        <5>1. SUFFICES ASSUME NEW q \in WaitQueueId, SortedBy(links.queue[q], prio)
                       PROVE  SortedBy(links'.queue[q], prio)
          OBVIOUS
        <5>2. q \in QueueId /\ links.queue[q] \in Seq(Thread)
          BY <1>2, AddressFacts DEF WellFormed
        <5>3. links'.queue[q] = RemoveFirst(links.queue[q], t)
          BY <1>1, <1>2, <3>1, <5>2, UnlinkQueues
        <5>4. SortedBy(RemoveFirst(links.queue[q], t), prio)
          BY <5>1, <5>2, SortedRemove
        <5> QED  BY <5>3, <5>4
      <4>2. \A q \in WaitQueueId : In(links', q) = In(links, q) \ {t}
        BY <3>2, AddressFacts DEF Removed
      <4>3. \A q \in WaitQueueId :
              /\ In(links', q) \subseteq In(links, q)
              /\ SortedBy(links.queue[q], prio) => SortedBy(links'.queue[q], prio)
              /\ \A u \in In(links, q) : u # t => u \in In(links', q)
        BY <4>1, <4>2
      <4>4. \A q \in WaitQueueId : t \in In(links', q) => prio'[t] = prio[t]
        BY <4>2
      <4>5. \A u \in Thread \ {t} :
              /\ state'[u] = "waiting" => state[u] = "waiting"
              /\ links'.at[u] = links.at[u]
              /\ prio'[u] = prio[u]
        BY <3>3
      <4> QED  BY <1>1, <1>2, <2>1, <3>5, <4>3, <4>4, <4>5, OneLeaves
    <3> QED  BY <2>3, <3>4, <3>5
  <2> QED  BY <2>2, <2>3
<1> QED  BY <1>3, <1>4

LEMMA OSSleepThreadLinks ==
  ASSUME IInv, OSSleepThread
  PROVE  LinkStep
<1> DEFINE q == Arg
           t == exec
           p == prio[t]
<1>1. At({"OSSleepThread"}) /\ q \in WaitQueueId /\ t \in Thread
  <2>1. At({"OSSleepThread"})
    BY DEF OSSleepThread
  <2> QED  BY <2>1, TopFacts, ArgFacts DEF Arg
<1>2. running = t /\ disable = 0 /\ (\A r \in QueueId : t \notin In(links, r)) /\ t # Null
  BY <1>1, BusyTopFacts, AddressFacts DEF Quiet, Barrier
<1>3. /\ state' = [state EXCEPT ![t] = "waiting"] /\ prio' = prio
      /\ links' = InsertByPriority(links, q, t, p, prio)
  BY <1>2 DEF OSSleepThread
<1>4. /\ prio \in [Thread -> Nat] /\ WellFormed(links, QueueId, Thread)
      /\ links.at \in [Thread -> QueueId \cup {Null}] /\ q \in QueueId /\ q # Null
      /\ state \in [Thread -> {"none", "ready", "running", "waiting", "moribund"}]
  <2>1. state \in [Thread -> {"none", "ready", "running", "waiting", "moribund"}]
    BY DEF IInv, TypeOK
  <2>2. q \in QueueId /\ q # Null
    BY <1>1, AddressFacts
  <2> QED  BY <2>1, <2>2, LinkedFacts
<1>5. Added(links', links, q, t, QueueId)
  <2> HIDE DEF t, q, p
  <2>1. Priority \subseteq QueueId /\ Null \notin QueueId
    BY AddressFacts
  <2> QED  BY <1>1, <1>2, <1>3, <1>4, <2>1, InsertByPriorityFacts
<1>6. \A r \in QueueId : links.queue[r] = RemoveFirst(links.queue[r], t)
  <2>1. SUFFICES ASSUME NEW r \in QueueId
                 PROVE  links.queue[r] = RemoveFirst(links.queue[r], t)
    OBVIOUS
  <2>2. ~ \E i \in 1 .. Len(links.queue[r]) : links.queue[r][i] = t
    BY <1>2, <1>4 DEF In, ToSet, WellFormed
  <2> QED  BY <2>2 DEF RemoveFirst
<1>7. SortStep
  <2>1. p = prio'[t] /\ \A u \in Thread \ {t} : prio'[u] = prio[u]
    BY <1>3
  <2>2. links' = InsertByPriority(links, q, t, prio'[t], prio) /\ prio' \in [Thread -> Nat]
    BY <1>3, <1>4, <2>1
  <2> HIDE DEF t, q, p
  <2>3. WaitSorted(links, prio) => WaitSorted(links', prio')
    BY <1>1, <1>2, <1>4, <1>6, <2>1, <2>2, InsertSorts
  <2> QED  BY <2>3 DEF SortStep
<1>8. /\ links'.at[t] = q /\ t \in In(links', q)
      /\ \A u \in Thread \ {t} : links'.at[u] = links.at[u] /\ state'[u] = state[u]
      /\ \A r \in QueueId : \A u \in Thread \ {t} : u \in In(links', r) <=> u \in In(links, r)
      /\ \A r \in QueueId : t \in In(links', r) => r = q
      /\ \A r \in QueueId : \A u \in In(links', r) : u \in In(links, r) \/ (u = t /\ r = q)
  BY <1>1, <1>2, <1>3, <1>4, <1>5 DEF Added
<1>9. EnterStep
  <2>1. SUFFICES ASSUME NEW r \in WaitQueueId, NEW u \in In(links', r)
                 PROVE  \/ state[u] = "waiting" /\ links.at[u] = r
                        \/ At({"OSSleepThread"}) /\ Arg = r /\ u = exec
    BY DEF EnterStep
  <2>2. u \in In(links, r) \/ (u = t /\ r = q)
    BY <1>8, <2>1, AddressFacts
  <2>3. u \in In(links, r) => state[u] = "waiting" /\ links.at[u] = r
    BY AddressFacts, LinkedFacts
  <2> QED  BY <1>1, <2>2, <2>3
<1>10. StayStep
  <2>1. SUFFICES ASSUME NEW u \in Thread, state'[u] = "waiting"
                 PROVE  \/ u \in In(links', links'.at[u])
                        \/ /\ state[u] = "waiting" /\ links'.at[u] = links.at[u]
                           /\ u \notin In(links, links.at[u])
    BY DEF StayStep
  <2>2. CASE u # t
    <3>1. state[u] = "waiting" /\ links'.at[u] = links.at[u] /\ links.at[u] \in QueueId
      BY <1>8, <2>1, <2>2, LinkedFacts, AddressFacts
    <3> QED  BY <1>8, <2>2, <3>1
  <2> QED  BY <1>8, <2>2
<1>11. ClearStep
  BY <1>4, <1>8 DEF ClearStep
<1> QED  BY <1>7, <1>9, <1>10, <1>11 DEF LinkStep

LEMMA OSCreateThreadLinks ==
  ASSUME IInv, OSCreateThread
  PROVE  LinkStep
<1> DEFINE t == Arg
<1>1. At({"OSCreateThread"}) /\ t \in Thread /\ t \in QueueId
  <2>1. At({"OSCreateThread"})
    BY DEF OSCreateThread
  <2> QED  BY <2>1, TopFacts, ArgFacts, AddressFacts DEF Arg, ThreadCall
<1>2. Dead(t)
  BY <1>1 DEF IInv, ControlInv, CreateNext
<1>3. /\ links'.queue = [links.queue EXCEPT ![t] = << >>] /\ links'.at = links.at
      /\ prio' = [prio EXCEPT ![t] = BasePriority[t]]
      /\ state' = [state EXCEPT ![t] = "ready"]
  BY DEF OSCreateThread
<1>4. /\ prio \in [Thread -> Nat] /\ WellFormed(links, QueueId, Thread)
      /\ links.queue \in [QueueId -> Seq(Thread)]
      /\ state \in [Thread -> {"none", "ready", "running", "waiting", "moribund"}]
  BY LinkedFacts DEF WellFormed, IInv, TypeOK
<1>5. \A q \in WaitQueueId : links'.queue[q] = IF q = t THEN << >> ELSE links.queue[q]
  BY <1>1, <1>3, <1>4, AddressFacts
<1>6. \A q \in WaitQueueId : t \notin In(links, q)
  BY <1>2, AddressFacts, LinkedFacts DEF Dead
<1>7. \A q \in WaitQueueId : In(links', q) = IF q = t THEN {} ELSE In(links, q)
  BY <1>5 DEF In, ToSet
<1>8. SortStep
  <2>1. SUFFICES ASSUME NEW q \in WaitQueueId, SortedBy(links.queue[q], prio)
                 PROVE  SortedBy(links'.queue[q], prio')
    BY DEF SortStep, WaitSorted
  <2>2. CASE q = t
    BY <1>5, <2>2 DEF SortedBy
  <2>3. CASE q # t
    <3>1. links'.queue[q] = links.queue[q] /\ links.queue[q] \in Seq(Thread)
      BY <1>4, <1>5, <2>3, AddressFacts
    <3>2. \A u \in ToSet(links.queue[q]) : u \in Thread /\ u # t
      BY <1>6, <3>1, ElementOfSeq DEF In, ToSet
    <3>3. \A u \in ToSet(links.queue[q]) : prio'[u] = prio[u]
      BY <1>3, <1>4, <3>2
    <3> QED  BY <2>1, <3>1, <3>3, SortedAgain
  <2> QED  BY <2>2, <2>3
<1>9. EnterStep
  BY <1>7, AddressFacts, LinkedFacts DEF EnterStep
<1>10. StayStep
  <2>1. SUFFICES ASSUME NEW u \in Thread, state'[u] = "waiting",
                        u \notin In(links', links.at[u])
                 PROVE  /\ state[u] = "waiting"
                        /\ u \in In(links, links.at[u]) =>
                             At({"OSCreateThread"}) /\ Arg = links.at[u]
    BY <1>3 DEF StayStep
  <2>2. state[u] = "waiting"
    BY <1>1, <1>3, <1>4, <2>1
  <2>3. links.at[u] \in WaitQueueId
    BY <2>2, LinkedFacts
  <2> QED  BY <1>1, <1>7, <2>1, <2>2, <2>3
<1>11. ClearStep
  BY <1>3 DEF ClearStep
<1> QED  BY <1>8, <1>9, <1>10, <1>11 DEF LinkStep

\* What any step does to the wait queues.
LEMMA LinksStep ==
  ASSUME IInv, IInv', [Next]_vars
  PROVE  LinkStep
<1>1. CASE SleepStep
  BY <1>1, OSSleepThreadLinks, SleepKeepsLinks DEF SleepStep
<1>2. CASE SchedulerStep
  BY <1>2, SchedulerKeepsLinks, SelectLeavesLinks, DispatchLinks, OSWakeupThreadLinks
  DEF SchedulerStep
<1>3. CASE MutexStep
  BY <1>3, PromoteLinks, PropagateLinks, MutexKeepsLinks DEF MutexStep
<1>4. CASE LifeStep
  BY <1>4, OSCreateThreadLinks, OSSuspendThreadLinks, OSResumeThreadLinks,
     OSCancelThreadLinks, LifeKeepsLinks, NobodyReturns
  DEF LifeStep
<1>5. CASE CallbackStep \/ GuestCall \/ UNCHANGED vars
  BY <1>5, SchedulerKeepsLinks
<1> QED  BY <1>1, <1>2, <1>3, <1>4, <1>5 DEF Next, HleStep

-----------------------------------------------------------------------------
(* What a step does to the call chains.                                    *)

\* The frames that the invariants follow along a chain: those of a fiber that
\* decides to wait, comes back from a wait for a mutex, walks along the owners,
\* performs last rites, calls back, or wakes the waiters of a mutex.
Marked == Deciding \cup {"UnlockAll"}
Wakeups == {"OSWakeupThread", "WakeupLinked"}
Callbacks == {"Callback", "IdleCallback"}
Followed ==
  {f \in Frame : \/ f.op \in Marked \cup Callbacks \cup {"LockRetry", "Propagate"}
                 \/ f.op \in Wakeups /\ f.arg \in Mutex}

\* A step that adds no frame f to any chain, and takes at most the next one away;
\* a step that adds none that is one of ops.
AddsNo(f) ==
  /\ \A u \in Thread \ {exec} : stack'[u] = stack[u] \/ (stack'[u] = << >> /\ Dead(u)')
  /\ f \in ToSet(stack'[exec]) => stack[exec] # << >> /\ f \in ToSet(Tail(stack[exec]))
  /\ \A u \in Thread : u = exec /\ stack[u] # << >> /\ ~ Dead(u)' =>
       ToSet(Tail(stack[u])) \subseteq ToSet(stack'[u])

AddsNone(ops) ==
  /\ \A u \in Thread \ {exec} : stack'[u] \in {stack[u], << >>}
  /\ Has(stack'[exec], ops) => stack[exec] # << >> /\ Has(Tail(stack[exec]), ops)

LEMMA ContinueAdds ==
  ASSUME IInv, stack[exec] # << >>, NEW g \in Seq(Frame), Continue(g),
         NEW ops, \A i \in DOMAIN g : g[i].op \notin ops
  PROVE  AddsNone(ops)
<1>1. stack \in [Thread -> Seq(Frame)] /\ exec \in Thread /\ stack[exec] \in Seq(Frame)
  BY ChainNow
<1>2. /\ stack'[exec] = g \o Tail(stack[exec])
      /\ \A u \in Thread \ {exec} : stack'[u] = stack[u]
  BY <1>1, ContinueFacts DEF Replaces
<1>3. Has(g \o Tail(stack[exec]), ops) => Has(Tail(stack[exec]), ops)
  <2>1. ~ Has(g, ops)
    BY DEF Has
  <2> QED  BY <1>1, <2>1, HasReplace
<1> QED  BY <1>2, <1>3 DEF AddsNone

LEMMA PushAdds ==
  ASSUME IInv, NEW f \in Frame, stack' = [stack EXCEPT ![exec] = << f >> \o @],
         NEW ops, f.op \notin ops, stack[exec] = << >> \/ Head(stack[exec]).op \notin ops
  PROVE  AddsNone(ops)
<1>1. stack \in [Thread -> Seq(Frame)] /\ exec \in Thread /\ stack[exec] \in Seq(Frame)
  BY ChainNow
<1>2. stack'[exec] = << f >> \o stack[exec] /\ \A u \in Thread \ {exec} : stack'[u] = stack[u]
  BY <1>1
<1>3. Has(<< f >> \o stack[exec], ops) => Has(stack[exec], ops)
  BY <1>1, OnTopFacts
<1>4. Has(stack[exec], ops) => stack[exec] # << >> /\ Has(Tail(stack[exec]), ops)
  <2>1. << >> \in Seq(Frame) /\ ~ Has(<< >>, ops)
    BY DEF Has
  <2> QED  BY <1>1, <2>1, HasReplace
<1> QED  BY <1>2, <1>3, <1>4 DEF AddsNone

LEMMA ReturnAdds ==
  ASSUME IInv, stack[exec] # << >>, NEW ops
  PROVE  /\ Return => AddsNone(ops)
         /\ \A f \in Frame : f.op \notin ops /\ Continue(<< f >>) => AddsNone(ops)
         /\ \A f1, f2 \in Frame :
              f1.op \notin ops /\ f2.op \notin ops /\ Continue(<< f1, f2 >>) => AddsNone(ops)
<1>1. Return => AddsNone(ops)
  BY FramesFacts, ContinueAdds DEF Return
<1>2. ASSUME NEW f \in Frame, f.op \notin ops, Continue(<< f >>)
      PROVE  AddsNone(ops)
  <2>1. << f >> \in Seq(Frame) /\ \A i \in DOMAIN << f >> : << f >>[i].op \notin ops
    BY <1>2, FramesFacts
  <2> QED  BY <1>2, <2>1, ContinueAdds
<1>3. ASSUME NEW f1 \in Frame, NEW f2 \in Frame, f1.op \notin ops, f2.op \notin ops,
             Continue(<< f1, f2 >>)
      PROVE  AddsNone(ops)
  <2>1. << f1, f2 >> \in Seq(Frame) /\ \A i \in DOMAIN << f1, f2 >> : << f1, f2 >>[i] \in {f1, f2}
    BY FramesFacts
  <2>2. \A i \in DOMAIN << f1, f2 >> : << f1, f2 >>[i].op \notin ops
    BY <1>3, <2>1
  <2> QED  BY <1>3, <2>1, <2>2, ContinueAdds
<1> QED  BY <1>1, <1>2, <1>3

\* The frames of a chain that something is put on.
LEMMA ConcatSets ==
  ASSUME NEW g \in Seq(Frame), NEW s \in Seq(Frame)
  PROVE  ToSet(g \o s) = ToSet(g) \cup ToSet(s)
<1> DEFINE r == g \o s
<1>1. /\ r \in Seq(Frame) /\ Len(r) = Len(g) + Len(s) /\ Len(g) \in Nat /\ Len(s) \in Nat
      /\ \A i \in 1 .. Len(g) + Len(s) : r[i] = IF i <= Len(g) THEN g[i] ELSE s[i - Len(g)]
  BY ConcatProperties
<1>2. DOMAIN r = 1 .. Len(g) + Len(s) /\ DOMAIN g = 1 .. Len(g) /\ DOMAIN s = 1 .. Len(s)
  BY <1>1
<1> HIDE DEF r
<1>3. ASSUME NEW x \in ToSet(r)
      PROVE  x \in ToSet(g) \cup ToSet(s)
  <2>1. PICK i \in 1 .. Len(g) + Len(s) : r[i] = x
    BY <1>2, <1>3 DEF ToSet
  <2>2. CASE i <= Len(g)
    <3>1. i \in DOMAIN g /\ g[i] = x
      BY <1>1, <1>2, <2>1, <2>2
    <3> QED  BY <3>1 DEF ToSet
  <2>3. CASE i > Len(g)
    <3>1. i - Len(g) \in DOMAIN s /\ s[i - Len(g)] = x
      BY <1>1, <1>2, <2>1, <2>3
    <3> QED  BY <3>1 DEF ToSet
  <2> QED  BY <1>1, <2>1, <2>2, <2>3
<1>4. ASSUME NEW x \in ToSet(g)
      PROVE  x \in ToSet(r)
  <2>1. PICK i \in 1 .. Len(g) : g[i] = x
    BY <1>2, <1>4 DEF ToSet
  <2>2. i \in DOMAIN r /\ r[i] = x
    BY <1>1, <1>2, <2>1
  <2> QED  BY <2>2 DEF ToSet
<1>5. ASSUME NEW x \in ToSet(s)
      PROVE  x \in ToSet(r)
  <2>1. PICK i \in 1 .. Len(s) : s[i] = x
    BY <1>2, <1>5 DEF ToSet
  <2> DEFINE j == Len(g) + i
  <2>2. j \in 1 .. Len(g) + Len(s) /\ ~ j <= Len(g) /\ j - Len(g) = i
    BY <1>1
  <2>3. j \in DOMAIN r /\ r[j] = x
    BY <1>1, <1>2, <2>1, <2>2
  <2> QED  BY <2>3 DEF ToSet
<1>6. ToSet(r) = ToSet(g) \cup ToSet(s)
  BY <1>3, <1>4, <1>5
<1> QED  BY <1>6 DEF r

\* The frames of a chain are the next one and those below it.
LEMMA ChainSets ==
  ASSUME NEW s \in Seq(Frame), s # << >>
  PROVE  ToSet(s) = {Head(s)} \cup ToSet(Tail(s))
<1>1. Tail(s) \in Seq(Frame) /\ Head(s) \in Frame
  BY HeadTailProperties
<1>2. << Head(s) >> \in Seq(Frame) /\ ToSet(<< Head(s) >>) = {Head(s)}
  BY <1>1 DEF ToSet
<1>3. s = << Head(s) >> \o Tail(s)
  BY HeadTailConcat
<1>4. ToSet(<< Head(s) >> \o Tail(s)) = ToSet(<< Head(s) >>) \cup ToSet(Tail(s))
  BY <1>1, <1>2, ConcatSets
<1> QED  BY <1>2, <1>3, <1>4

LEMMA ContinueAddsNo ==
  ASSUME IInv, stack[exec] # << >>, NEW g \in Seq(Frame), Continue(g),
         NEW f, \A i \in DOMAIN g : g[i] # f
  PROVE  AddsNo(f)
<1>1. stack \in [Thread -> Seq(Frame)] /\ exec \in Thread /\ stack[exec] \in Seq(Frame)
  BY ChainNow
<1>2. /\ stack'[exec] = g \o Tail(stack[exec])
      /\ \A u \in Thread \ {exec} : stack'[u] = stack[u]
  BY <1>1, ContinueFacts DEF Replaces
<1>3. f \notin ToSet(g)
  BY DEF ToSet
<1>4. Tail(stack[exec]) \in Seq(Frame)
  BY <1>1, HeadTailProperties
<1>5. ToSet(g \o Tail(stack[exec])) = ToSet(g) \cup ToSet(Tail(stack[exec]))
  BY <1>4, ConcatSets
<1> QED  BY <1>2, <1>3, <1>5 DEF AddsNo

LEMMA ReturnAddsNo ==
  ASSUME IInv, stack[exec] # << >>, NEW f
  PROVE  /\ Return => AddsNo(f)
         /\ \A f1 \in Frame : f1 # f /\ Continue(<< f1 >>) => AddsNo(f)
         /\ \A f1, f2 \in Frame : f1 # f /\ f2 # f /\ Continue(<< f1, f2 >>) => AddsNo(f)
<1>1. Return => AddsNo(f)
  BY FramesFacts, ContinueAddsNo DEF Return
<1>2. ASSUME NEW f1 \in Frame, f1 # f, Continue(<< f1 >>)
      PROVE  AddsNo(f)
  <2>1. << f1 >> \in Seq(Frame) /\ \A i \in DOMAIN << f1 >> : << f1 >>[i] # f
    BY <1>2, FramesFacts
  <2> QED  BY <1>2, <2>1, ContinueAddsNo
<1>3. ASSUME NEW f1 \in Frame, NEW f2 \in Frame, f1 # f, f2 # f, Continue(<< f1, f2 >>)
      PROVE  AddsNo(f)
  <2>1. << f1, f2 >> \in Seq(Frame) /\ \A i \in DOMAIN << f1, f2 >> : << f1, f2 >>[i] \in {f1, f2}
    BY FramesFacts
  <2>2. \A i \in DOMAIN << f1, f2 >> : << f1, f2 >>[i] # f
    BY <1>3, <2>1
  <2> QED  BY <1>3, <2>1, <2>2, ContinueAddsNo
<1> QED  BY <1>1, <1>2, <1>3

LEMMA PushAddsNo ==
  ASSUME IInv, NEW h \in Frame, stack' = [stack EXCEPT ![exec] = << h >> \o @],
         NEW f, f # h, stack[exec] = << >> \/ Head(stack[exec]) # f
  PROVE  AddsNo(f)
<1>1. stack \in [Thread -> Seq(Frame)] /\ exec \in Thread /\ stack[exec] \in Seq(Frame)
  BY ChainNow
<1>2. stack'[exec] = << h >> \o stack[exec] /\ \A u \in Thread \ {exec} : stack'[u] = stack[u]
  BY <1>1
<1>3. << h >> \in Seq(Frame) /\ ToSet(<< h >>) = {h}
  BY DEF ToSet
<1>4. ToSet(<< h >> \o stack[exec]) = ToSet(<< h >>) \cup ToSet(stack[exec])
  BY <1>1, <1>3, ConcatSets
<1>5. f \in ToSet(stack[exec]) => stack[exec] # << >> /\ f \in ToSet(Tail(stack[exec]))
  <2>1. ToSet(<< >>) = {}
    BY DEF ToSet
  <2> QED  BY <1>1, <2>1, ChainSets
<1>6. stack[exec] # << >> => ToSet(Tail(stack[exec])) \subseteq ToSet(stack[exec])
  BY <1>1, ChainSets
<1> QED  BY <1>2, <1>3, <1>4, <1>5, <1>6 DEF AddsNo

\* Frames that nobody follows.
LEMMA OtherFrames ==
  ASSUME NEW f \in Followed
  PROVE  /\ \A op \in {"SelectThread", "Select", "SelectForced", "IdleLoop", "Dispatch",
                       "Reschedule", "Reconcile", "ParkReturn"} :
              Call(op, Null) \in Frame /\ Call(op, Null) # f
         /\ \A t \in Thread :
              \A op \in {"OSWakeupThread", "WakeupLinked", "OSSuspendThread", "OSResumeThread"} :
                Call(op, t) \in Frame /\ Call(op, t) # f
         /\ \A q \in WaitQueueId : Call("SleepReturn", q) \in Frame /\ Call("SleepReturn", q) # f
         /\ \A m \in Mutex : Call("OSLockMutex", m) \in Frame /\ Call("OSLockMutex", m) # f
         /\ f.op \notin {"SleepTimerDue", "OSResumeThread", "IdleLoop"}
<1>1. /\ f.op \in {"OSJoinThread", "Promote", "OSSleepThread", "UnlockAll", "Callback",
                   "IdleCallback", "LockRetry", "Propagate", "OSWakeupThread", "WakeupLinked"}
      /\ f.op \in {"OSWakeupThread", "WakeupLinked"} => f.arg \in Mutex
  BY DEF Followed, Marked, Deciding, Callbacks, Wakeups
<1>2. \A op, x : Call(op, x).op = op /\ Call(op, x).arg = x
  BY FramesFacts
<1>3. \A t \in Thread : t \in WaitQueueId /\ t \notin Mutex
  BY AddressFacts, AddressesDistinct
<1>4. \A t \in Thread : Call("OSSuspendThread", t) \in Frame /\ Call("OSResumeThread", t) \in Frame
                        /\ Call("OSWakeupThread", t) \in Frame /\ Call("WakeupLinked", t) \in Frame
  BY <1>3, FrameFacts DEF ThreadCall
<1>5. \A t \in Thread :
        /\ Call("OSWakeupThread", t) # f /\ Call("WakeupLinked", t) # f
        /\ Call("OSSuspendThread", t) # f /\ Call("OSResumeThread", t) # f
  BY <1>1, <1>2, <1>3
<1>6. \A op \in {"SelectThread", "Select", "SelectForced", "IdleLoop", "Dispatch",
                 "Reschedule", "Reconcile", "ParkReturn"} :
        Call(op, Null) \in Frame /\ Call(op, Null) # f
  BY <1>1, <1>2, FrameFacts
<1>7. /\ \A q \in WaitQueueId : Call("SleepReturn", q) \in Frame /\ Call("SleepReturn", q) # f
      /\ \A m \in Mutex : Call("OSLockMutex", m) \in Frame /\ Call("OSLockMutex", m) # f
  BY <1>1, <1>2, FrameFacts
<1> QED  BY <1>1, <1>4, <1>5, <1>6, <1>7

LEMMA PumpAddsNo ==
  ASSUME IInv, stack[exec] # << >>, NEW h \in Frame, Pump(h), NEW f \in Followed, f # h
  PROVE  AddsNo(f)
<1> DEFINE S == IF Deep THEN {} ELSE timers
           e == Call("Reconcile", Null)
<1>1. S \in SUBSET Thread /\ IsFiniteSet(Thread)
  BY ConstantTypes DEF ConstantTypes, IInv, TypeOK
<1>2. PICK due \in Orderings(S) : Continue(Each("SleepTimerDue", due) \o << e, h >>)
  BY DEF Pump
<1> HIDE DEF S
<1>3. due \in Seq(Thread)
  BY <1>1, OrderingFacts
<1> DEFINE d == Each("SleepTimerDue", due)
           r == << e, h >>
<1>4. d \in Seq(Frame) /\ \A i \in DOMAIN d : d[i].op = "SleepTimerDue"
  BY <1>3, EachFacts
<1>5. e \in Frame /\ e # f /\ f.op # "SleepTimerDue"
  BY OtherFrames
<1>6. Continue(d \o r)
  BY <1>2 DEF d, r
<1> HIDE DEF d, e
<1>7. r \in Seq(Frame) /\ ToSet(r) \subseteq {e, h}
  BY <1>5, FramesFacts DEF ToSet
<1> HIDE DEF r
<1>8. f \notin ToSet(d \o r)
  <2>1. f \notin ToSet(d) /\ f \notin ToSet(r)
    BY <1>4, <1>5, <1>7 DEF ToSet
  <2> QED  BY <1>4, <1>7, <2>1, ConcatSets
<1>9. d \o r \in Seq(Frame) /\ \A i \in DOMAIN (d \o r) : (d \o r)[i] # f
  BY <1>4, <1>7, <1>8, ConcatProperties DEF ToSet
<1> DEFINE g == d \o r
<1>10. g \in Seq(Frame) /\ Continue(g) /\ \A i \in DOMAIN g : g[i] # f
  BY <1>6, <1>9
<1> HIDE DEF g
<1> QED  BY <1>10, ContinueAddsNo

LEMMA SleepAddsNo ==
  ASSUME IInv, SleepStep, NEW f \in Followed
  PROVE  AddsNo(f)
<1>1. stack[exec] # << >>
  BY DEF SleepStep, OSSleepThread, SleepReturn, OSSleepTicks, ParkReturn, SleepTimerDue,
         Reconcile, At
<1>2. exec \in Thread
  BY DEF IInv, TypeOK
<1>3. Return => AddsNo(f)
  BY <1>1, ReturnAddsNo
<1>4. CASE OSSleepThread
  <2>1. Arg \in WaitQueueId
    <3>1. At({"OSSleepThread"})
      BY <1>4 DEF OSSleepThread
    <3> QED  BY <3>1, TopFacts, ArgFacts DEF Arg
  <2>2. Return \/ Continue(<< Call("SelectThread", Null), Call("SleepReturn", Arg) >>)
    BY <1>4 DEF OSSleepThread
  <2> QED  BY <1>1, <1>3, <2>1, <2>2, ReturnAddsNo, OtherFrames
<1>5. CASE OSSleepTicks
  <2>1. Return \/ Continue(<< Call("OSSuspendThread", exec), Call("ParkReturn", Null) >>)
    BY <1>5 DEF OSSleepTicks
  <2> QED  BY <1>1, <1>2, <1>3, <2>1, ReturnAddsNo, OtherFrames
<1>6. CASE SleepTimerDue
  <2>1. Arg \in Thread
    <3>1. At({"SleepTimerDue"})
      BY <1>6 DEF SleepTimerDue
    <3> QED  BY <3>1, TopFacts, ArgFacts DEF Arg
  <2>2. Continue(<< Call("OSResumeThread", Arg) >>) \/ Return
    BY <1>6 DEF SleepTimerDue, Return
  <2> QED  BY <1>1, <1>3, <2>1, <2>2, ReturnAddsNo, OtherFrames
<1>7. CASE Reconcile
  <2> DEFINE untimed  == outstanding \ timers
             stranded == {t \in untimed : Parked(t)}
             H == IF Deep THEN {} ELSE stranded \cap firstSeen
  <2>1. H \in SUBSET Thread /\ IsFiniteSet(Thread)
    BY ConstantTypes DEF ConstantTypes, IInv, TypeOK
  <2>2. Return \/ \E heal \in Orderings(H) : Continue(Each("OSResumeThread", heal))
    BY <1>7 DEF Reconcile
  <2> HIDE DEF H
  <2>3. ASSUME NEW heal \in Orderings(H), Continue(Each("OSResumeThread", heal))
        PROVE  AddsNo(f)
    <3>1. heal \in Seq(Thread)
      BY <2>1, OrderingFacts
    <3>2. /\ Each("OSResumeThread", heal) \in Seq(Frame)
          /\ \A i \in DOMAIN Each("OSResumeThread", heal) :
               Each("OSResumeThread", heal)[i].op = "OSResumeThread"
      BY <3>1, EachFacts
    <3>3. \A i \in DOMAIN Each("OSResumeThread", heal) : Each("OSResumeThread", heal)[i] # f
      BY <3>2, OtherFrames
    <3> QED  BY <1>1, <2>3, <3>2, <3>3, ContinueAddsNo
  <2> QED  BY <1>3, <2>2, <2>3
<1> QED  BY <1>3, <1>4, <1>5, <1>6, <1>7 DEF SleepStep, SleepReturn, ParkReturn

LEMMA SchedulerAddsNo ==
  ASSUME IInv, SchedulerStep, ~ Dispatch, NEW f \in Followed,
         ~ (OSWakeupThread /\ f.op \in Wakeups)
  PROVE  AddsNo(f)
<1>1. stack[exec] # << >>
  BY DEF SchedulerStep, SelectThread, SelectReturns, SelectLeaves, Dispatch, Reschedule,
         IdleTimers, Idling, LeaveIdleLoop, OSWakeupThread, WakeupDone, At
<1>2. \A f1 \in Frame : f1 # f /\ Continue(<< f1 >>) => AddsNo(f)
  BY <1>1, ReturnAddsNo
<1>3. Return => AddsNo(f)
  BY <1>1, ReturnAddsNo
<1>4. CASE SelectThread
  <2> DEFINE h == Call(IF At({"SelectThread"}) THEN "Select" ELSE "SelectForced", Null)
  <2>1. h \in Frame /\ h # f
    BY OtherFrames
  <2>2. Pump(h)
    BY <1>4 DEF SelectThread
  <2> HIDE DEF h
  <2> QED  BY <1>1, <2>1, <2>2, PumpAddsNo
<1>5. CASE IdleTimers
  <2> DEFINE h == Call("IdleLoop", Null)
  <2>1. h \in Frame /\ h # f
    BY OtherFrames
  <2>2. Pump(h)
    BY <1>5 DEF IdleTimers
  <2> HIDE DEF h
  <2> QED  BY <1>1, <2>1, <2>2, PumpAddsNo
<1>6. CASE SelectReturns
  BY <1>3, <1>6 DEF SelectReturns
<1>7. CASE SelectLeaves
  <2>1. Continue(<< Call("IdleLoop", Null) >>) \/ Continue(<< Call("Dispatch", Null) >>)
    BY <1>7 DEF SelectLeaves
  <2> QED  BY <1>2, <2>1, OtherFrames
<1>8. CASE Reschedule
  <2>1. Continue(<< Call("SelectThread", Null) >>) \/ Return
    BY <1>8 DEF Reschedule, Return
  <2> QED  BY <1>2, <1>3, <2>1, OtherFrames
<1>9. CASE LeaveIdleLoop
  <2>1. Continue(<< Call("Dispatch", Null) >>)
    BY <1>9 DEF LeaveIdleLoop
  <2> QED  BY <1>2, <2>1, OtherFrames
<1>10. CASE OSWakeupThread
  <2>1. At({"OSWakeupThread", "WakeupLinked"}) /\ Arg \in WaitQueueId
    <3>1. At({"OSWakeupThread", "WakeupLinked"})
      BY <1>10 DEF OSWakeupThread
    <3> QED  BY <3>1, TopFacts, ArgFacts DEF Arg
  <2>2. f.op \notin {"OSWakeupThread", "WakeupLinked"}
    BY <1>10 DEF Wakeups
  <2>3. CASE stack' = stack
    <3>1. stack[exec] \in Seq(Frame) /\ Head(stack[exec]) # f
      BY <2>1, <2>2, ChainNow, TopFacts
    <3>2. ToSet(stack[exec]) = {Head(stack[exec])} \cup ToSet(Tail(stack[exec]))
      BY <1>1, <3>1, ChainSets
    <3> QED  BY <1>1, <2>3, <3>1, <3>2 DEF AddsNo
  <2>4. CASE Continue(<< Call("WakeupLinked", Arg) >>)
    <3>1. Call("WakeupLinked", Arg) \in Frame /\ Call("WakeupLinked", Arg).op = "WakeupLinked"
      BY <2>1, FrameFacts, FramesFacts
    <3> QED  BY <1>2, <2>2, <2>4, <3>1
  <2> QED  BY <1>10, <2>3, <2>4 DEF OSWakeupThread
<1>11. CASE WakeupDone
  <2>1. Continue(<< Call("SelectThread", Null) >>) \/ Return
    BY <1>11 DEF WakeupDone, Return
  <2> QED  BY <1>2, <1>3, <2>1, OtherFrames
<1> QED  BY <1>4, <1>5, <1>6, <1>7, <1>8, <1>9, <1>10, <1>11 DEF SchedulerStep

LEMMA MutexAddsNo ==
  ASSUME IInv, NEW f \in Followed,
         \/ LockRetry
         \/ Propagate /\ f.op # "Propagate"
         \/ OSUnlockMutex /\ f.op \notin Wakeups
  PROVE  AddsNo(f)
<1>1. stack[exec] # << >>
  BY DEF Propagate, LockRetry, OSUnlockMutex, At
<1>2. \A f1 \in Frame : f1 # f /\ Continue(<< f1 >>) => AddsNo(f)
  BY <1>1, ReturnAddsNo
<1>3. Return => AddsNo(f)
  BY <1>1, ReturnAddsNo
<1>4. CASE Propagate /\ f.op # "Propagate"
  <2>1. Arg \in Thread \cup {Null}
    <3>1. At({"Propagate"})
      BY <1>4 DEF Propagate
    <3> QED  BY <3>1, TopFacts, ArgFacts DEF Arg
  <2>2. CASE Arg = Null
    BY <1>3, <1>4, <2>2 DEF Propagate
  <2>3. CASE Arg \in Thread
    <3>1. NextInChain(Arg) \in Thread \cup {Null}
      BY <2>3, ChainFacts DEF IInv
    <3>2. Return \/ Continue(<< Call("Propagate", NextInChain(Arg)) >>)
      BY <1>4 DEF Propagate
    <3>3. /\ Call("Propagate", NextInChain(Arg)) \in Frame
          /\ Call("Propagate", NextInChain(Arg)).op = "Propagate"
      BY <3>1, FrameFacts, FramesFacts
    <3> QED  BY <1>2, <1>3, <1>4, <3>2, <3>3
  <2> QED  BY <2>1, <2>2, <2>3
<1>5. CASE LockRetry
  <2>1. Arg \in Mutex
    <3>1. At({"LockRetry"})
      BY <1>5 DEF LockRetry
    <3> QED  BY <3>1, TopFacts, ArgFacts DEF Arg
  <2>2. Continue(<< Call("OSLockMutex", Arg) >>)
    BY <1>5 DEF LockRetry
  <2> QED  BY <1>2, <2>1, <2>2, OtherFrames
<1>6. CASE OSUnlockMutex /\ f.op \notin Wakeups
  <2>1. Arg \in Mutex
    <3>1. At({"OSUnlockMutex"})
      BY <1>6 DEF OSUnlockMutex
    <3> QED  BY <3>1, TopFacts, ArgFacts DEF Arg
  <2>2. Return \/ Continue(<< Call("OSWakeupThread", Arg) >>)
    BY <1>6 DEF OSUnlockMutex, Return
  <2>3. /\ Call("OSWakeupThread", Arg) \in Frame
        /\ Call("OSWakeupThread", Arg).op = "OSWakeupThread"
    BY <2>1, FrameFacts, FramesFacts, AddressFacts
  <2> QED  BY <1>2, <1>3, <1>6, <2>2, <2>3 DEF Wakeups
<1> QED  BY <1>4, <1>5, <1>6

LEMMA LifeAddsNo ==
  ASSUME IInv, NEW f \in Followed,
         \/ OSCreateThread \/ ExitReschedule \/ JoinReturn \/ OSDetachThread
         \/ (OSSuspendThread \/ OSResumeThread) /\ f.op # "Propagate"
  PROVE  AddsNo(f)
<1>1. stack[exec] # << >>
  BY DEF OSCreateThread, OSSuspendThread, OSResumeThread, ExitReschedule, JoinReturn,
         OSDetachThread, At
<1>2. \A f1 \in Frame : f1 # f /\ Continue(<< f1 >>) => AddsNo(f)
  BY <1>1, ReturnAddsNo
<1>3. Return => AddsNo(f)
  BY <1>1, ReturnAddsNo
<1>4. CASE OSCreateThread \/ JoinReturn
  BY <1>3, <1>4 DEF OSCreateThread, JoinReturn
<1>5. CASE ExitReschedule
  <2>1. Continue(<< Call("SelectThread", Null) >>)
    BY <1>5 DEF ExitReschedule
  <2> QED  BY <1>2, <2>1, OtherFrames
<1>6. CASE OSDetachThread
  <2>1. Arg \in Thread
    <3>1. At({"OSDetachThread"})
      BY <1>6 DEF OSDetachThread
    <3> QED  BY <3>1, TopFacts, ArgFacts DEF Arg, ThreadCall
  <2>2. Continue(<< Call("OSWakeupThread", Arg) >>)
    BY <1>6 DEF OSDetachThread
  <2> QED  BY <1>2, <2>1, <2>2, OtherFrames
<1>7. CASE (OSSuspendThread \/ OSResumeThread) /\ f.op # "Propagate"
  <2>1. Arg \in Thread
    <3>1. At({"OSSuspendThread", "OSResumeThread"})
      BY <1>7 DEF OSSuspendThread, OSResumeThread, At
    <3> QED  BY <3>1, TopFacts, ArgFacts DEF Arg, ThreadCall
  <2> DEFINE f1 == Call("Propagate", OwnerOf(blockedOn[Arg]))
             f2 == Call("Reschedule", Null)
  <2>2. Return \/ Continue(<< f2 >>) \/ Continue(<< f1, f2 >>)
    BY <1>7 DEF OSSuspendThread, OSResumeThread, Return
  <2>3. f1 \in Frame /\ f1 # f
    <3>1. OwnerOf(blockedOn[Arg]) \in Thread \cup {Null}
      BY <2>1, ChainFacts DEF IInv
    <3> QED  BY <1>7, <3>1, FrameFacts, FramesFacts
  <2>4. f2 \in Frame /\ f2 # f
    BY OtherFrames
  <2> HIDE DEF f1, f2
  <2> QED  BY <1>1, <2>2, <2>3, <2>4, ReturnAddsNo
<1> QED  BY <1>4, <1>5, <1>6, <1>7

LEMMA CallbackAddsNo ==
  ASSUME IInv, CallbackStep, NEW f \in Followed, f.op \notin Callbacks
  PROVE  AddsNo(f)
<1>1. CASE IdleCallbackReturns \/ EndCallback
  <2>1. stack[exec] # << >>
    BY <1>1 DEF IdleCallbackReturns, EndCallback, At
  <2>2. Return \/ Continue(<< Call("Reschedule", Null) >>)
    BY <1>1 DEF IdleCallbackReturns, EndCallback
  <2> QED  BY <2>1, <2>2, ReturnAddsNo, OtherFrames
<1>2. CASE IdleCallback \/ BeginCallback
  <2> DEFINE h == Call(IF IdleCallback THEN "IdleCallback" ELSE "Callback", Null)
  <2>1. h \in Frame /\ h # f
    BY FrameFacts, FramesFacts DEF Callbacks
  <2>2. stack' = [stack EXCEPT ![exec] = << h >> \o @]
    BY <1>2 DEF IdleCallback, BeginCallback
  <2>3. stack[exec] = << >> \/ Head(stack[exec]) # f
    <3>1. InGuestCode \/ At({"IdleLoop"})
      BY <1>2 DEF IdleCallback, BeginCallback, Idling
    <3> QED  BY <3>1, OtherFrames DEF InGuestCode, At
  <2> HIDE DEF h
  <2> QED  BY <2>1, <2>2, <2>3, PushAddsNo
<1> QED  BY <1>1, <1>2 DEF CallbackStep

\* The steps that add a frame that is followed.
LEMMA FollowedStep ==
  ASSUME IInv, [Next]_vars, NEW f \in Followed
  PROVE  \/ AddsNo(f)
         \/ Dispatch \/ Promote \/ OSLockMutex \/ OSJoinThread \/ UnlockAll \/ OSExitThread
         \/ OSCancelThread \/ GuestCall \/ UNCHANGED vars
         \/ (Propagate \/ OSSuspendThread \/ OSResumeThread) /\ f.op = "Propagate"
         \/ (OSWakeupThread \/ OSUnlockMutex) /\ f.op \in Wakeups
         \/ CallbackStep /\ f.op \in Callbacks
<1>1. CASE SleepStep
  BY <1>1, SleepAddsNo
<1>2. CASE SchedulerStep
  BY <1>2, SchedulerAddsNo
<1>3. CASE MutexStep
  BY <1>3, MutexAddsNo DEF MutexStep
<1>4. CASE LifeStep
  BY <1>4, LifeAddsNo, NobodyReturns DEF LifeStep
<1>5. CASE CallbackStep
  BY <1>5, CallbackAddsNo
<1> QED  BY <1>1, <1>2, <1>3, <1>4, <1>5 DEF Next, HleStep

\* The steps that add a marked frame are those that decide to wait, or that end
\* a thread; guest code asks for either.
LEMMA FramesStep ==
  ASSUME IInv, IInv', [Next]_vars, NEW ops \in SUBSET Marked
  PROVE  \/ AddsNone(ops)
         \/ Dispatch \/ Promote \/ OSLockMutex \/ OSJoinThread \/ UnlockAll \/ OSExitThread
         \/ OSCancelThread \/ GuestCall \/ UNCHANGED vars
<1>1. SUFFICES ASSUME ~ (\/ Dispatch \/ Promote \/ OSLockMutex \/ OSJoinThread \/ UnlockAll
                         \/ OSExitThread \/ OSCancelThread \/ GuestCall \/ UNCHANGED vars)
               PROVE  AddsNone(ops)
  OBVIOUS
<1>2. stack \in [Thread -> Seq(Frame)] /\ stack' \in [Thread -> Seq(Frame)] /\ exec \in Thread
  BY DEF IInv, TypeOK
<1>3. \A f \in Frame : f.op \in ops => AddsNo(f)
  <2>1. SUFFICES ASSUME NEW f \in Frame, f.op \in ops
                 PROVE  AddsNo(f)
    OBVIOUS
  <2>2. f \in Followed /\ f.op \notin Wakeups \cup Callbacks \cup {"Propagate"}
    BY <2>1 DEF Followed, Marked, Deciding, Wakeups, Callbacks
  <2> QED  BY <1>1, <2>2, FollowedStep
<1>4. \A u \in Thread \ {exec} : stack'[u] \in {stack[u], << >>}
  <2>1. CASE ops = {}
    <3>1. Call("UnlockAll", exec) \in Frame /\ Call("UnlockAll", exec) \in Followed
      BY <1>2, FrameFacts, FramesFacts DEF Followed, Marked
    <3>2. Call("UnlockAll", exec).op = "UnlockAll"
      BY FramesFacts
    <3>3. AddsNo(Call("UnlockAll", exec))
      BY <1>1, <3>1, <3>2, FollowedStep DEF Wakeups, Callbacks
    <3> QED  BY <3>3 DEF AddsNo
  <2>2. CASE ops # {}
    <3>1. \E f \in Frame : f.op \in ops
      <4>1. \A op \in Marked : \E f \in Frame : f.op = op
        <5>1. /\ Call("OSJoinThread", exec) \in Frame /\ Call("UnlockAll", exec) \in Frame
              /\ Call("Promote", Null) \in Frame /\ Call("OSSleepThread", exec) \in Frame
          BY <1>2, FrameFacts, AddressFacts DEF ThreadCall
        <5>2. \A op, x : Call(op, x).op = op
          BY FramesFacts
        <5> QED  BY <5>1, <5>2 DEF Marked, Deciding
      <4> QED  BY <2>2, <4>1
    <3> QED  BY <1>3, <3>1 DEF AddsNo
  <2> QED  BY <2>1, <2>2
<1>5. ASSUME Has(stack'[exec], ops)
      PROVE  stack[exec] # << >> /\ Has(Tail(stack[exec]), ops)
  <2>1. PICK i \in DOMAIN stack'[exec] : stack'[exec][i].op \in ops
    BY <1>5 DEF Has
  <2>2. stack'[exec][i] \in Frame
    BY <1>2, <2>1
  <2>3. stack[exec] # << >> /\ stack'[exec][i] \in ToSet(Tail(stack[exec]))
    BY <1>3, <2>1, <2>2 DEF AddsNo, ToSet
  <2> QED  BY <2>1, <2>3 DEF Has, ToSet
<1> QED  BY <1>4, <1>5 DEF AddsNone

\* The frames of a chain that has one, two or three more on top.
LEMMA OnTopSets ==
  ASSUME NEW s \in Seq(Frame), NEW f \in Frame
  PROVE  ToSet(<< f >> \o s) = {f} \cup ToSet(s)
<1> DEFINE r == << f >> \o s
<1>1. /\ r \in Seq(Frame) /\ Len(r) = Len(s) + 1 /\ Len(s) \in Nat /\ r[1] = f
      /\ \A i \in 1 .. Len(s) : r[i + 1] = s[i]
  OBVIOUS
<1>2. DOMAIN r = 1 .. Len(s) + 1 /\ DOMAIN s = 1 .. Len(s)
  BY <1>1
<1> HIDE DEF r
<1>3. ASSUME NEW x \in ToSet(r)
      PROVE  x \in {f} \cup ToSet(s)
  <2>1. PICK i \in 1 .. Len(s) + 1 : r[i] = x
    BY <1>2, <1>3 DEF ToSet
  <2>2. CASE i = 1
    BY <1>1, <2>1, <2>2
  <2>3. CASE i # 1
    <3>1. i - 1 \in 1 .. Len(s) /\ r[(i - 1) + 1] = s[i - 1] /\ (i - 1) + 1 = i
      BY <1>1, <2>3
    <3> QED  BY <1>2, <2>1, <3>1 DEF ToSet
  <2> QED  BY <2>2, <2>3
<1>4. ASSUME NEW x \in {f} \cup ToSet(s)
      PROVE  x \in ToSet(r)
  <2>1. CASE x = f
    <3>1. 1 \in DOMAIN r
      BY <1>1, <1>2
    <3> QED  BY <1>1, <2>1, <3>1 DEF ToSet
  <2>2. CASE x \in ToSet(s)
    <3>1. PICK i \in 1 .. Len(s) : s[i] = x
      BY <1>2, <2>2 DEF ToSet
    <3>2. i + 1 \in DOMAIN r /\ r[i + 1] = x
      BY <1>1, <1>2, <3>1
    <3> QED  BY <3>2 DEF ToSet
  <2> QED  BY <1>4, <2>1, <2>2
<1>5. ToSet(r) = {f} \cup ToSet(s)
  BY <1>3, <1>4
<1> QED  BY <1>5 DEF r

LEMMA OnTopTwo ==
  ASSUME NEW s \in Seq(Frame), NEW f1 \in Frame, NEW f2 \in Frame
  PROVE  << f1, f2 >> \o s = << f1 >> \o (<< f2 >> \o s)
<1>1. << f1, f2 >> = << f1 >> \o << f2 >>
  <2>1. << f1, f2 >> \in Seq(Frame) /\ << f1, f2 >> # << >>
    OBVIOUS
  <2>2. Head(<< f1, f2 >>) = f1 /\ Tail(<< f1, f2 >>) = << f2 >>
    OBVIOUS
  <2> QED  BY <2>1, <2>2, HeadTailConcat
<1>2. << f1 >> \in Seq(Frame) /\ << f2 >> \in Seq(Frame)
  OBVIOUS
<1> DEFINE a == << f1 >>
           b == << f2 >>
<1>3. (a \o b) \o s = a \o (b \o s)
  <2> HIDE DEF a, b
  <2>1. a \in Seq(Frame) /\ b \in Seq(Frame)
    BY <1>2 DEF a, b
  <2> QED  BY <2>1, ConcatAssociative
<1> QED  BY <1>1, <1>3

LEMMA OnTopThree ==
  ASSUME NEW s \in Seq(Frame), NEW f1 \in Frame, NEW f2 \in Frame, NEW f3 \in Frame
  PROVE  << f1, f2, f3 >> \o s = << f1 >> \o (<< f2 >> \o (<< f3 >> \o s))
<1>1. << f1, f2, f3 >> = << f1 >> \o << f2, f3 >>
  OBVIOUS
<1>2. << f1 >> \in Seq(Frame) /\ << f2, f3 >> \in Seq(Frame)
  OBVIOUS
<1> DEFINE a == << f1 >>
           b == << f2, f3 >>
<1>3. (a \o b) \o s = a \o (b \o s)
  <2> HIDE DEF a, b
  <2>1. a \in Seq(Frame) /\ b \in Seq(Frame)
    BY <1>2 DEF a, b
  <2> QED  BY <2>1, ConcatAssociative
<1>4. b \o s = << f2 >> \o (<< f3 >> \o s)
  BY OnTopTwo
<1> QED  BY <1>1, <1>3, <1>4

LEMMA BelowTop ==
  ASSUME IInv, stack[exec] # << >>
  PROVE  /\ stack[exec] = << Head(stack[exec]) >> \o Tail(stack[exec])
         /\ Tail(stack[exec]) \in Seq(Frame) /\ Head(stack[exec]) \in Frame
         /\ \A ops : Has(stack[exec], ops) <=>
              Head(stack[exec]).op \in ops \/ Has(Tail(stack[exec]), ops)
BY ChainNow, BelowFacts, HeadTailConcat

-----------------------------------------------------------------------------
(* What fibers are deciding.                                               *)

NobodyDecides == \A u \in Thread : ~ Has(stack[u], Deciding)

\* What the executing fiber may have decided.
Decided(s) ==
  s # << >> =>
    LET below == Tail(s)
    IN  IF Head(s).op = "Promote"
        THEN below # << >> /\ Head(below).op = "OSSleepThread" /\ ~ Has(Tail(below), Deciding)
        ELSE ~ Has(below, Deciding)

LEMMA NobodyDecidesNext ==
  ASSUME IInv', NobodyDecides'
  PROVE  DecidingNext'
<1>1. /\ exec' \in Thread /\ stack'[exec'] \in Seq(Frame)
      /\ \A u \in Thread : ~ Has(stack'[u], Deciding)
  BY DEF IInv, TypeOK, NobodyDecides
<1>2. ~ At({"Promote"})' /\ (stack'[exec'] # << >> => ~ Has(Tail(stack'[exec']), Deciding))
  <2>1. SUFFICES ASSUME stack'[exec'] # << >>
                 PROVE  /\ Head(stack'[exec']).op \notin Deciding
                        /\ ~ Has(Tail(stack'[exec']), Deciding)
    BY DEF At, Deciding
  <2>2. << >> \in Seq(Frame)
    OBVIOUS
  <2> DEFINE s == stack'[exec']
  <2>3. s \in Seq(Frame) /\ s # << >> /\ ~ Has(s, Deciding)
    BY <1>1, <2>1
  <2> HIDE DEF s
  <2>4. Head(s).op \notin Deciding /\ ~ Has(Tail(s), Deciding)
    BY <2>2, <2>3, HasReplace
  <2> QED  BY <2>4 DEF s
<1>3. DecidingNext' <=>
        /\ \A u \in Thread \ {exec'} : ~ Has(stack'[u], Deciding)
        /\ stack'[exec'] # << >> =>
             LET below == Tail(stack'[exec'])
             IN  IF At({"Promote"})'
                 THEN below # << >> /\ Head(below).op = "OSSleepThread" /\ ~ Has(Tail(below), Deciding)
                 ELSE ~ Has(below, Deciding)
  BY DEF DecidingNext
<1> QED  BY <1>1, <1>2, <1>3

LEMMA NobodyDecidesAfter ==
  ASSUME IInv, DecidingNext, AddsNone(Deciding), ~ At({"Promote"})
  PROVE  NobodyDecides'
<1>1. exec \in Thread /\ \A u \in Thread \ {exec} : ~ Has(stack[u], Deciding)
  BY DEF IInv, TypeOK, DecidingNext
<1>2. ~ Has(<< >>, Deciding)
  BY DEF Has
<1>3. stack[exec] # << >> => ~ Has(Tail(stack[exec]), Deciding)
  BY DEF DecidingNext
<1> QED  BY <1>1, <1>2, <1>3 DEF AddsNone, NobodyDecides

\* The frame that is next says which action is.
LEMMA PromoteOnly ==
  ASSUME IInv, [Next]_vars, At({"Promote"})
  PROVE  Promote \/ UNCHANGED vars
<1>1. ~ SleepStep
  BY DEF SleepStep, OSSleepThread, SleepReturn, OSSleepTicks, ParkReturn, SleepTimerDue,
         Reconcile, At
<1>2. ~ SchedulerStep
  BY DEF SchedulerStep, SelectThread, SelectReturns, SelectLeaves, Dispatch, Reschedule,
         IdleTimers, LeaveIdleLoop, OSWakeupThread, WakeupDone, Idling, At
<1>3. MutexStep => Promote
  BY DEF MutexStep, Propagate, OSLockMutex, LockRetry, OSUnlockMutex, UnlockAll, At
<1>4. ~ LifeStep
  BY NobodyReturns
  DEF LifeStep, OSCreateThread, OSSuspendThread, OSResumeThread, OSExitThread,
      ExitReschedule, OSCancelThread, OSJoinThread, JoinReturn, OSDetachThread, At
<1>5. ~ CallbackStep /\ ~ GuestCall
  BY DEF CallbackStep, IdleCallback, IdleCallbackReturns, BeginCallback, EndCallback,
         GuestCall, InGuestCode, InCallback, Idling, At
<1> QED  BY <1>1, <1>2, <1>3, <1>4, <1>5 DEF Next, HleStep

LEMMA WakeupOnly ==
  ASSUME IInv, [Next]_vars, At({"OSWakeupThread", "WakeupLinked"})
  PROVE  OSWakeupThread \/ WakeupDone \/ UNCHANGED vars
<1>1. ~ SleepStep
  BY DEF SleepStep, OSSleepThread, SleepReturn, OSSleepTicks, ParkReturn, SleepTimerDue,
         Reconcile, At
<1>2. SchedulerStep => OSWakeupThread \/ WakeupDone
  BY DEF SchedulerStep, SelectThread, SelectReturns, SelectLeaves, Dispatch, Reschedule,
         IdleTimers, LeaveIdleLoop, Idling, At
<1>3. ~ MutexStep
  BY DEF MutexStep, Promote, Propagate, OSLockMutex, LockRetry, OSUnlockMutex, UnlockAll, At
<1>4. ~ LifeStep
  BY NobodyReturns
  DEF LifeStep, OSCreateThread, OSSuspendThread, OSResumeThread, OSExitThread,
      ExitReschedule, OSCancelThread, OSJoinThread, JoinReturn, OSDetachThread, At
<1>5. ~ CallbackStep /\ ~ GuestCall
  BY DEF CallbackStep, IdleCallback, IdleCallbackReturns, BeginCallback, EndCallback,
         GuestCall, InGuestCode, InCallback, Idling, At
<1> QED  BY <1>1, <1>2, <1>3, <1>4, <1>5 DEF Next, HleStep

LEMMA NobodySleepsNext ==
  ASSUME IInv', NobodyDecides', NEW q
  PROVE  ~ AboutToSleep(q)'
<1>1. SUFFICES ASSUME Call("OSSleepThread", q) \in ToSet(stack'[exec'])
               PROVE  FALSE
  BY DEF AboutToSleep
<1>2. exec' \in Thread
  BY DEF IInv, TypeOK
<1>3. Has(stack'[exec'], Deciding)
  <2>1. PICK i \in DOMAIN stack'[exec'] : stack'[exec'][i] = Call("OSSleepThread", q)
    BY <1>1 DEF ToSet
  <2>2. Call("OSSleepThread", q).op \in Deciding
    BY FramesFacts DEF Deciding
  <2> QED  BY <2>1, <2>2 DEF Has
<1> QED  BY <1>2, <1>3 DEF NobodyDecides

\* Nothing below a frame that has just been put on a chain decides anything.
LEMMA NothingSleeps ==
  ASSUME NEW s \in Seq(Frame), ~ Has(s, Deciding), NEW q
  PROVE  Call("OSSleepThread", q) \notin ToSet(s)
<1>1. SUFFICES ASSUME Call("OSSleepThread", q) \in ToSet(s)
               PROVE  FALSE
  OBVIOUS
<1>2. PICK i \in DOMAIN s : s[i] = Call("OSSleepThread", q)
  BY <1>1 DEF ToSet
<1>3. Call("OSSleepThread", q).op \in Deciding
  BY FramesFacts DEF Deciding
<1> QED  BY <1>2, <1>3 DEF Has

\* OSLockMutex decides to wait for a mutex that somebody else owns.
LEMMA LockDecides ==
  ASSUME IInv, DecidingNext, OSLockMutex
  PROVE  \/ NobodyDecides'
         \/ /\ owner[Arg] \notin {Null, exec} /\ owner' = owner /\ exec' = exec
            /\ blockedOn' = [blockedOn EXCEPT ![exec] = Arg]
            /\ \A u \in Thread \ {exec} : ~ Has(stack'[u], Deciding)
            /\ Decided(stack'[exec])
            /\ Head(stack'[exec]) = Call("Promote", owner[Arg]) /\ stack'[exec] # << >>
            /\ \A q : AboutToSleep(q)' => q = Arg
<1>1. At({"OSLockMutex"}) /\ ~ At({"Promote"}) /\ exec' = exec
  BY DEF OSLockMutex, At
<1>2. /\ stack \in [Thread -> Seq(Frame)] /\ exec \in Thread /\ stack[exec] # << >>
      /\ Arg \in Mutex
  BY <1>1, TopFacts, ArgFacts DEF Arg
<1>3. running = exec /\ exec # Null
  BY <1>1, <1>2, BusyTopFacts, AddressFacts DEF Quiet, Barrier
<1>4. CASE Return
  <2>1. AddsNone(Deciding)
    BY <1>2, <1>4, ReturnAdds
  <2> QED  BY <1>1, <2>1, NobodyDecidesAfter
<1>5. CASE ~ Return
  <2> DEFINE f1 == Call("Promote", owner[Arg])
             f2 == Call("OSSleepThread", Arg)
             f3 == Call("LockRetry", Arg)
             T == Tail(stack[exec])
             r == << f1, f2, f3 >> \o T
  <2>1. owner[Arg] \notin {Null, exec}
    BY <1>3, <1>5 DEF OSLockMutex
  <2>2. /\ owner' = owner /\ blockedOn' = [blockedOn EXCEPT ![exec] = Arg]
        /\ Continue(<< f1, f2, f3 >>)
    BY <1>3, <2>1 DEF OSLockMutex
  <2>3. f1 \in Frame /\ f2 \in Frame /\ f3 \in Frame
    <3>1. owner[Arg] \in Thread /\ Arg \in WaitQueueId
      BY <1>2, <2>1, AddressFacts DEF IInv, TypeOK
    <3> QED  BY <1>2, <3>1, FrameFacts
  <2>4. /\ f1.op = "Promote" /\ f2.op = "OSSleepThread" /\ f3.op = "LockRetry"
        /\ \A q : Call("OSSleepThread", q) = f2 => q = Arg
        /\ \A q : Call("OSSleepThread", q).op = "OSSleepThread"
    BY FramesFacts
  <2>5. T \in Seq(Frame) /\ ~ Has(T, Deciding)
    BY <1>1, <1>2, BelowTop DEF DecidingNext
  <2>6. stack' = [stack EXCEPT ![exec] = r]
    BY <2>2 DEF Continue
  <2> HIDE DEF f1, f2, f3, T
  <2> DEFINE r3 == << f3 >> \o T
             r2 == << f2 >> \o r3
  <2>7. r = << f1 >> \o r2
    BY <2>3, <2>5, OnTopThree
  <2>8. /\ r3 \in Seq(Frame) /\ ~ Has(r3, Deciding)
        /\ ToSet(r3) = {f3} \cup ToSet(T)
    <3>1. f3.op \notin Deciding
      BY <2>4 DEF Deciding
    <3>2. r3 \in Seq(Frame) /\ ~ Has(r3, Deciding)
      BY <2>3, <2>5, <3>1, OnTopFacts
    <3> QED  BY <2>3, <2>5, <3>2, OnTopSets
  <2> HIDE DEF r3, r
  <2>9. /\ r2 \in Seq(Frame) /\ r2 # << >> /\ Head(r2) = f2 /\ Tail(r2) = r3
        /\ ToSet(r2) = {f2} \cup ToSet(r3)
    BY <2>3, <2>8, OnTopFacts, OnTopSets
  <2> HIDE DEF r2
  <2>10. /\ r # << >> /\ Head(r) = f1 /\ Tail(r) = r2 /\ ToSet(r) = {f1} \cup ToSet(r2)
    BY <2>3, <2>7, <2>9, OnTopFacts, OnTopSets
  <2>11. Decided(r)
    BY <2>4, <2>8, <2>9, <2>10 DEF Decided
  <2>12. \A q : Call("OSSleepThread", q) \in ToSet(r) => q = Arg
    <3>1. SUFFICES ASSUME NEW q, Call("OSSleepThread", q) \in ToSet(r)
                   PROVE  q = Arg
      OBVIOUS
    <3>2. Call("OSSleepThread", q) \notin ToSet(T)
      BY <2>5, NothingSleeps
    <3>3. Call("OSSleepThread", q) # f1 /\ Call("OSSleepThread", q) # f3
      BY <2>4
    <3>4. Call("OSSleepThread", q) = f2
      BY <2>8, <2>9, <2>10, <3>1, <3>2, <3>3
    <3> QED  BY <2>4, <3>4
  <2>13. stack'[exec] = r /\ \A u \in Thread \ {exec} : stack'[u] = stack[u]
    BY <1>2, <2>6
  <2>14. \A u \in Thread \ {exec} : ~ Has(stack'[u], Deciding)
    BY <2>13 DEF DecidingNext
  <2>15. \A q : AboutToSleep(q)' => q = Arg
    BY <1>1, <2>12, <2>13 DEF AboutToSleep
  <2> QED  BY <1>1, <2>1, <2>2, <2>10, <2>11, <2>13, <2>14, <2>15 DEF f1
<1> QED  BY <1>4, <1>5

\* OSJoinThread decides to wait for the end of a thread.
LEMMA JoinDecides ==
  ASSUME IInv, DecidingNext, OSJoinThread
  PROVE  \/ NobodyDecides'
         \/ /\ ~ detached[Arg] /\ state[Arg] # "moribund" /\ state' = state /\ exec' = exec
            /\ \A u \in Thread \ {exec} : ~ Has(stack'[u], Deciding)
            /\ Decided(stack'[exec])
            /\ Head(stack'[exec]).op = "OSSleepThread"
            /\ \A q : AboutToSleep(q)' => q = Arg
<1>1. At({"OSJoinThread"}) /\ ~ At({"Promote"}) /\ exec' = exec
  BY DEF OSJoinThread, At
<1>2. /\ stack \in [Thread -> Seq(Frame)] /\ exec \in Thread /\ stack[exec] # << >>
      /\ Arg \in Thread
  BY <1>1, TopFacts, ArgFacts DEF Arg, ThreadCall
<1>3. CASE Return
  <2>1. AddsNone(Deciding)
    BY <1>2, <1>3, ReturnAdds
  <2> QED  BY <1>1, <2>1, NobodyDecidesAfter
<1>4. CASE ~ Return
  <2> DEFINE f1 == Call("OSSleepThread", Arg)
             f2 == Call("JoinReturn", Arg)
             T == Tail(stack[exec])
             r == << f1, f2 >> \o T
  <2>1. /\ ~ detached[Arg] /\ state[Arg] # "moribund" /\ state' = state
        /\ Continue(<< f1, f2 >>)
    BY <1>4 DEF OSJoinThread
  <2>2. f1 \in Frame /\ f2 \in Frame
    BY <1>2, FrameFacts, AddressFacts
  <2>3. /\ f1.op = "OSSleepThread" /\ f2.op = "JoinReturn"
        /\ \A q : Call("OSSleepThread", q) = f1 => q = Arg
        /\ \A q : Call("OSSleepThread", q).op = "OSSleepThread"
    BY FramesFacts
  <2>4. T \in Seq(Frame) /\ ~ Has(T, Deciding)
    BY <1>1, <1>2, BelowTop DEF DecidingNext
  <2>5. stack' = [stack EXCEPT ![exec] = r]
    BY <2>1 DEF Continue
  <2> HIDE DEF f1, f2, T
  <2> DEFINE r2 == << f2 >> \o T
  <2>6. r = << f1 >> \o r2
    BY <2>2, <2>4, OnTopTwo
  <2>7. /\ r2 \in Seq(Frame) /\ ~ Has(r2, Deciding)
        /\ ToSet(r2) = {f2} \cup ToSet(T)
    <3>1. f2.op \notin Deciding
      BY <2>3 DEF Deciding
    <3>2. r2 \in Seq(Frame) /\ ~ Has(r2, Deciding)
      BY <2>2, <2>4, <3>1, OnTopFacts
    <3> QED  BY <2>2, <2>4, <3>2, OnTopSets
  <2> HIDE DEF r2, r
  <2>8. /\ r # << >> /\ Head(r) = f1 /\ Tail(r) = r2 /\ ToSet(r) = {f1} \cup ToSet(r2)
    BY <2>2, <2>6, <2>7, OnTopFacts, OnTopSets
  <2>9. Decided(r)
    BY <2>3, <2>7, <2>8 DEF Decided
  <2>10. \A q : Call("OSSleepThread", q) \in ToSet(r) => q = Arg
    <3>1. SUFFICES ASSUME NEW q, Call("OSSleepThread", q) \in ToSet(r)
                   PROVE  q = Arg
      OBVIOUS
    <3>2. Call("OSSleepThread", q) \notin ToSet(T) /\ Call("OSSleepThread", q) # f2
      BY <2>3, <2>4, NothingSleeps
    <3> QED  BY <2>3, <2>7, <2>8, <3>1, <3>2
  <2>11. stack'[exec] = r /\ \A u \in Thread \ {exec} : stack'[u] = stack[u]
    BY <1>2, <2>5
  <2>12. \A u \in Thread \ {exec} : ~ Has(stack'[u], Deciding)
    BY <2>11 DEF DecidingNext
  <2>13. \A q : AboutToSleep(q)' => q = Arg
    BY <1>1, <2>10, <2>11 DEF AboutToSleep
  <2> QED  BY <1>1, <2>1, <2>3, <2>8, <2>9, <2>11, <2>12, <2>13
<1> QED  BY <1>3, <1>4

\* The walk along the owners of mutexes leaves the decision as it is.
LEMMA PromoteDecides ==
  ASSUME IInv, DecidingNext, Promote
  PROVE  /\ exec' = exec /\ owner' = owner /\ blockedOn' = blockedOn
         /\ \A u \in Thread \ {exec} : ~ Has(stack'[u], Deciding)
         /\ Decided(stack'[exec]) /\ stack'[exec] # << >>
         /\ Head(stack'[exec]).op \in {"Promote", "OSSleepThread"}
         /\ \A q : AboutToSleep(q)' => AboutToSleep(q)
<1>1. At({"Promote"}) /\ exec' = exec /\ owner' = owner /\ blockedOn' = blockedOn
  BY DEF Promote, mutexVars
<1>2. /\ stack \in [Thread -> Seq(Frame)] /\ exec \in Thread /\ stack[exec] # << >>
      /\ Head(stack[exec]).op = "Promote" /\ Arg \in Thread \cup {Null}
  BY <1>1, TopFacts, ArgFacts DEF Arg
<1> DEFINE T == Tail(stack[exec])
<1>3. /\ T \in Seq(Frame) /\ T # << >> /\ Head(T).op = "OSSleepThread"
      /\ ~ Has(Tail(T), Deciding)
      /\ stack[exec] = << Head(stack[exec]) >> \o T /\ Head(stack[exec]) \in Frame
  BY <1>1, <1>2, BelowTop DEF DecidingNext
<1>4. ToSet(stack[exec]) = {Head(stack[exec])} \cup ToSet(T)
  BY <1>3, OnTopSets
<1> HIDE DEF T
<1>5. \A u \in Thread \ {exec} : ~ Has(stack[u], Deciding)
  BY DEF DecidingNext
<1>6. CASE Return
  <2>1. stack' = [stack EXCEPT ![exec] = << >> \o T]
    BY <1>6 DEF Return, Continue, T
  <2>2. stack'[exec] = T /\ \A u \in Thread \ {exec} : stack'[u] = stack[u]
    BY <1>2, <1>3, <2>1
  <2>3. Decided(T)
    <3>1. Head(T).op # "Promote"
      BY <1>3
    <3> QED  BY <1>3, <3>1 DEF Decided
  <2>4. \A q : AboutToSleep(q)' => AboutToSleep(q)
    BY <1>1, <1>4, <2>2 DEF AboutToSleep
  <2> QED  BY <1>1, <1>3, <1>5, <2>2, <2>3, <2>4
<1>7. CASE ~ Return
  <2>1. Arg \in Thread /\ Continue(<< Call("Promote", NextInChain(Arg)) >>)
    BY <1>2, <1>7 DEF Promote
  <2> DEFINE f == Call("Promote", NextInChain(Arg))
             r == << f >> \o T
  <2>2. f \in Frame /\ f.op = "Promote" /\ \A q : Call("OSSleepThread", q) # f
    <3>1. NextInChain(Arg) \in Thread \cup {Null}
      BY <2>1, ChainFacts DEF IInv
    <3>2. f \in Frame
      BY <3>1, FrameFacts
    <3>3. f.op = "Promote" /\ \A q : Call("OSSleepThread", q).op = "OSSleepThread"
      BY FramesFacts
    <3> QED  BY <3>2, <3>3
  <2>3. stack' = [stack EXCEPT ![exec] = r]
    BY <2>1 DEF Continue, T
  <2>4. stack'[exec] = r /\ \A u \in Thread \ {exec} : stack'[u] = stack[u]
    BY <1>2, <2>3
  <2> HIDE DEF f
  <2>5. /\ r # << >> /\ Head(r) = f /\ Tail(r) = T /\ ToSet(r) = {f} \cup ToSet(T)
    BY <1>3, <2>2, OnTopFacts, OnTopSets
  <2> HIDE DEF r
  <2>6. Decided(r)
    BY <1>3, <2>2, <2>5 DEF Decided
  <2>7. \A q : AboutToSleep(q)' => AboutToSleep(q)
    BY <1>1, <1>4, <2>2, <2>4, <2>5 DEF AboutToSleep
  <2> QED  BY <1>1, <1>5, <2>2, <2>4, <2>5, <2>6, <2>7
<1> QED  BY <1>6, <1>7

\* Guest code decides to sleep, or calls a function that may.
LEMMA GuestDecides ==
  ASSUME IInv, Disciplined, DecidingNext, GuestCall
  PROVE  \/ NobodyDecides'
         \/ /\ exec' = exec /\ stack[exec] = << >>
            /\ \A u \in Thread \ {exec} : ~ Has(stack'[u], Deciding)
            /\ \E c \in Frame : stack'[exec] = << c >> /\ Legal(c) /\ c.op \in OSFunction
            /\ Decided(stack'[exec])
            /\ \A q : AboutToSleep(q)' => q \in WaitQueue
<1>1. PICK c \in Frame :
        /\ c.op \in IF InGuestCode THEN GuestCalls[exec] ELSE CallbackCalls
        /\ Legal(c)
        /\ stack' = [stack EXCEPT ![exec] = << c >> \o @]
  BY DEF GuestCall
<1>2. exec' = exec /\ stack \in [Thread -> Seq(Frame)] /\ exec \in Thread
  BY ChainNow DEF GuestCall
<1>3. CASE ~ InGuestCode
  <2>1. c.op \in {"OSWakeupThread", "OSResumeThread"}
    BY <1>1, <1>3 DEF Disciplined
  <2>2. At({"Callback", "IdleCallback"})
    BY <1>3 DEF GuestCall, InCallback
  <2>3. ~ At({"Promote"}) /\ Head(stack[exec]).op \notin Deciding /\ c.op \notin Deciding
    BY <2>1, <2>2 DEF At, Deciding
  <2>4. AddsNone(Deciding)
    BY <1>1, <2>3, PushAdds
  <2> QED  BY <2>3, <2>4, NobodyDecidesAfter
<1>4. CASE InGuestCode
  <2>1. stack[exec] = << >> /\ c.op \in OSFunction
    BY <1>1, <1>2, <1>4, ConstantTypes DEF ConstantTypes, InGuestCode
  <2>2. stack'[exec] = << c >> \o << >> /\ \A u \in Thread \ {exec} : stack'[u] = stack[u]
    BY <1>1, <1>2, <2>1
  <2>3. stack'[exec] = << c >>
    BY <2>2
  <2>4. /\ Tail(<< c >>) = << >> /\ Head(<< c >>) = c /\ << c >> # << >>
        /\ ToSet(<< c >>) = {c}
    BY DEF ToSet
  <2>5. ~ Has(<< >>, Deciding)
    BY DEF Has
  <2>6. c.op # "Promote"
    BY <2>1 DEF OSFunction, ThreadCall, QueueCall, MutexCall, PlainCall
  <2>7. Decided(<< c >>)
    BY <2>4, <2>5, <2>6 DEF Decided
  <2>8. \A q : AboutToSleep(q)' => q \in WaitQueue
    <3>1. SUFFICES ASSUME NEW q, c = Call("OSSleepThread", q)
                   PROVE  q \in WaitQueue
      BY <1>2, <2>3, <2>4 DEF AboutToSleep
    <3>2. c.op = "OSSleepThread" /\ c.arg = q
      BY <3>1, FramesFacts
    <3> QED  BY <1>1, <3>2 DEF Legal, QueueCall
  <2>9. \A u \in Thread \ {exec} : ~ Has(stack'[u], Deciding)
    BY <2>2 DEF DecidingNext
  <2> QED  BY <1>1, <1>2, <2>1, <2>3, <2>7, <2>8, <2>9
<1> QED  BY <1>3, <1>4

LEMMA RitesFrames ==
  ASSUME NEW t \in Thread, NEW op \in {"ExitReschedule", "Reschedule"}
  PROVE  /\ LastRites(t, Call(op, Null)) \in Seq(Frame)
         /\ LastRites(t, Call(op, Null)) =
              << Call("UnlockAll", t), Call("OSWakeupThread", t), Call(op, Null) >>
         /\ ~ Has(LastRites(t, Call(op, Null)), Deciding)
<1> DEFINE f1 == Call("UnlockAll", t)
           f2 == Call("OSWakeupThread", t)
           f3 == Call(op, Null)
<1>1. f1 \in Frame /\ f2 \in Frame /\ f3 \in Frame
  BY FrameFacts, AddressFacts
<1>2. f1.op = "UnlockAll" /\ f2.op = "OSWakeupThread" /\ f3.op = op
  BY FramesFacts
<1> HIDE DEF f1, f2, f3
<1>3. /\ << f1, f2, f3 >> \in Seq(Frame)
      /\ \A i \in DOMAIN << f1, f2, f3 >> : << f1, f2, f3 >>[i] \in {f1, f2, f3}
  BY <1>1, FramesFacts
<1>4. ~ Has(<< f1, f2, f3 >>, Deciding)
  BY <1>2, <1>3 DEF Has, Deciding
<1>5. LastRites(t, Call(op, Null)) = << f1, f2, f3 >>
  BY DEF LastRites, f1, f2, f3
<1> QED  BY <1>3, <1>4, <1>5 DEF f1, f2, f3

LEMMA TerminateAdds ==
  ASSUME IInv, stack[exec] # << >>, NEW t \in Thread,
         NEW op \in {"ExitReschedule", "Reschedule"}, Terminate(t, Call(op, Null))
  PROVE  AddsNone(Deciding)
<1> DEFINE g == LastRites(t, Call(op, Null))
<1>1. stack \in [Thread -> Seq(Frame)] /\ exec \in Thread /\ stack[exec] \in Seq(Frame)
  BY ChainNow
<1>2. stack'[exec] = g \o Tail(stack[exec])
  BY <1>1 DEF Terminate
<1>3. \A u \in Thread \ {exec} : stack'[u] \in {stack[u], << >>}
  BY DEF Terminate
<1>4. g \in Seq(Frame) /\ ~ Has(g, Deciding)
  BY RitesFrames
<1> HIDE DEF g
<1>5. Has(stack'[exec], Deciding) => Has(Tail(stack[exec]), Deciding)
  BY <1>1, <1>2, <1>4, HasReplace
<1> QED  BY <1>3, <1>5 DEF AddsNone

LEMMA EndDecides ==
  ASSUME IInv, DecidingNext, UnlockAll \/ OSExitThread \/ OSCancelThread \/ Dispatch
  PROVE  NobodyDecides'
<1>1. /\ stack \in [Thread -> Seq(Frame)] /\ exec \in Thread /\ stack[exec] # << >>
      /\ Head(stack[exec]) \in Frame
      /\ Head(stack[exec]).op \in {"UnlockAll", "OSExitThread", "OSCancelThread", "Dispatch"}
      /\ ~ At({"Promote"})
  <2>1. At({"UnlockAll", "OSExitThread", "OSCancelThread", "Dispatch"})
    BY DEF UnlockAll, OSExitThread, OSCancelThread, Dispatch, At
  <2>2. ~ At({"Promote"})
    BY <2>1 DEF At
  <2> QED  BY <2>1, <2>2, TopFacts
<1>2. Return => AddsNone(Deciding)
  BY <1>1, ReturnAdds
<1>3. CASE UnlockAll
  <2>1. Arg \in Thread
    <3>1. At({"UnlockAll"})
      BY <1>3 DEF UnlockAll
    <3> QED  BY <3>1, TopFacts, ArgFacts DEF Arg
  <2>2. CASE held[Arg] = << >>
    BY <1>1, <1>2, <1>3, <2>2, NobodyDecidesAfter DEF UnlockAll
  <2>3. CASE held[Arg] # << >>
    <3> DEFINE f1 == Call("OSWakeupThread", Head(held[Arg]))
               f2 == Call("UnlockAll", Arg)
    <3>1. Head(held[Arg]) \in WaitQueueId
      <4>1. held[Arg] \in Seq(Mutex)
        BY <2>1 DEF IInv, TypeOK
      <4>2. Head(held[Arg]) \in Mutex
        BY <2>3, <4>1, HeadInToSet
      <4> QED  BY <4>2, AddressFacts
    <3>2. f1 \in Frame /\ f2 \in Frame /\ f1.op = "OSWakeupThread" /\ f2.op = "UnlockAll"
      BY <2>1, <3>1, FrameFacts, FramesFacts
    <3>3. Continue(<< f1, f2 >>)
      BY <1>3, <2>3 DEF UnlockAll
    <3> HIDE DEF f1, f2
    <3>4. f1.op \notin Deciding /\ f2.op \notin Deciding
      BY <3>2 DEF Deciding
    <3>5. AddsNone(Deciding)
      BY <1>1, <3>2, <3>3, <3>4, ReturnAdds
    <3> QED  BY <1>1, <3>5, NobodyDecidesAfter
  <2> QED  BY <2>2, <2>3
<1>4. CASE OSExitThread
  <2>1. \/ Return
        \/ running # Null /\ Terminate(running, Call("ExitReschedule", Null))
    BY <1>4 DEF OSExitThread
  <2>2. running \in Thread \cup {Null}
    BY DEF IInv, TypeOK
  <2>3. AddsNone(Deciding)
    BY <1>1, <1>2, <2>1, <2>2, TerminateAdds
  <2> QED  BY <1>1, <2>3, NobodyDecidesAfter
<1>5. CASE OSCancelThread
  <2>1. Return \/ Terminate(Arg, Call("Reschedule", Null))
    BY <1>5 DEF OSCancelThread
  <2>2. Arg \in Thread
    <3>1. At({"OSCancelThread"})
      BY <1>5 DEF OSCancelThread
    <3> QED  BY <3>1, TopFacts, ArgFacts DEF Arg, ThreadCall
  <2>3. AddsNone(Deciding)
    BY <1>1, <1>2, <2>1, <2>2, TerminateAdds
  <2> QED  BY <1>1, <2>3, NobodyDecidesAfter
<1>6. CASE Dispatch
  <2>1. ~ Has(Tail(stack[exec]), Deciding) /\ Head(stack[exec]).op \notin Deciding
    <3>1. Head(stack[exec]).op = "Dispatch"
      BY <1>6 DEF Dispatch, At
    <3> QED  BY <1>1, <3>1 DEF DecidingNext, Deciding
  <2>2. ~ Has(stack[exec], Deciding) /\ ~ Has(<< >>, Deciding)
    <3>1. ~ Has(stack[exec], Deciding)
      BY <1>1, <2>1, BelowTop
    <3> QED  BY <3>1 DEF Has
  <2>3. \/ Return \/ stack' = stack
        \/ stack' = [stack EXCEPT ![exec] = IF Dead(exec) THEN << >> ELSE Tail(@)]
    BY <1>6 DEF Dispatch
  <2>4. CASE Return
    BY <1>1, <1>2, <2>4, NobodyDecidesAfter
  <2>5. CASE stack' = stack
    BY <2>2, <2>5 DEF NobodyDecides, DecidingNext
  <2>6. CASE stack' = [stack EXCEPT ![exec] = IF Dead(exec) THEN << >> ELSE Tail(@)]
    <3>1. \A u \in Thread \ {exec} : stack'[u] = stack[u]
      BY <2>6
    <3>2. stack'[exec] \in {<< >>, Tail(stack[exec])}
      BY <1>1, <2>6
    <3> QED  BY <2>1, <2>2, <3>1, <3>2 DEF NobodyDecides, DecidingNext
  <2> QED  BY <2>3, <2>4, <2>5, <2>6
<1> QED  BY <1>3, <1>4, <1>5, <1>6

\* Only these steps leave a fiber that is about to wait.
LEMMA DecideSteps ==
  ASSUME IInv, IInv', DecidingNext, [Next]_vars
  PROVE  NobodyDecides' \/ Promote \/ OSLockMutex \/ OSJoinThread \/ GuestCall \/ UNCHANGED vars
<1>1. CASE AddsNone(Deciding) /\ ~ At({"Promote"})
  BY <1>1, NobodyDecidesAfter
<1>2. CASE At({"Promote"})
  BY <1>2, PromoteOnly
<1> QED  BY <1>1, <1>2, FramesStep, EndDecides DEF Marked

\* A decision is carried out before anything else happens.
LEMMA DecidingStep ==
  ASSUME Disciplined, IInv, IInv', DecidingNext, [Next]_vars
  PROVE  DecidingNext'
<1>1. CASE NobodyDecides'
  BY <1>1, NobodyDecidesNext
<1>2. CASE /\ exec' = exec /\ Decided(stack'[exec])
           /\ \A u \in Thread \ {exec} : ~ Has(stack'[u], Deciding)
  <2>1. At({"Promote"})' <=> stack'[exec'] # << >> /\ Head(stack'[exec']).op = "Promote"
    BY DEF At
  <2>2. DecidingNext' <=>
          /\ \A u \in Thread \ {exec'} : ~ Has(stack'[u], Deciding)
          /\ stack'[exec'] # << >> =>
               LET below == Tail(stack'[exec'])
               IN  IF At({"Promote"})'
                   THEN below # << >> /\ Head(below).op = "OSSleepThread" /\ ~ Has(Tail(below), Deciding)
                   ELSE ~ Has(below, Deciding)
    BY DEF DecidingNext
  <2> QED  BY <1>2, <2>1, <2>2 DEF Decided
<1>3. CASE UNCHANGED vars
  BY <1>3 DEF DecidingNext, At, vars, fiberVars
<1> QED  BY <1>1, <1>2, <1>3, DecideSteps, PromoteDecides, LockDecides, JoinDecides, GuestDecides

-----------------------------------------------------------------------------
(* The second invariant.                                                   *)

\* Which steps touch the fields of a mutex, and what a thread waits for.
LEMMA MutexFieldSteps ==
  ASSUME IInv, [Next]_vars
  PROVE  /\ \/ blockedOn' = blockedOn
            \/ OSLockMutex \/ LockRetry \/ OSCreateThread
         /\ \/ owner' = owner /\ count' = count
            \/ OSLockMutex \/ OSUnlockMutex \/ UnlockAll
         /\ \/ held' = held
            \/ OSLockMutex \/ OSUnlockMutex \/ UnlockAll \/ OSCreateThread
<1>1. CASE SleepStep \/ UNCHANGED vars
  BY <1>1
  DEF SleepStep, OSSleepThread, SleepReturn, OSSleepTicks, ParkReturn, SleepTimerDue,
      Reconcile, vars, mutexVars
<1>2. CASE SchedulerStep
  BY <1>2
  DEF SchedulerStep, SelectThread, SelectReturns, SelectLeaves, Dispatch, Reschedule,
      IdleTimers, LeaveIdleLoop, OSWakeupThread, WakeupDone, mutexVars
<1>3. CASE MutexStep
  BY <1>3 DEF MutexStep, Promote, Propagate, LockRetry, OSUnlockMutex, UnlockAll, mutexVars
<1>4. CASE LifeStep
  BY <1>4, NobodyReturns
  DEF LifeStep, OSCreateThread, OSSuspendThread, OSResumeThread, OSExitThread,
      ExitReschedule, OSCancelThread, OSJoinThread, JoinReturn, OSDetachThread, mutexVars
<1>5. CASE CallbackStep \/ GuestCall
  BY <1>5
  DEF CallbackStep, IdleCallback, IdleCallbackReturns, BeginCallback, EndCallback,
      GuestCall, mutexVars
<1> QED  BY <1>1, <1>2, <1>3, <1>4, <1>5 DEF Next, HleStep

\* What comes next on a chain that a step has put one or two frames on.
LEMMA NextFrame ==
  ASSUME IInv, stack[exec] # << >>, NEW f \in Frame, exec' = exec,
         Continue(<< f >>) \/ \E f2 \in Frame : Continue(<< f, f2 >>)
  PROVE  /\ stack'[exec'] # << >> /\ Head(stack'[exec']) = f
         /\ Continue(<< f >>) => Tail(stack'[exec']) = Tail(stack[exec])
         /\ \A f2 \in Frame : Continue(<< f, f2 >>) =>
              Tail(stack'[exec']) = << f2 >> \o Tail(stack[exec])
<1> DEFINE T == Tail(stack[exec])
<1>1. stack \in [Thread -> Seq(Frame)] /\ exec \in Thread
  BY ChainNow
<1>2. T \in Seq(Frame)
  BY BelowTop
<1> HIDE DEF T
<1>3. CASE Continue(<< f >>)
  <2>1. stack'[exec] = << f >> \o T
    BY <1>1, <1>3 DEF Continue, T
  <2>2. << f >> \o T # << >> /\ Head(<< f >> \o T) = f /\ Tail(<< f >> \o T) = T
    BY <1>2, OnTopFacts
  <2>3. \A f2 \in Frame : Continue(<< f, f2 >>) => T = << f2 >> \o T
    <3>1. SUFFICES ASSUME NEW f2 \in Frame, Continue(<< f, f2 >>)
                   PROVE  T = << f2 >> \o T
      OBVIOUS
    <3>2. stack'[exec] = << f, f2 >> \o T
      BY <1>1, <3>1 DEF Continue, T
    <3>3. << f2 >> \o T \in Seq(Frame) /\ << f, f2 >> \o T = << f >> \o (<< f2 >> \o T)
      BY <1>2, OnTopFacts, OnTopTwo
    <3>4. Tail(<< f, f2 >> \o T) = << f2 >> \o T
      BY <3>3, OnTopFacts
    <3> QED  BY <2>1, <2>2, <3>2, <3>4
  <2> QED  BY <2>1, <2>2, <2>3 DEF T
<1>4. CASE ~ Continue(<< f >>)
  <2>1. \A f2 \in Frame : Continue(<< f, f2 >>) =>
          /\ stack'[exec] # << >> /\ Head(stack'[exec]) = f
          /\ Tail(stack'[exec]) = << f2 >> \o T
    <3>1. SUFFICES ASSUME NEW f2 \in Frame, Continue(<< f, f2 >>)
                   PROVE  /\ stack'[exec] # << >> /\ Head(stack'[exec]) = f
                          /\ Tail(stack'[exec]) = << f2 >> \o T
      OBVIOUS
    <3>2. stack'[exec] = << f, f2 >> \o T
      BY <1>1, <3>1 DEF Continue, T
    <3> DEFINE r == << f2 >> \o T
    <3>3. r \in Seq(Frame) /\ << f, f2 >> \o T = << f >> \o r
      BY <1>2, OnTopFacts, OnTopTwo
    <3> HIDE DEF r
    <3>4. << f >> \o r # << >> /\ Head(<< f >> \o r) = f /\ Tail(<< f >> \o r) = r
      BY <3>3, OnTopFacts
    <3> QED  BY <3>2, <3>3, <3>4 DEF r
  <2> QED  BY <1>4, <2>1 DEF T
<1> QED  BY <1>3, <1>4

\* The wakeup of a queue goes on until nobody is left in it.
LEMMA WakingStep ==
  ASSUME IInv, [Next]_vars, NEW q \in WaitQueueId, Waking(q)
  PROVE  \/ Waking(q)'
         \/ WakeupDone /\ links.queue[q] = << >> /\ links' = links
<1>1. At({"OSWakeupThread", "WakeupLinked"}) /\ Arg = q
  BY DEF Waking
<1>2. CASE UNCHANGED vars
  BY <1>2 DEF Waking, At, Arg, vars, fiberVars
<1>3. CASE WakeupDone
  BY <1>1, <1>3 DEF WakeupDone
<1>4. CASE OSWakeupThread
  <2>1. exec' = exec /\ (stack' = stack \/ Continue(<< Call("WakeupLinked", q) >>))
    BY <1>1, <1>4 DEF OSWakeupThread
  <2>2. CASE stack' = stack
    BY <2>1, <2>2 DEF Waking, At, Arg
  <2>3. CASE Continue(<< Call("WakeupLinked", q) >>)
    <3>1. Call("WakeupLinked", q) \in Frame /\ stack[exec] # << >>
      BY <1>1, FrameFacts DEF At
    <3>2. stack'[exec'] # << >> /\ Head(stack'[exec']) = Call("WakeupLinked", q)
      BY <2>1, <2>3, <3>1, NextFrame
    <3>3. At({"WakeupLinked"})' /\ Arg' = q
      BY <3>2, FramesFacts DEF At, Arg
    <3> QED  BY <3>3 DEF Waking, At
  <2> QED  BY <2>1, <2>2, <2>3
<1> QED  BY <1>1, <1>2, <1>3, <1>4, WakeupOnly

\* A mutex that has lost its owner is being woken.
LEMMA OwnerLeaves ==
  ASSUME IInv, [Next]_vars, NEW m \in Mutex, owner[m] # Null, owner'[m] = Null
  PROVE  Waking(m)'
<1>1. OSLockMutex \/ OSUnlockMutex \/ UnlockAll
  BY MutexFieldSteps
<1>2. owner \in [Mutex -> Thread \cup {Null}] /\ held \in [Thread -> Seq(Mutex)]
  BY DEF IInv, TypeOK
<1>3. ~ OSLockMutex
  <2>1. SUFFICES ASSUME OSLockMutex PROVE FALSE
    OBVIOUS
  <2>2. owner' = owner \/ owner' = [owner EXCEPT ![Arg] = exec]
    BY <2>1 DEF OSLockMutex
  <2>3. exec # Null
    BY ChainNow, AddressFacts
  <2> QED  BY <1>2, <2>2, <2>3
<1>4. ASSUME Continue(<< Call("OSWakeupThread", m) >>)
             \/ \E f2 \in Frame : Continue(<< Call("OSWakeupThread", m), f2 >>),
             stack[exec] # << >>, exec' = exec
      PROVE  Waking(m)'
  <2>1. Call("OSWakeupThread", m) \in Frame
    BY FrameFacts, AddressFacts
  <2>2. stack'[exec'] # << >> /\ Head(stack'[exec']) = Call("OSWakeupThread", m)
    BY <1>4, <2>1, NextFrame
  <2>3. At({"OSWakeupThread"})' /\ Arg' = m
    BY <2>2, FramesFacts DEF At, Arg
  <2> QED  BY <2>3 DEF Waking, At
<1>5. CASE OSUnlockMutex
  <2>1. At({"OSUnlockMutex"}) /\ exec' = exec /\ stack[exec] # << >>
    BY <1>5 DEF OSUnlockMutex, At
  <2>2. LastUnlock(Arg) /\ owner' = [owner EXCEPT ![Arg] = Null]
        /\ Continue(<< Call("OSWakeupThread", Arg) >>)
    BY <1>5 DEF OSUnlockMutex
  <2>3. Arg = m
    BY <1>2, <2>2
  <2> QED  BY <1>4, <2>1, <2>2, <2>3
<1>6. CASE UnlockAll
  <2>1. At({"UnlockAll"}) /\ exec' = exec /\ stack[exec] # << >>
    BY <1>6 DEF UnlockAll, At
  <2>2. Arg \in Thread
    BY <2>1, TopFacts, ArgFacts DEF Arg
  <2>3. /\ owner' = [owner EXCEPT ![Head(held[Arg])] = Null]
        /\ Continue(<< Call("OSWakeupThread", Head(held[Arg])), Call("UnlockAll", Arg) >>)
    BY <1>6 DEF UnlockAll
  <2>4. Head(held[Arg]) = m
    BY <1>2, <2>3
  <2>5. Call("UnlockAll", Arg) \in Frame
    BY <2>2, FrameFacts
  <2> QED  BY <1>4, <2>1, <2>3, <2>4, <2>5
<1> QED  BY <1>1, <1>3, <1>5, <1>6

\* Whoever goes to sleep has decided to.
LEMMA SleepsAbout ==
  ASSUME IInv, NEW q, At({"OSSleepThread"}), Arg = q
  PROVE  AboutToSleep(q)
<1>1. /\ Head(stack[exec]) \in Frame /\ Head(stack[exec]).op = "OSSleepThread"
      /\ Head(stack[exec]).arg = q
  BY TopFacts DEF Arg
<1>2. Head(stack[exec]) = Call("OSSleepThread", q)
  BY <1>1 DEF Frame, Call, ThreadCall, QueueCall, MutexCall, PlainCall
<1>3. ToSet(stack[exec]) = {Head(stack[exec])} \cup ToSet(Tail(stack[exec]))
  <2>1. stack[exec] # << >>
    BY DEF At
  <2> QED  BY <2>1, BelowTop, OnTopSets
<1> QED  BY <1>2, <1>3 DEF AboutToSleep

LEMMA WaitersLinkedStep ==
  ASSUME IInv, IInv', WaitersLinked, [Next]_vars
  PROVE  WaitersLinked'
<1>1. SUFFICES ASSUME NEW t \in Thread, state'[t] = "waiting"
               PROVE  t \in Members(links.at[t])' \/ links'.at[t] \in Thread
  BY DEF WaitersLinked
<1>2. \/ t \in In(links', links'.at[t])
      \/ /\ state[t] = "waiting" /\ links'.at[t] = links.at[t]
         /\ t \in In(links, links.at[t]) => At({"OSCreateThread"}) /\ Arg = links.at[t]
  BY <1>1, LinksStep DEF LinkStep, StayStep
<1>3. state[t] = "waiting" => t \in In(links, links.at[t]) \/ links.at[t] \in Thread
  BY DEF WaitersLinked, Members, In
<1>4. At({"OSCreateThread"}) => Arg \in Thread
  <2>1. SUFFICES ASSUME At({"OSCreateThread"}) PROVE Arg \in Thread
    OBVIOUS
  <2> QED  BY <2>1, TopFacts, ArgFacts DEF Arg, ThreadCall
<1> QED  BY <1>2, <1>3, <1>4 DEF Members, In

LEMMA SleepsOnOwnedStep ==
  ASSUME Disciplined, IInv, IInv', DecidingNext, SleepsOnOwned, [Next]_vars
  PROVE  SleepsOnOwned'
<1>1. SUFFICES ASSUME NEW m \in Mutex, AboutToSleep(m)'
               PROVE  blockedOn'[exec'] = m /\ owner'[m] # Null
  BY DEF SleepsOnOwned
<1>2. /\ blockedOn \in [Thread -> Mutex \cup {Null}] /\ owner \in [Mutex -> Thread \cup {Null}]
      /\ exec \in Thread
  BY DEF IInv, TypeOK
<1>3. m \notin Thread /\ m \notin WaitQueue
  BY AddressesDistinct
<1>4. ~ NobodyDecides'
  BY <1>1, NobodySleepsNext
<1>5. AboutToSleep(m) => blockedOn[exec] = m /\ owner[m] # Null
  BY DEF SleepsOnOwned
<1>6. CASE Promote
  BY <1>1, <1>5, <1>6, PromoteDecides
<1>7. CASE OSLockMutex
  BY <1>1, <1>2, <1>4, <1>7, LockDecides
<1>8. CASE OSJoinThread
  <2>1. At({"OSJoinThread"})
    BY <1>8 DEF OSJoinThread
  <2>2. Arg \in Thread
    BY <2>1, TopFacts, ArgFacts DEF Arg, ThreadCall
  <2>3. m = Arg
    BY <1>1, <1>4, <1>8, JoinDecides
  <2> QED  BY <1>3, <2>2, <2>3
<1>9. CASE GuestCall
  BY <1>1, <1>3, <1>4, <1>9, GuestDecides
<1>10. CASE UNCHANGED vars
  BY <1>1, <1>5, <1>10 DEF AboutToSleep, vars, fiberVars, mutexVars
<1> QED  BY <1>4, <1>6, <1>7, <1>8, <1>9, <1>10, DecideSteps

\* A thread that is linked at a mutex afterwards was linked there and waited for
\* it, or goes to sleep there having decided to.
LEMMA LockWaiterBefore ==
  ASSUME IInv, IInv', WaitersLinked, SleepsOnOwned, LockWaiters, [Next]_vars,
         NEW m \in Mutex, NEW t \in Thread, t \in Members(m)'
  PROVE  /\ blockedOn[t] = m
         /\ \/ t \in Members(m) /\ state[t] = "waiting"
            \/ At({"OSSleepThread"}) /\ Arg = m /\ t = exec /\ owner[m] # Null
<1>1. m \in WaitQueueId /\ m \notin Thread
  BY AddressesDistinct, AddressFacts
<1>2. \/ state[t] = "waiting" /\ links.at[t] = m
      \/ At({"OSSleepThread"}) /\ Arg = m /\ t = exec
  BY <1>1, LinksStep DEF LinkStep, EnterStep, Members, In
<1>3. CASE state[t] = "waiting" /\ links.at[t] = m
  <2>1. t \in Members(m)
    BY <1>1, <1>3 DEF WaitersLinked
  <2> QED  BY <1>3, <2>1 DEF LockWaiters
<1>4. CASE At({"OSSleepThread"}) /\ Arg = m /\ t = exec
  <2>1. AboutToSleep(m)
    BY <1>4, SleepsAbout
  <2> QED  BY <1>4, <2>1 DEF SleepsOnOwned
<1> QED  BY <1>2, <1>3, <1>4

LEMMA LockWaitersStep ==
  ASSUME IInv, IInv', WaitersLinked, SleepsOnOwned, LockWaiters, [Next]_vars
  PROVE  LockWaiters'
<1>1. SUFFICES ASSUME NEW m \in Mutex
               PROVE  /\ \A t \in Members(m)' : blockedOn'[t] = m
                      /\ links'.queue[m] # << >> => owner'[m] # Null \/ Waking(m)'
  BY DEF LockWaiters
<1>2. /\ blockedOn \in [Thread -> Mutex \cup {Null}] /\ owner \in [Mutex -> Thread \cup {Null}]
      /\ exec \in Thread /\ m \in WaitQueueId /\ m \in QueueId
  BY AddressFacts DEF IInv, TypeOK
<1>3. Members(m)' \subseteq Thread /\ links'.queue[m] \in Seq(Thread)
  BY <1>2, QueuesWellFormed DEF Members, WellFormed, ToSet
<1>4. \A t \in Members(m)' : blockedOn'[t] = m
  <2>1. SUFFICES ASSUME NEW t \in Members(m)'
                 PROVE  blockedOn'[t] = m
    OBVIOUS
  <2>2. t \in Thread /\ blockedOn[t] = m
    BY <1>3, LockWaiterBefore
  <2>3. \/ state[t] = "waiting"
        \/ At({"OSSleepThread"})
    BY <1>3, LockWaiterBefore
  <2>4. CASE OSLockMutex \/ LockRetry
    <3>1. At({"OSLockMutex", "LockRetry"})
      BY <2>4 DEF OSLockMutex, LockRetry, At
    <3>2. state[exec] = "running"
      BY <3>1, BusyTopFacts DEF Quiet, Barrier
    <3>3. t # exec
      BY <2>3, <3>1, <3>2 DEF At
    <3>4. blockedOn'[t] = blockedOn[t]
      BY <1>2, <2>2, <2>4, <3>3 DEF OSLockMutex, LockRetry
    <3> QED  BY <2>2, <3>4
  <2>5. CASE OSCreateThread
    <3>1. At({"OSCreateThread"}) /\ blockedOn' = [blockedOn EXCEPT ![Arg] = Null]
      BY <2>5 DEF OSCreateThread
    <3>2. Dead(Arg)
      BY <3>1 DEF IInv, ControlInv, CreateNext
    <3>3. t # Arg
      BY <2>3, <3>1, <3>2 DEF At, Dead
    <3> QED  BY <1>2, <2>2, <3>1, <3>3
  <2> QED  BY <2>2, <2>4, <2>5, MutexFieldSteps
<1>5. ASSUME links'.queue[m] # << >>
      PROVE  owner'[m] # Null \/ Waking(m)'
  <2>1. PICK t \in Thread : t \in Members(m)'
    BY <1>3, <1>5, HeadInToSet DEF Members
  <2>2. owner[m] # Null \/ Waking(m)
    <3>1. t \in Members(m) \/ owner[m] # Null
      BY <2>1, LockWaiterBefore
    <3>2. t \in Members(m) => links.queue[m] # << >>
      BY DEF Members, ToSet
    <3> QED  BY <3>1, <3>2 DEF LockWaiters
  <2>3. CASE owner[m] # Null
    BY <2>3, OwnerLeaves
  <2>4. CASE Waking(m)
    BY <1>2, <1>5, <2>4, WakingStep
  <2> QED  BY <2>2, <2>3, <2>4
<1> QED  BY <1>4, <1>5

LEMMA InitWaits ==
  ASSUME Init
  PROVE  WaitInv
<1>1. \A q \in QueueId : links.queue[q] = << >>
  BY DEF Init
<1>2. \A q \in WaitQueueId : links.queue[q] = << >> /\ Members(q) = {}
  BY <1>1, AddressFacts DEF Members, ToSet
<1>3. \A u \in Thread : stack[u] = << >> /\ ~ Has(stack[u], Deciding)
  BY DEF Init, Has
<1>4. exec \in Thread /\ \A t \in Thread : state[t] # "waiting"
  BY ConstantTypes DEF Init, ConstantTypes
<1>5. \A q : ~ AboutToSleep(q)
  BY <1>3, <1>4 DEF AboutToSleep, ToSet
<1>6. WaitQueuesSorted
  BY <1>2 DEF WaitQueuesSorted
<1>7. WaitersLinked /\ SleepsOnOwned
  BY <1>4, <1>5 DEF WaitersLinked, SleepsOnOwned
<1>8. DecidingNext
  BY <1>3, <1>4 DEF DecidingNext
<1>9. LockWaiters
  <2>1. Mutex \subseteq WaitQueueId
    BY AddressFacts
  <2> QED  BY <1>2, <2>1 DEF LockWaiters
<1> QED  BY <1>6, <1>7, <1>8, <1>9 DEF WaitInv

LEMMA WaitStep ==
  ASSUME Disciplined, IInv, IInv', WaitInv, [Next]_vars
  PROVE  WaitInv'
<1>1. WaitQueuesSorted'
  <2>1. WaitQueuesSorted <=> WaitSorted(links, prio)
    BY DEF WaitQueuesSorted, WaitSorted, SortedBy
  <2>2. WaitQueuesSorted' <=> WaitSorted(links', prio')
    BY DEF WaitQueuesSorted, WaitSorted, SortedBy
  <2> QED  BY <2>1, <2>2, LinksStep DEF LinkStep, SortStep, WaitInv
<1>2. WaitersLinked'
  BY WaitersLinkedStep DEF WaitInv
<1>3. DecidingNext'
  BY DecidingStep DEF WaitInv
<1>4. SleepsOnOwned'
  BY SleepsOnOwnedStep DEF WaitInv
<1>5. LockWaiters'
  BY LockWaitersStep DEF WaitInv
<1> QED  BY <1>1, <1>2, <1>3, <1>4, <1>5 DEF WaitInv

\* The second invariant holds in every reachable state: who waits is linked
\* where its queue pointer says, and nothing comes between the decision to wait
\* for a mutex and the wait.
THEOREM WaitInvariantHolds ==
  ASSUME Disciplined
  PROVE  Spec => []WaitInv
<1>1. Init => WaitInv
  BY InitWaits
<1>2. IInv /\ IInv' /\ WaitInv /\ [Next]_vars => WaitInv'
  BY WaitStep
<1> QED  BY <1>1, <1>2, InvariantHolds, PTL DEF Spec

\* Every wait queue is in the order of the priorities that its threads have now,
\* through every wakeup, suspension, resumption and inheritance.
THEOREM QueuesStaySorted ==
  ASSUME Disciplined
  PROVE  Spec => []WaitQueuesSorted
<1>1. WaitInv => WaitQueuesSorted
  BY DEF WaitInv
<1> QED  BY <1>1, WaitInvariantHolds, PTL

\* Whoever is linked at a mutex waits for that mutex, and somebody owns it or its
\* queue is being woken: no waiter is left behind by an unlock.
THEOREM LockWaitersAreWoken ==
  ASSUME Disciplined
  PROVE  Spec => []MutexWaitersWoken
<1>1. IInv /\ WaitInv => MutexWaitersWoken
  <2>1. SUFFICES ASSUME IInv, WaitInv, NEW m \in Mutex
                 PROVE  /\ \A t \in ToSet(links.queue[m]) : blockedOn[t] = m
                        /\ links.queue[m] # << >> =>
                             \/ owner[m] # Null
                             \/ Pending(Call("OSWakeupThread", m))
                             \/ Pending(Call("WakeupLinked", m))
    BY DEF MutexWaitersWoken
  <2>2. ASSUME Waking(m)
        PROVE  Pending(Call("OSWakeupThread", m)) \/ Pending(Call("WakeupLinked", m))
    <3>1. At({"OSWakeupThread", "WakeupLinked"}) /\ Arg = m
      BY <2>2 DEF Waking
    <3>2. /\ stack[exec] # << >> /\ Head(stack[exec]) \in Frame /\ exec \in Thread
          /\ Head(stack[exec]).op \in {"OSWakeupThread", "WakeupLinked"}
          /\ Head(stack[exec]).arg = m
      BY <2>1, <3>1, TopFacts DEF Arg
    <3>3. Head(stack[exec]) \in {Call("OSWakeupThread", m), Call("WakeupLinked", m)}
      BY <3>2 DEF Frame, Call, ThreadCall, QueueCall, MutexCall, PlainCall
    <3>4. Head(stack[exec]) \in ToSet(stack[exec])
      <4>1. ToSet(stack[exec]) = {Head(stack[exec])} \cup ToSet(Tail(stack[exec]))
        BY <2>1, <3>2, BelowTop, OnTopSets
      <4> QED  BY <4>1
    <3> QED  BY <3>2, <3>3, <3>4 DEF Pending
  <2> QED  BY <2>1, <2>2 DEF WaitInv, LockWaiters, Members
<1> QED  BY <1>1, InvariantHolds, WaitInvariantHolds, PTL

-----------------------------------------------------------------------------
(* The last rites of a thread.                                             *)

NobodyEnds == \A u \in Thread : ~ Has(stack[u], {"UnlockAll"})

LEMMA NobodyEndsNext ==
  ASSUME IInv', NobodyEnds'
  PROVE  RitesNext'
<1>1. /\ exec' \in Thread /\ stack'[exec'] \in Seq(Frame)
      /\ \A u \in Thread : ~ Has(stack'[u], {"UnlockAll"})
  BY DEF IInv, TypeOK, NobodyEnds
<1>2. stack'[exec'] # << >> => /\ Head(stack'[exec']).op # "UnlockAll"
                               /\ ~ Has(Tail(stack'[exec']), {"UnlockAll"})
  <2>1. << >> \in Seq(Frame)
    OBVIOUS
  <2> DEFINE s == stack'[exec']
  <2>2. s \in Seq(Frame) /\ ~ Has(s, {"UnlockAll"})
    BY <1>1
  <2> HIDE DEF s
  <2>3. s # << >> => Head(s).op # "UnlockAll" /\ ~ Has(Tail(s), {"UnlockAll"})
    BY <2>1, <2>2, HasReplace
  <2> QED  BY <2>3 DEF s
<1>3. ~ At({"UnlockAll"})'
  BY <1>2 DEF At
<1> QED  BY <1>1, <1>2, <1>3 DEF RitesNext

LEMMA NobodyEndsAfter ==
  ASSUME IInv, RitesNext, AddsNone({"UnlockAll"})
  PROVE  NobodyEnds'
<1>1. exec \in Thread /\ \A u \in Thread \ {exec} : ~ Has(stack[u], {"UnlockAll"})
  BY DEF IInv, TypeOK, RitesNext
<1>2. ~ Has(<< >>, {"UnlockAll"})
  BY DEF Has
<1>3. stack[exec] # << >> => ~ Has(Tail(stack[exec]), {"UnlockAll"})
  BY DEF RitesNext
<1> QED  BY <1>1, <1>2, <1>3 DEF AddsNone, NobodyEnds

\* The steps that decide something put no last rites on a chain.
LEMMA DeciderAdds ==
  ASSUME IInv, Promote \/ OSLockMutex \/ OSJoinThread
  PROVE  AddsNone({"UnlockAll"})
<1>1. stack[exec] # << >>
  BY DEF Promote, OSLockMutex, OSJoinThread, At
<1>2. Return => AddsNone({"UnlockAll"})
  BY <1>1, ReturnAdds
<1>3. CASE Promote /\ ~ Return
  <2>1. At({"Promote"}) /\ Continue(<< Call("Promote", NextInChain(Arg)) >>) /\ Arg # Null
    BY <1>3 DEF Promote
  <2>2. Arg \in Thread
    BY <2>1, TopFacts, ArgFacts DEF Arg
  <2>3. NextInChain(Arg) \in Thread \cup {Null}
    BY <2>2, ChainFacts DEF IInv
  <2> DEFINE f == Call("Promote", NextInChain(Arg))
  <2>4. f \in Frame /\ f.op = "Promote"
    BY <2>3, FrameFacts, FramesFacts
  <2> HIDE DEF f
  <2>5. f.op \notin {"UnlockAll"} /\ Continue(<< f >>)
    BY <2>1, <2>4 DEF f
  <2> QED  BY <1>1, <2>4, <2>5, ReturnAdds
<1>4. CASE OSLockMutex /\ ~ Return
  <2>1. /\ At({"OSLockMutex"}) /\ owner[Arg] # Null
        /\ Continue(<< Call("Promote", owner[Arg]), Call("OSSleepThread", Arg),
                       Call("LockRetry", Arg) >>)
    BY <1>4 DEF OSLockMutex
  <2>2. Arg \in Mutex /\ Arg \in WaitQueueId
    BY <2>1, TopFacts, ArgFacts, AddressFacts DEF Arg
  <2>3. owner[Arg] \in Thread
    BY <2>1, <2>2 DEF IInv, TypeOK
  <2> DEFINE f1 == Call("Promote", owner[Arg])
             f2 == Call("OSSleepThread", Arg)
             f3 == Call("LockRetry", Arg)
  <2>4. f1 \in Frame /\ f2 \in Frame /\ f3 \in Frame
    BY <2>2, <2>3, FrameFacts
  <2>5. f1.op = "Promote" /\ f2.op = "OSSleepThread" /\ f3.op = "LockRetry"
    BY FramesFacts
  <2>6. Continue(<< f1, f2, f3 >>)
    BY <2>1
  <2> HIDE DEF f1, f2, f3
  <2>7. /\ << f1, f2, f3 >> \in Seq(Frame)
        /\ \A i \in DOMAIN << f1, f2, f3 >> : << f1, f2, f3 >>[i] \in {f1, f2, f3}
    BY <2>4, FramesFacts
  <2>8. \A i \in DOMAIN << f1, f2, f3 >> : << f1, f2, f3 >>[i].op \notin {"UnlockAll"}
    BY <2>5, <2>7
  <2> QED  BY <1>1, <2>6, <2>7, <2>8, ContinueAdds
<1>5. CASE OSJoinThread /\ ~ Return
  <2>1. At({"OSJoinThread"}) /\ Continue(<< Call("OSSleepThread", Arg), Call("JoinReturn", Arg) >>)
    BY <1>5 DEF OSJoinThread
  <2>2. Arg \in Thread /\ Arg \in WaitQueueId
    BY <2>1, TopFacts, ArgFacts, AddressFacts DEF Arg, ThreadCall
  <2> DEFINE f1 == Call("OSSleepThread", Arg)
             f2 == Call("JoinReturn", Arg)
  <2>3. f1 \in Frame /\ f2 \in Frame
    BY <2>2, FrameFacts
  <2>4. f1.op = "OSSleepThread" /\ f2.op = "JoinReturn"
    BY FramesFacts
  <2>5. Continue(<< f1, f2 >>)
    BY <2>1
  <2> HIDE DEF f1, f2
  <2>6. f1.op \notin {"UnlockAll"} /\ f2.op \notin {"UnlockAll"}
    BY <2>4
  <2> QED  BY <1>1, <2>3, <2>5, <2>6, ReturnAdds
<1> QED  BY <1>2, <1>3, <1>4, <1>5

\* A thread ends with its last rites next, the waking of its joiners after them.
LEMMA TerminateNext ==
  ASSUME IInv, stack[exec] # << >>, NEW t \in Thread,
         NEW op \in {"ExitReschedule", "Reschedule"}, Terminate(t, Call(op, Null))
  PROVE  LET r == stack'[exec]
         IN  /\ r # << >> /\ Head(r) = Call("UnlockAll", t)
             /\ Tail(r) # << >> /\ Head(Tail(r)) = Call("OSWakeupThread", t)
             /\ \A ops : Has(Tail(r), ops) =>
                  "OSWakeupThread" \in ops \/ op \in ops \/ Has(Tail(stack[exec]), ops)
<1> DEFINE f1 == Call("UnlockAll", t)
           f2 == Call("OSWakeupThread", t)
           f3 == Call(op, Null)
           T == Tail(stack[exec])
           r3 == << f3 >> \o T
           r2 == << f2 >> \o r3
<1>1. f1 \in Frame /\ f2 \in Frame /\ f3 \in Frame /\ T \in Seq(Frame)
  BY FrameFacts, AddressFacts, BelowTop
<1>2. f2.op = "OSWakeupThread" /\ f3.op = op
  BY FramesFacts
<1>3. exec \in Thread /\ stack'[exec] = << f1, f2, f3 >> \o T
  BY ChainNow DEF Terminate, LastRites
<1> HIDE DEF f1, f2, f3, T
<1>4. << f1, f2, f3 >> \o T = << f1 >> \o r2
  BY <1>1, OnTopThree
<1>5. r3 \in Seq(Frame) /\ \A ops : Has(r3, ops) <=> f3.op \in ops \/ Has(T, ops)
  BY <1>1, OnTopFacts
<1> HIDE DEF r3
<1>6. /\ r2 \in Seq(Frame) /\ r2 # << >> /\ Head(r2) = f2
      /\ \A ops : Has(r2, ops) <=> f2.op \in ops \/ Has(r3, ops)
  BY <1>1, <1>5, OnTopFacts
<1> HIDE DEF r2
<1>7. << f1 >> \o r2 # << >> /\ Head(<< f1 >> \o r2) = f1 /\ Tail(<< f1 >> \o r2) = r2
  BY <1>1, <1>6, OnTopFacts
<1>8. \A ops : Has(r2, ops) => "OSWakeupThread" \in ops \/ op \in ops \/ Has(T, ops)
  BY <1>2, <1>5, <1>6
<1> QED  BY <1>3, <1>4, <1>6, <1>7, <1>8 DEF f1, f2, T

\* Which thread a step ends.
LEMMA EndingStep ==
  ASSUME IInv, OSExitThread \/ OSCancelThread
  PROVE  \/ Return /\ state' = state /\ listed' = listed
         \/ \E t \in Thread, op \in {"ExitReschedule", "Reschedule"} :
              /\ Terminate(t, Call(op, Null))
              /\ (OSExitThread /\ t = exec) \/ (OSCancelThread /\ t = Arg)
<1>1. CASE OSExitThread
  <2>1. At({"OSExitThread"})
    BY <1>1 DEF OSExitThread
  <2>2. running = exec /\ exec \in Thread /\ exec # Null
    BY <2>1, TopFacts, BusyTopFacts, AddressFacts DEF Quiet, Barrier
  <2>3. Terminate(exec, Call("ExitReschedule", Null))
    BY <1>1, <2>2 DEF OSExitThread
  <2> QED  BY <1>1, <2>2, <2>3
<1>2. CASE OSCancelThread
  <2>1. At({"OSCancelThread"})
    BY <1>2 DEF OSCancelThread
  <2>2. Arg \in Thread
    BY <2>1, TopFacts, ArgFacts DEF Arg, ThreadCall
  <2> QED  BY <1>2, <2>2 DEF OSCancelThread
<1> QED  BY <1>1, <1>2

LEMMA RitesStep ==
  ASSUME Disciplined, IInv, IInv', RitesNext, ReleasesFirst, [Next]_vars
  PROVE  RitesNext'
<1>1. CASE AddsNone({"UnlockAll"})
  BY <1>1, NobodyEndsAfter, NobodyEndsNext
<1>2. CASE Promote \/ OSLockMutex \/ OSJoinThread
  BY <1>2, DeciderAdds, NobodyEndsAfter, NobodyEndsNext
<1>3. CASE UnlockAll
  <2>1. At({"UnlockAll"}) /\ stack[exec] # << >> /\ held[Arg] = << >>
    BY <1>3 DEF UnlockAll, At, RitesNext
  <2>2. Return
    BY <1>3, <2>1 DEF UnlockAll
  <2>3. AddsNone({"UnlockAll"})
    BY <2>1, <2>2, ReturnAdds
  <2> QED  BY <2>3, NobodyEndsAfter, NobodyEndsNext
<1>4. CASE OSExitThread \/ OSCancelThread
  <2>1. At({"OSExitThread", "OSCancelThread"}) /\ stack[exec] # << >> /\ exec' = exec
        /\ UNCHANGED held
    BY <1>4 DEF OSExitThread, OSCancelThread, At, mutexVars
  <2>2. CASE Return
    <3>1. AddsNone({"UnlockAll"})
      BY <2>1, <2>2, ReturnAdds
    <3> QED  BY <3>1, NobodyEndsAfter, NobodyEndsNext
  <2>3. ASSUME NEW t \in Thread, NEW op \in {"ExitReschedule", "Reschedule"},
               Terminate(t, Call(op, Null)),
               (OSExitThread /\ t = exec) \/ (OSCancelThread /\ t = Arg)
        PROVE  RitesNext'
    <3>1. held[t] = << >>
      <4>1. OSExitThread => At({"OSExitThread"})
        BY DEF OSExitThread
      <4>2. OSCancelThread => At({"OSCancelThread"})
        BY DEF OSCancelThread
      <4> QED  BY <2>3, <4>1, <4>2 DEF ReleasesFirst
    <3>2. /\ Head(stack'[exec]) = Call("UnlockAll", t)
          /\ \A ops : Has(Tail(stack'[exec]), ops) =>
               "OSWakeupThread" \in ops \/ op \in ops \/ Has(Tail(stack[exec]), ops)
      BY <2>1, <2>3, TerminateNext
    <3>3. ~ Has(Tail(stack'[exec]), {"UnlockAll"})
      <4>1. ~ Has(Tail(stack[exec]), {"UnlockAll"})
        BY <2>1 DEF RitesNext
      <4> QED  BY <3>2, <4>1
    <3>4. At({"UnlockAll"})' => held'[Arg'] = << >>
      BY <2>1, <3>1, <3>2, FramesFacts DEF Arg
    <3>5. \A u \in Thread \ {exec} : ~ Has(stack'[u], {"UnlockAll"})
      <4>1. ~ Has(<< >>, {"UnlockAll"})
        BY DEF Has
      <4>2. \A u \in Thread \ {exec} : stack'[u] \in {stack[u], << >>}
        BY <2>3 DEF Terminate
      <4> QED  BY <4>1, <4>2 DEF RitesNext
    <3> QED  BY <2>1, <3>3, <3>4, <3>5 DEF RitesNext
  <2> QED  BY <1>4, <2>2, <2>3, EndingStep
<1>5. CASE Dispatch
  <2>1. /\ stack \in [Thread -> Seq(Frame)] /\ exec \in Thread /\ stack[exec] # << >>
        /\ At({"Dispatch"})
    BY <1>5, ChainNow DEF Dispatch, At
  <2>2. ~ Has(stack[exec], {"UnlockAll"}) /\ ~ Has(Tail(stack[exec]), {"UnlockAll"})
        /\ ~ Has(<< >>, {"UnlockAll"})
    <3>1. ~ Has(Tail(stack[exec]), {"UnlockAll"}) /\ Head(stack[exec]).op \notin {"UnlockAll"}
      BY <2>1 DEF RitesNext, At
    <3>2. ~ Has(stack[exec], {"UnlockAll"})
      BY <2>1, <3>1, BelowTop
    <3> QED  BY <3>1, <3>2 DEF Has
  <2>3. \/ Return \/ stack' = stack
        \/ stack' = [stack EXCEPT ![exec] = IF Dead(exec) THEN << >> ELSE Tail(@)]
    BY <1>5 DEF Dispatch
  <2>4. CASE Return
    <3>1. AddsNone({"UnlockAll"})
      BY <2>1, <2>4, ReturnAdds
    <3> QED  BY <3>1, NobodyEndsAfter, NobodyEndsNext
  <2>5. CASE stack' = stack
    <3>1. NobodyEnds'
      BY <2>2, <2>5 DEF NobodyEnds, RitesNext
    <3> QED  BY <3>1, NobodyEndsNext
  <2>6. CASE stack' = [stack EXCEPT ![exec] = IF Dead(exec) THEN << >> ELSE Tail(@)]
    <3>1. \A u \in Thread \ {exec} : stack'[u] = stack[u]
      BY <2>6
    <3>2. stack'[exec] \in {<< >>, Tail(stack[exec])}
      BY <2>1, <2>6
    <3>3. NobodyEnds'
      BY <2>2, <3>1, <3>2 DEF NobodyEnds, RitesNext
    <3> QED  BY <3>3, NobodyEndsNext
  <2> QED  BY <2>3, <2>4, <2>5, <2>6
<1>6. CASE GuestCall
  <2>1. PICK c \in Frame :
          /\ c.op \in IF InGuestCode THEN GuestCalls[exec] ELSE CallbackCalls
          /\ stack' = [stack EXCEPT ![exec] = << c >> \o @]
    BY <1>6 DEF GuestCall
  <2>2. exec \in Thread /\ (InGuestCode \/ InCallback)
    BY <1>6, ChainNow DEF GuestCall
  <2>3. c.op \notin {"UnlockAll"}
    BY <2>1, <2>2, ConstantTypes
    DEF ConstantTypes, OSFunction, ThreadCall, QueueCall, MutexCall, PlainCall
  <2>4. stack[exec] = << >> \/ Head(stack[exec]).op \notin {"UnlockAll"}
    BY <2>2 DEF InGuestCode, InCallback, At
  <2>5. AddsNone({"UnlockAll"})
    BY <2>1, <2>3, <2>4, PushAdds
  <2> QED  BY <2>5, NobodyEndsAfter, NobodyEndsNext
<1>7. CASE UNCHANGED vars
  BY <1>7 DEF RitesNext, At, Arg, vars, fiberVars, mutexVars
<1> QED  BY <1>1, <1>2, <1>3, <1>4, <1>5, <1>6, <1>7, FramesStep DEF Marked

\* A step kills at most the thread that it terminates, and a thread that it
\* leaves on the active list still exists.
LEMMA EndsStep ==
  ASSUME IInv, [Next]_vars, NEW u \in Thread
  PROVE  /\ u \in listed' /\ state'[u] = "none" => u \in listed /\ state[u] = "none"
         /\ Dead(u)' =>
              \/ Dead(u)
              \/ \E op \in {"ExitReschedule", "Reschedule"} :
                   /\ Terminate(u, Call(op, Null)) /\ stack[exec] # << >>
                   /\ UNCHANGED << exec, held >>
                   /\ (OSExitThread /\ u = exec) \/ (OSCancelThread /\ u = Arg)
<1>1. /\ state \in [Thread -> {"none", "ready", "running", "waiting", "moribund"}]
      /\ listed \subseteq Thread
  BY DEF IInv, TypeOK
<1> DEFINE Ended == /\ u \in listed' /\ state'[u] = "none" => u \in listed /\ state[u] = "none"
                    /\ Dead(u)' => Dead(u)
<1>2. ASSUME listed' = listed,
             \/ state' = state
             \/ \E t, x : x \in {"ready", "running", "waiting"} /\ state' = [state EXCEPT ![t] = x]
      PROVE  Ended
  BY <1>1, <1>2 DEF Dead
<1> HIDE DEF Ended
<1>3. CASE SleepStep
  <2>1. listed' = listed
    BY <1>3
    DEF SleepStep, OSSleepThread, SleepReturn, OSSleepTicks, ParkReturn, SleepTimerDue,
        Reconcile, lifeVars
  <2>2. \/ state' = state
        \/ \E t, x : x \in {"ready", "running", "waiting"} /\ state' = [state EXCEPT ![t] = x]
    BY <1>3
    DEF SleepStep, OSSleepThread, SleepReturn, OSSleepTicks, ParkReturn, SleepTimerDue,
        Reconcile, threadVars
  <2> QED  BY <1>2, <2>1, <2>2 DEF Ended
<1>4. CASE SchedulerStep
  <2>1. listed' = listed
    BY <1>4
    DEF SchedulerStep, SelectThread, SelectReturns, SelectLeaves, Dispatch, Reschedule,
        IdleTimers, LeaveIdleLoop, OSWakeupThread, WakeupDone, lifeVars
  <2>2. \/ state' = state
        \/ \E t, x : x \in {"ready", "running", "waiting"} /\ state' = [state EXCEPT ![t] = x]
    BY <1>4
    DEF SchedulerStep, SelectThread, SelectReturns, SelectLeaves, Dispatch, Reschedule,
        IdleTimers, LeaveIdleLoop, OSWakeupThread, WakeupDone, threadVars
  <2> QED  BY <1>2, <2>1, <2>2 DEF Ended
<1>5. CASE MutexStep
  <2>1. listed' = listed /\ state' = state
    BY <1>5
    DEF MutexStep, Promote, Propagate, OSLockMutex, LockRetry, OSUnlockMutex, UnlockAll,
        threadVars, lifeVars
  <2> QED  BY <1>2, <2>1 DEF Ended
<1>6. CASE OSCreateThread
  <2>1. /\ listed' = listed \cup {Arg} /\ state' = [state EXCEPT ![Arg] = "ready"]
    BY <1>6 DEF OSCreateThread
  <2> QED  BY <1>1, <2>1 DEF Dead
<1>7. CASE OSSuspendThread \/ OSResumeThread \/ ExitReschedule
  <2>1. listed' = listed
    BY <1>7 DEF OSSuspendThread, OSResumeThread, ExitReschedule, lifeVars
  <2>2. \/ state' = state
        \/ \E t, x : x \in {"ready", "running", "waiting"} /\ state' = [state EXCEPT ![t] = x]
    BY <1>7 DEF OSSuspendThread, OSResumeThread, ExitReschedule, threadVars
  <2> QED  BY <1>2, <2>1, <2>2 DEF Ended
<1>8. CASE OSJoinThread \/ JoinReturn \/ OSDetachThread
  <2>1. (state' = state /\ listed' = listed) \/ (state[Arg] = "moribund" /\ Reap(Arg))
    BY <1>8 DEF OSJoinThread, JoinReturn, OSDetachThread
  <2> QED  BY <1>1, <2>1 DEF Reap, Dead
<1>9. CASE OSExitThread \/ OSCancelThread
  <2>1. stack[exec] # << >> /\ UNCHANGED << exec, held >>
    BY <1>9 DEF OSExitThread, OSCancelThread, At, mutexVars
  <2>2. CASE state' = state /\ listed' = listed
    BY <2>2 DEF Dead
  <2>3. ASSUME NEW t \in Thread, NEW op \in {"ExitReschedule", "Reschedule"},
               Terminate(t, Call(op, Null)),
               (OSExitThread /\ t = exec) \/ (OSCancelThread /\ t = Arg)
        PROVE  /\ u \in listed' /\ state'[u] = "none" => u \in listed /\ state[u] = "none"
               /\ Dead(u)' => Dead(u) \/ u = t
    BY <1>1, <2>3 DEF Terminate, Dead
  <2> QED  BY <1>9, <2>1, <2>2, <2>3, EndingStep
<1>10. CASE CallbackStep \/ GuestCall \/ UNCHANGED vars
  <2>1. listed' = listed /\ state' = state
    BY <1>10
    DEF CallbackStep, IdleCallback, IdleCallbackReturns, BeginCallback, EndCallback,
        GuestCall, vars, threadVars, lifeVars
  <2> QED  BY <1>2, <2>1 DEF Ended
<1> QED
  BY <1>3, <1>4, <1>5, <1>6, <1>7, <1>8, <1>9, <1>10, NobodyReturns
  DEF Next, HleStep, LifeStep, Ended

LEMMA DeadHoldNothingStep ==
  ASSUME IInv, IInv', RitesNext, DeadHoldNothing, ReleasesFirst, [Next]_vars
  PROVE  DeadHoldNothing'
<1>1. SUFFICES ASSUME NEW t \in Thread, Dead(t)'
               PROVE  held'[t] = << >>
  BY DEF DeadHoldNothing
<1>2. held \in [Thread -> Seq(Mutex)] /\ exec \in Thread
  BY DEF IInv, TypeOK
<1>3. ASSUME NEW op \in {"ExitReschedule", "Reschedule"}, UNCHANGED held,
             (OSExitThread /\ t = exec) \/ (OSCancelThread /\ t = Arg)
      PROVE  held'[t] = << >>
  <2>1. OSExitThread => At({"OSExitThread"})
    BY DEF OSExitThread
  <2>2. OSCancelThread => At({"OSCancelThread"})
    BY DEF OSCancelThread
  <2> QED  BY <1>3, <2>1, <2>2 DEF ReleasesFirst
<1>4. CASE Dead(t)
  <2>1. held[t] = << >>
    BY <1>4 DEF DeadHoldNothing
  <2>2. CASE OSLockMutex \/ OSUnlockMutex
    <3>1. At({"OSLockMutex", "OSUnlockMutex"})
      BY <2>2 DEF OSLockMutex, OSUnlockMutex, At
    <3>2. state[exec] = "running"
      BY <3>1, BusyTopFacts DEF Quiet, Barrier
    <3>3. t # exec
      BY <1>4, <3>2 DEF Dead
    <3>4. held' = held \/ \E x : held' = [held EXCEPT ![exec] = x]
      BY <2>2 DEF OSLockMutex, OSUnlockMutex
    <3> QED  BY <1>2, <2>1, <3>3, <3>4
  <2>3. CASE UnlockAll
    <3>1. held[Arg] = << >>
      BY <2>3 DEF UnlockAll, RitesNext
    <3>2. held' = held
      BY <2>3, <3>1 DEF UnlockAll
    <3> QED  BY <2>1, <3>2
  <2>4. CASE OSCreateThread
    <3>1. held' = [held EXCEPT ![Arg] = << >>]
      BY <2>4 DEF OSCreateThread
    <3> QED  BY <1>2, <2>1, <3>1
  <2> QED  BY <2>1, <2>2, <2>3, <2>4, MutexFieldSteps
<1> QED  BY <1>1, <1>3, <1>4, EndsStep

LEMMA ListedExistStep ==
  ASSUME IInv, IInv', ListedExist, [Next]_vars
  PROVE  ListedExist'
<1>1. listed' \subseteq Thread
  BY DEF IInv, TypeOK
<1> QED  BY <1>1, EndsStep DEF ListedExist

LEMMA JoinsListedStep ==
  ASSUME Disciplined, IInv, IInv', DecidingNext, JoinsListed, [Next]_vars
  PROVE  JoinsListed'
<1>1. SUFFICES ASSUME At({"OSJoinThread"})'
               PROVE  Arg' \in listed'
  BY DEF JoinsListed
<1>2. stack'[exec'] # << >> /\ Head(stack'[exec']).op = "OSJoinThread"
  BY <1>1 DEF At
<1>3. ~ NobodyDecides'
  <2>1. SUFFICES ASSUME NobodyDecides'
                 PROVE  FALSE
    OBVIOUS
  <2>2. exec' \in Thread /\ stack'[exec'] \in Seq(Frame)
    BY DEF IInv, TypeOK
  <2> DEFINE s == stack'[exec']
  <2>3. s \in Seq(Frame) /\ s # << >> /\ ~ Has(s, Deciding) /\ Head(s).op = "OSJoinThread"
    BY <1>2, <2>1, <2>2 DEF NobodyDecides
  <2> HIDE DEF s
  <2>4. << >> \in Seq(Frame)
    OBVIOUS
  <2>5. Head(s).op \notin Deciding
    BY <2>3, <2>4, HasReplace
  <2> QED  BY <2>3, <2>5 DEF Deciding
<1>4. ~ Promote
  BY <1>2, PromoteDecides
<1>5. ~ OSLockMutex
  <2>1. Call("Promote", owner[Arg]).op = "Promote"
    BY FramesFacts
  <2> QED  BY <1>2, <1>3, <2>1, LockDecides
<1>6. ~ OSJoinThread
  BY <1>2, <1>3, JoinDecides
<1>7. CASE GuestCall
  <2>1. PICK c \in Frame : exec' = exec /\ stack'[exec] = << c >> /\ Legal(c)
    BY <1>3, <1>7, GuestDecides
  <2>2. Head(<< c >>) = c
    OBVIOUS
  <2>3. c.op = "OSJoinThread" /\ Arg' = c.arg
    BY <1>2, <2>1, <2>2 DEF Arg
  <2>4. c.arg \in listed /\ listed' = listed
    BY <1>7, <2>1, <2>3 DEF Legal, ThreadCall, GuestCall, lifeVars
  <2> QED  BY <2>3, <2>4
<1>8. CASE UNCHANGED vars
  BY <1>1, <1>8 DEF JoinsListed, At, Arg, vars, fiberVars, lifeVars
<1> QED  BY <1>3, <1>4, <1>5, <1>6, <1>7, <1>8, DecideSteps

LEMMA JoinsLivingStep ==
  ASSUME Disciplined, IInv, IInv', DecidingNext, ListedExist, JoinsListed, JoinsLiving,
         [Next]_vars
  PROVE  JoinsLiving'
<1>1. SUFFICES ASSUME NEW t \in Thread, AboutToSleep(t)'
               PROVE  ~ Dead(t)'
  BY DEF JoinsLiving
<1>2. ~ NobodyDecides'
  BY <1>1, NobodySleepsNext
<1>3. t \notin Mutex /\ t \notin WaitQueue
  BY AddressesDistinct
<1>4. CASE Promote
  <2>1. AboutToSleep(t) /\ state' = state
    BY <1>1, <1>4, PromoteDecides DEF Promote
  <2> QED  BY <2>1 DEF JoinsLiving, Dead
<1>5. CASE OSLockMutex
  <2>1. At({"OSLockMutex"})
    BY <1>5 DEF OSLockMutex
  <2>2. Arg \in Mutex
    BY <2>1, TopFacts, ArgFacts DEF Arg
  <2> QED  BY <1>1, <1>2, <1>3, <1>5, <2>2, LockDecides
<1>6. CASE OSJoinThread
  <2>1. t = Arg /\ state[Arg] # "moribund" /\ state' = state
    BY <1>1, <1>2, <1>6, JoinDecides
  <2>2. Arg \in listed
    BY <1>6 DEF OSJoinThread, JoinsListed
  <2> QED  BY <2>1, <2>2 DEF ListedExist, Dead
<1>7. CASE GuestCall
  BY <1>1, <1>2, <1>3, <1>7, GuestDecides
<1>8. CASE UNCHANGED vars
  BY <1>1, <1>8 DEF JoinsLiving, AboutToSleep, Dead, vars, fiberVars, threadVars
<1> QED  BY <1>2, <1>4, <1>5, <1>6, <1>7, <1>8, DecideSteps

\* The last rites of a thread that owns nothing are over in one step, after which
\* its joiners are woken.
LEMMA RitesEnd ==
  ASSUME IInv, [Next]_vars, RitesNext, At({"UnlockAll"}), NEW t \in Thread, Arg = t,
         Tail(stack[exec]) # << >>, Head(Tail(stack[exec])) = Call("OSWakeupThread", t)
  PROVE  Waking(t)' \/ UNCHANGED vars
<1>1. UnlockAll \/ UNCHANGED vars
  <2>1. ~ SleepStep
    BY DEF SleepStep, OSSleepThread, SleepReturn, OSSleepTicks, ParkReturn, SleepTimerDue,
           Reconcile, At
  <2>2. ~ SchedulerStep
    BY DEF SchedulerStep, SelectThread, SelectReturns, SelectLeaves, Dispatch, Reschedule,
           IdleTimers, LeaveIdleLoop, OSWakeupThread, WakeupDone, Idling, At
  <2>3. MutexStep => UnlockAll
    BY DEF MutexStep, Promote, Propagate, OSLockMutex, LockRetry, OSUnlockMutex, At
  <2>4. ~ LifeStep
    BY NobodyReturns
    DEF LifeStep, OSCreateThread, OSSuspendThread, OSResumeThread, OSExitThread,
        ExitReschedule, OSCancelThread, OSJoinThread, JoinReturn, OSDetachThread, At
  <2>5. ~ CallbackStep /\ ~ GuestCall
    BY DEF CallbackStep, IdleCallback, IdleCallbackReturns, BeginCallback, EndCallback,
           GuestCall, InGuestCode, InCallback, Idling, At
  <2> QED  BY <2>1, <2>2, <2>3, <2>4, <2>5 DEF Next, HleStep
<1>2. CASE UnlockAll
  <2>1. held[Arg] = << >>
    BY DEF RitesNext
  <2>2. Return /\ exec' = exec
    BY <1>2, <2>1 DEF UnlockAll
  <2>3. stack \in [Thread -> Seq(Frame)] /\ exec \in Thread /\ stack[exec] # << >>
    BY ChainNow DEF At
  <2> DEFINE T == Tail(stack[exec])
  <2>4. T \in Seq(Frame)
    BY <2>3, BelowTop
  <2>5. stack'[exec] = << >> \o T
    BY <2>2, <2>3 DEF Return, Continue
  <2>6. stack'[exec] = T
    <3> HIDE DEF T
    <3> QED  BY <2>4, <2>5
  <2>7. At({"OSWakeupThread"})' /\ Arg' = t
    BY <2>2, <2>6, FramesFacts DEF At, Arg
  <2> QED  BY <2>7 DEF Waking, At
<1> QED  BY <1>1, <1>2

LEMMA JoinersNextStep ==
  ASSUME IInv, IInv', AllWaitersLinked, RitesNext, JoinsLiving, JoinersNext, [Next]_vars
  PROVE  JoinersNext'
<1> DEFINE Rites(t) == /\ At({"UnlockAll"}) /\ Arg = t
                       /\ Tail(stack[exec]) # << >>
                       /\ Head(Tail(stack[exec])) = Call("OSWakeupThread", t)
<1>1. SUFFICES ASSUME NEW t \in Thread, Dead(t)', links'.queue[t] # << >>
               PROVE  Waking(t)' \/ Rites(t)'
  BY DEF JoinersNext
<1>2. t \in WaitQueueId /\ t \in QueueId
  BY AddressFacts
<1>3. PICK u \in Thread : u \in In(links', t)
  <2>1. links'.queue[t] \in Seq(Thread)
    BY <1>2, QueuesWellFormed DEF WellFormed
  <2> QED  BY <1>1, <2>1, HeadInToSet DEF In
<1>4. CASE ~ Dead(t)
  <2>1. PICK op \in {"ExitReschedule", "Reschedule"} :
          /\ Terminate(t, Call(op, Null)) /\ stack[exec] # << >>
          /\ UNCHANGED << exec, held >>
    BY <1>1, <1>4, EndsStep
  <2>2. /\ stack'[exec] # << >> /\ Head(stack'[exec]) = Call("UnlockAll", t)
        /\ Tail(stack'[exec]) # << >> /\ Head(Tail(stack'[exec])) = Call("OSWakeupThread", t)
    BY <2>1, TerminateNext
  <2>3. exec' = exec
    BY <2>1
  <2>4. Rites(t)'
    BY <2>2, <2>3, FramesFacts DEF At, Arg
  <2> QED  BY <2>4
<1>5. CASE Dead(t)
  <2>1. \/ state[u] = "waiting" /\ links.at[u] = t
        \/ At({"OSSleepThread"}) /\ Arg = t /\ u = exec
    BY <1>2, <1>3, LinksStep DEF LinkStep, EnterStep
  <2>2. ~ (At({"OSSleepThread"}) /\ Arg = t)
    <3>1. SUFFICES ASSUME At({"OSSleepThread"}), Arg = t
                   PROVE  FALSE
      OBVIOUS
    <3>2. AboutToSleep(t)
      BY <3>1, SleepsAbout
    <3> QED  BY <1>5, <3>2 DEF JoinsLiving
  <2>3. links.queue[t] # << >>
    <3>1. u \in Members(t)
      BY <2>1, <2>2 DEF AllWaitersLinked
    <3> QED  BY <3>1 DEF Members, ToSet
  <2>4. Waking(t) \/ Rites(t)
    BY <1>5, <2>3 DEF JoinersNext
  <2>5. CASE Waking(t)
    BY <1>1, <1>2, <2>5, WakingStep
  <2>6. CASE Rites(t)
    <3>1. Waking(t)' \/ UNCHANGED vars
      BY <2>6, RitesEnd
    <3>2. UNCHANGED vars => Rites(t)'
      BY <2>6 DEF At, Arg, vars, fiberVars
    <3> QED  BY <3>1, <3>2
  <2> QED  BY <2>4, <2>5, <2>6
<1> QED  BY <1>4, <1>5

LEMMA AllWaitersLinkedStep ==
  ASSUME IInv, IInv', AllWaitersLinked, JoinersNext, [Next]_vars
  PROVE  AllWaitersLinked'
<1>1. SUFFICES ASSUME NEW u \in Thread, state'[u] = "waiting", u \notin In(links', links'.at[u])
               PROVE  FALSE
  BY DEF AllWaitersLinked, Members, In
<1>2. /\ state[u] = "waiting"
      /\ u \in In(links, links.at[u]) => At({"OSCreateThread"}) /\ Arg = links.at[u]
  BY <1>1, LinksStep DEF LinkStep, StayStep
<1>3. u \in In(links, links.at[u])
  BY <1>2 DEF AllWaitersLinked, Members, In
<1>4. At({"OSCreateThread"}) /\ Arg = links.at[u]
  BY <1>2, <1>3
<1>5. Dead(Arg) /\ Arg \in Thread
  <2>1. Dead(Arg)
    BY <1>4 DEF IInv, ControlInv, CreateNext
  <2>2. Arg \in Thread
    BY <1>4, TopFacts, ArgFacts DEF Arg, ThreadCall
  <2> QED  BY <2>1, <2>2
<1>6. links.queue[Arg] # << >>
  BY <1>3, <1>4 DEF In, ToSet
<1> QED  BY <1>4, <1>5, <1>6 DEF JoinersNext, Waking, At

-----------------------------------------------------------------------------
(* Who owns what.                                                          *)

LEMMA LockAgrees ==
  ASSUME IInv, OwnershipAgrees, OSLockMutex
  PROVE  OwnershipAgrees'
<1> DEFINE m == Arg
<1>1. At({"OSLockMutex"})
  BY DEF OSLockMutex
<1>2. m \in Mutex /\ exec \in Thread /\ running = exec /\ exec # Null
  BY <1>1, TopFacts, BusyTopFacts, ArgFacts, AddressFacts DEF Arg, Quiet, Barrier
<1>3. /\ owner \in [Mutex -> Thread \cup {Null}] /\ count \in [Mutex -> Nat]
      /\ held \in [Thread -> Seq(Mutex)]
  BY DEF IInv, TypeOK
<1>4. /\ \A t \in Thread : IsInjective(held[t])
      /\ \A n \in Mutex : /\ (owner[n] = Null) <=> (count[n] = 0)
                          /\ \A t \in Thread : owner[n] = t <=> n \in ToSet(held[t])
  BY DEF OwnershipAgrees
<1>5. CASE UNCHANGED << held, owner, count >>
  BY <1>5 DEF OwnershipAgrees
<1>6. CASE ~ UNCHANGED << held, owner, count >>
  <2>1. /\ owner[m] \in {Null, exec}
        /\ owner' = [owner EXCEPT ![m] = exec]
        /\ count' = [count EXCEPT ![m] = @ + 1]
        /\ held' = IF owner[m] = Null THEN [held EXCEPT ![exec] = Append(@, m)] ELSE held
    BY <1>2, <1>6 DEF OSLockMutex
  <2> HIDE DEF m
  <2>2. /\ \A n \in Mutex : owner'[n] = IF n = m THEN exec ELSE owner[n]
        /\ \A n \in Mutex : count'[n] = IF n = m THEN count[m] + 1 ELSE count[n]
        /\ count[m] + 1 # 0
    BY <1>2, <1>3, <2>1
  <2>3. /\ \A t \in Thread \ {exec} : held'[t] = held[t]
        /\ IsInjective(held'[exec]) /\ ToSet(held'[exec]) = ToSet(held[exec]) \cup {m}
    <3>1. CASE owner[m] = Null
      <4>1. m \notin ToSet(held[exec])
        BY <1>2, <1>4, <3>1
      <4>2. held[exec] \in Seq(Mutex) /\ IsInjective(held[exec])
        BY <1>2, <1>3, <1>4
      <4>3. /\ IsInjective(Append(held[exec], m))
            /\ ToSet(Append(held[exec], m)) = ToSet(held[exec]) \cup {m}
        BY <1>2, <4>1, <4>2, AppendFacts
      <4> QED  BY <1>2, <1>3, <2>1, <3>1, <4>3
    <3>2. CASE owner[m] = exec
      <4>1. held' = held /\ m \in ToSet(held[exec])
        BY <1>2, <1>4, <2>1, <3>2
      <4> QED  BY <1>2, <1>4, <4>1
    <3> QED  BY <2>1, <3>1, <3>2
  <2>4. \A t \in Thread : IsInjective(held'[t])
    BY <1>4, <2>3
  <2>5. ASSUME NEW n \in Mutex
        PROVE  /\ (owner'[n] = Null) <=> (count'[n] = 0)
               /\ \A t \in Thread : owner'[n] = t <=> n \in ToSet(held'[t])
    <3>1. CASE n = m
      <4>1. \A t \in Thread \ {exec} : m \notin ToSet(held[t])
        BY <1>2, <1>4, <2>1, AddressFacts
      <4> QED  BY <1>2, <2>2, <2>3, <3>1, <4>1
    <3>2. CASE n # m
      BY <1>4, <2>2, <2>3, <3>2
    <3> QED  BY <3>1, <3>2
  <2> QED  BY <2>4, <2>5 DEF OwnershipAgrees
<1> QED  BY <1>5, <1>6

LEMMA UnlockAgrees ==
  ASSUME IInv, OwnershipAgrees, OSUnlockMutex
  PROVE  OwnershipAgrees'
<1> DEFINE m == Arg
           rest == RemoveFirst(held[exec], m)
<1>1. At({"OSUnlockMutex"})
  BY DEF OSUnlockMutex
<1>2. m \in Mutex /\ exec \in Thread /\ running = exec /\ exec # Null
  BY <1>1, TopFacts, BusyTopFacts, ArgFacts, AddressFacts DEF Arg, Quiet, Barrier
<1>3. /\ owner \in [Mutex -> Thread \cup {Null}] /\ count \in [Mutex -> Nat]
      /\ held \in [Thread -> Seq(Mutex)]
  BY DEF IInv, TypeOK
<1>4. /\ \A t \in Thread : IsInjective(held[t])
      /\ \A n \in Mutex : /\ (owner[n] = Null) <=> (count[n] = 0)
                          /\ \A t \in Thread : owner[n] = t <=> n \in ToSet(held[t])
  BY DEF OwnershipAgrees
<1>5. CASE UNCHANGED << held, owner, count >>
  BY <1>5 DEF OwnershipAgrees
<1>6. CASE ~ UNCHANGED << held, owner, count >>
  <2>1. /\ owner[m] = exec
        /\ count' = [count EXCEPT ![m] = @ - 1]
        /\ held' = IF count[m] = 1 THEN [held EXCEPT ![exec] = rest] ELSE held
        /\ owner' = IF count[m] = 1 THEN [owner EXCEPT ![m] = Null] ELSE owner
    BY <1>2, <1>6 DEF OSUnlockMutex, LastUnlock
  <2> HIDE DEF m, rest
  <2>2. count[m] \in Nat \ {0}
    BY <1>2, <1>3, <1>4, <2>1
  <2>3. CASE count[m] # 1
    <3>1. /\ held' = held /\ owner' = owner
          /\ \A n \in Mutex : count'[n] = 0 <=> count[n] = 0
      BY <1>2, <1>3, <2>1, <2>2, <2>3
    <3> QED  BY <1>4, <3>1 DEF OwnershipAgrees
  <2>4. CASE count[m] = 1
    <3>1. /\ \A n \in Mutex : owner'[n] = IF n = m THEN Null ELSE owner[n]
          /\ \A n \in Mutex : count'[n] = IF n = m THEN 0 ELSE count[n]
      BY <1>2, <1>3, <2>1, <2>4
    <3>2. /\ \A t \in Thread \ {exec} : held'[t] = held[t]
          /\ IsInjective(held'[exec]) /\ ToSet(held'[exec]) = ToSet(held[exec]) \ {m}
      <4>1. held[exec] \in Seq(Mutex) /\ IsInjective(held[exec])
        BY <1>2, <1>3, <1>4
      <4>2. IsInjective(rest) /\ ToSet(rest) = ToSet(held[exec]) \ {m}
        BY <4>1, RemoveFirstFacts DEF rest
      <4> QED  BY <1>2, <1>3, <2>1, <2>4, <4>2
    <3>3. \A t \in Thread : IsInjective(held'[t])
      BY <1>4, <3>2
    <3>4. ASSUME NEW n \in Mutex
          PROVE  /\ (owner'[n] = Null) <=> (count'[n] = 0)
                 /\ \A t \in Thread : owner'[n] = t <=> n \in ToSet(held'[t])
      <4>1. CASE n = m
        <5>1. \A t \in Thread \ {exec} : m \notin ToSet(held[t])
          BY <1>2, <1>4, <2>1
        <5>2. \A t \in Thread : t # Null
          BY AddressFacts
        <5> QED  BY <1>2, <3>1, <3>2, <4>1, <5>1, <5>2
      <4>2. CASE n # m
        BY <1>4, <3>1, <3>2, <4>2
      <4> QED  BY <4>1, <4>2
    <3> QED  BY <3>3, <3>4 DEF OwnershipAgrees
  <2> QED  BY <2>3, <2>4
<1> QED  BY <1>5, <1>6

LEMMA OwnershipAgreesStep ==
  ASSUME IInv, OwnershipAgrees, DeadHoldNothing, RitesNext, [Next]_vars
  PROVE  OwnershipAgrees'
<1>1. ASSUME UNCHANGED << held, owner, count >>
      PROVE  OwnershipAgrees'
  BY <1>1 DEF OwnershipAgrees
<1>2. CASE UnlockAll
  <2>1. held[Arg] = << >>
    BY <1>2 DEF UnlockAll, RitesNext
  <2> QED  BY <1>1, <1>2, <2>1 DEF UnlockAll
<1>3. CASE OSCreateThread
  <2>1. /\ At({"OSCreateThread"}) /\ held' = [held EXCEPT ![Arg] = << >>]
        /\ UNCHANGED << owner, count >>
    BY <1>3 DEF OSCreateThread
  <2>2. Arg \in Thread
    BY <2>1, TopFacts, ArgFacts DEF Arg, ThreadCall
  <2>3. held[Arg] = << >>
    BY <2>1, <2>2 DEF IInv, ControlInv, CreateNext, DeadHoldNothing
  <2>4. held' = held
    <3>1. held \in [Thread -> Seq(Mutex)]
      BY DEF IInv, TypeOK
    <3> QED  BY <2>1, <2>2, <2>3, <3>1
  <2> QED  BY <1>1, <2>1, <2>4
<1> QED  BY <1>1, <1>2, <1>3, MutexFieldSteps, LockAgrees, UnlockAgrees

\* Whoever owns a mutex lives, and has it on its list.
LEMMA OwnerLives ==
  ASSUME IInv, OwnershipAgrees, DeadHoldNothing, NEW m \in Mutex, owner[m] # Null
  PROVE  owner[m] \in Thread /\ ~ Dead(owner[m]) /\ m \in ToSet(held[owner[m]])
<1>1. owner[m] \in Thread
  BY DEF IInv, TypeOK
<1>2. m \in ToSet(held[owner[m]])
  BY <1>1 DEF OwnershipAgrees
<1>3. held[owner[m]] # << >>
  BY <1>2 DEF ToSet
<1> QED  BY <1>1, <1>2, <1>3 DEF DeadHoldNothing

-----------------------------------------------------------------------------
(* Inherited priorities.                                                   *)

\* The priority that a thread inherits by some mutexes is not behind that of any
\* of their waiters, in wait queues that are sorted.
LEMMA InheritedBelow ==
  ASSUME IInv, WaitQueuesSorted, NEW x \in Thread, NEW mutexes \in Seq(Mutex),
         NEW m \in ToSet(mutexes), NEW t \in Members(m)
  PROVE  InheritedPriority(x, mutexes) <= prio[t]
<1> DEFINE contended == {n \in ToSet(mutexes) : links.queue[n] # << >>}
           lent == {prio[Head(links.queue[n])] : n \in contended}
           C == {BasePriority[x]} \cup lent
<1>1. BasePriority[x] \in Nat /\ prio \in [Thread -> Nat]
  BY ConstantTypes, PriorityFacts, LinkedFacts DEF ConstantTypes
<1>2. \A n \in ToSet(mutexes) : n \in Mutex /\ n \in QueueId /\ n \in WaitQueueId
  BY AddressFacts DEF ToSet
<1>3. \A n \in contended : Head(links.queue[n]) \in Thread
  BY <1>2, LinkedFacts, HeadInToSet
<1>4. C \in SUBSET Nat /\ C # {}
  BY <1>1, <1>3
<1>5. \E p \in C : \A q \in C : p <= q
  BY <1>4, LeastElement
<1> DEFINE p == CHOOSE y \in C : \A q \in C : y <= q
<1>6. p \in C /\ \A q \in C : p <= q
  BY <1>5
<1>7. p = InheritedPriority(x, mutexes)
  BY DEF InheritedPriority
<1>8. m \in contended /\ links.queue[m] \in Seq(Thread) /\ links.queue[m] # << >>
  BY <1>2, LinkedFacts DEF Members, ToSet
<1>9. prio[Head(links.queue[m])] \in C
  BY <1>8
<1>10. prio[Head(links.queue[m])] <= prio[t]
  <2>1. SortedBy(links.queue[m], prio)
    BY <1>2 DEF WaitQueuesSorted, SortedBy
  <2> QED  BY <1>1, <1>8, <2>1, SortedHead DEF Members
<1>11. p <= prio[Head(links.queue[m])] /\ p \in Nat
  BY <1>4, <1>6, <1>9
<1>12. prio[Head(links.queue[m])] \in Nat /\ prio[t] \in Nat
  <2>1. t \in Thread
    BY <1>8 DEF Members, ToSet
  <2> QED  BY <1>1, <1>3, <1>8, <2>1
<1> HIDE DEF p, C
<1> QED  BY <1>7, <1>10, <1>11, <1>12

\* So is the priority an owner is to have with all the mutexes it owns.
LEMMA EffectiveBelow ==
  ASSUME IInv, WaitQueuesSorted, OwnershipAgrees, NEW m \in Mutex, owner[m] # Null,
         NEW t \in Members(m)
  PROVE  EffectivePriority(owner[m]) <= prio[t]
<1>1. owner[m] \in Thread /\ held[owner[m]] \in Seq(Mutex)
  BY DEF IInv, TypeOK
<1>2. m \in ToSet(held[owner[m]])
  BY <1>1 DEF OwnershipAgrees
<1> QED  BY <1>1, <1>2, InheritedBelow DEF EffectivePriority

\* Which steps change a priority or a suspend count.
LEMMA PrioritySteps ==
  ASSUME IInv, [Next]_vars
  PROVE  \/ prio' = prio /\ suspend' = suspend
         \/ Promote \/ Propagate \/ OSUnlockMutex
         \/ OSCreateThread \/ OSSuspendThread \/ OSResumeThread
<1>1. CASE ParkReturn
  <2>1. At({"ParkReturn"})
    BY <1>1 DEF ParkReturn
  <2>2. suspend[exec] = 0
    BY <2>1, BusyTopFacts DEF Quiet, Barrier
  <2> QED  BY <1>1, <2>2 DEF ParkReturn
<1>2. CASE OSSleepThread \/ SleepReturn \/ OSSleepTicks \/ SleepTimerDue \/ Reconcile
           \/ UNCHANGED vars
  BY <1>2
  DEF OSSleepThread, SleepReturn, OSSleepTicks, SleepTimerDue, Reconcile, vars, threadVars
<1>3. CASE SchedulerStep
  BY <1>3
  DEF SchedulerStep, SelectThread, SelectReturns, SelectLeaves, Dispatch, Reschedule,
      IdleTimers, LeaveIdleLoop, OSWakeupThread, WakeupDone, threadVars
<1>4. CASE MutexStep
  BY <1>4 DEF MutexStep, OSLockMutex, LockRetry, UnlockAll, threadVars
<1>5. CASE LifeStep
  BY <1>5, NobodyReturns
  DEF LifeStep, OSExitThread, ExitReschedule, OSCancelThread, OSJoinThread, JoinReturn,
      OSDetachThread, threadVars
<1>6. CASE CallbackStep \/ GuestCall
  BY <1>6
  DEF CallbackStep, IdleCallback, IdleCallbackReturns, BeginCallback, EndCallback,
      GuestCall, threadVars
<1> QED  BY <1>1, <1>2, <1>3, <1>4, <1>5, <1>6 DEF Next, HleStep, SleepStep

\* A mutex has no waiters when somebody takes it.
LEMMA OwnerTaken ==
  ASSUME IInv, LockWaiters, [Next]_vars, NEW m \in Mutex, owner'[m] # Null
  PROVE  owner'[m] = owner[m] \/ links'.queue[m] = << >>
<1>1. owner \in [Mutex -> Thread \cup {Null}]
  BY DEF IInv, TypeOK
<1>2. CASE OSLockMutex
  <2>1. At({"OSLockMutex"}) /\ links' = links
    BY <1>2 DEF OSLockMutex
  <2>2. running = exec /\ Arg \in Mutex
    BY <2>1, TopFacts, BusyTopFacts, ArgFacts DEF Arg, Quiet, Barrier
  <2>3. \/ owner' = owner
        \/ owner[Arg] \in {Null, exec} /\ owner' = [owner EXCEPT ![Arg] = exec]
    BY <1>2 DEF OSLockMutex
  <2>4. ~ Waking(m)
    BY <2>1 DEF Waking, At
  <2>5. owner[m] = Null => links.queue[m] = << >>
    BY <2>4 DEF LockWaiters
  <2> QED  BY <1>1, <2>1, <2>2, <2>3, <2>5
<1>3. CASE OSUnlockMutex \/ UnlockAll
  <2>1. owner' = owner \/ \E n : owner' = [owner EXCEPT ![n] = Null]
    BY <1>3 DEF OSUnlockMutex, UnlockAll
  <2> QED  BY <1>1, <2>1
<1> QED  BY <1>2, <1>3, MutexFieldSteps

\* Whoever is about to wait for a mutex first lends its priority to the owner.
LEMMA LendsFirst ==
  ASSUME Disciplined, IInv, IInv', DecidingNext, Next, ~ At({"Promote"}),
         NEW m \in Mutex, AboutToSleep(m)'
  PROVE  (At({"Promote"})' /\ Arg' = owner'[m]) \/ UNCHANGED vars
<1>1. ~ NobodyDecides' /\ m \notin Thread /\ m \notin WaitQueue
  BY NobodySleepsNext, AddressesDistinct
<1>2. ~ Promote
  BY DEF Promote
<1>3. CASE OSLockMutex
  <2>1. /\ stack'[exec'] # << >> /\ Head(stack'[exec']) = Call("Promote", owner[Arg])
        /\ m = Arg /\ owner' = owner
    BY <1>1, <1>3, LockDecides
  <2> QED  BY <2>1, FramesFacts DEF At, Arg
<1>4. ~ OSJoinThread
  <2>1. At({"OSJoinThread"}) => Arg \in Thread
    <3>1. SUFFICES ASSUME At({"OSJoinThread"}) PROVE Arg \in Thread
      OBVIOUS
    <3> QED  BY <3>1, TopFacts, ArgFacts DEF Arg, ThreadCall
  <2> QED  BY <1>1, <2>1, JoinDecides DEF OSJoinThread
<1>5. ~ GuestCall
  BY <1>1, GuestDecides
<1> QED  BY <1>1, <1>2, <1>3, <1>4, <1>5, DecideSteps

\* Outside the chain walks it is enough that what an owner has lent stays so, or
\* that a walk along the owners begins with it.
LEMMA InheritedKept ==
  ASSUME Disciplined, IInv, IInv', WaitInv, Inherited, [Next]_vars,
         ~ At({"Promote", "Propagate"}),
         \A m \in Mutex : \A t \in Thread :
           /\ owner[m] # Null /\ owner'[m] = owner[m] /\ t \in Members(m)'
           /\ Lends(owner[m], t)
           => Lends(owner[m], t)' \/ (At({"Propagate"})' /\ Arg' = owner[m])
  PROVE  Inherited'
<1>1. CASE UNCHANGED vars
  BY <1>1
  DEF Inherited, Lends, Members, AboutToSleep, At, Arg, vars, fiberVars, threadVars, mutexVars
<1>2. CASE ~ UNCHANGED vars
  <2>1. SUFFICES ASSUME NEW m \in Mutex, owner'[m] # Null
                 PROVE  /\ \A t \in Members(m)' :
                             \/ Lends(owner[m], t)'
                             \/ At({"Propagate"})' /\ Arg' = owner'[m]
                        /\ AboutToSleep(m)' => At({"Promote"})' /\ Arg' = owner'[m]
    BY DEF Inherited
  <2>2. ~ At({"Promote"}) /\ ~ At({"Propagate"})
    BY DEF At
  <2>3. AboutToSleep(m)' => At({"Promote"})' /\ Arg' = owner'[m]
    BY <1>2, <2>2, LendsFirst DEF WaitInv
  <2>4. ASSUME NEW t \in Members(m)'
        PROVE  \/ Lends(owner[m], t)'
               \/ At({"Propagate"})' /\ Arg' = owner'[m]
    <3>1. m \in WaitQueueId /\ m \in QueueId
      BY AddressFacts
    <3>2. t \in Thread /\ links'.queue[m] # << >>
      BY <3>1, QueuesWellFormed DEF WellFormed, Members, ToSet
    <3>3. owner'[m] = owner[m]
      BY <2>1, <3>2, OwnerTaken DEF WaitInv
    <3>4. Lends(owner[m], t)
      <4>1. CASE t \in Members(m)
        BY <2>1, <2>2, <3>3, <4>1 DEF Inherited
      <4>2. CASE At({"OSSleepThread"}) /\ Arg = m /\ t = exec
        <5>1. AboutToSleep(m)
          BY <4>2, SleepsAbout
        <5> QED  BY <2>1, <2>2, <3>3, <4>2, <5>1 DEF Inherited
      <4> QED  BY <2>4, <3>2, <4>1, <4>2, LockWaiterBefore DEF WaitInv
    <3> QED  BY <2>1, <2>4, <3>2, <3>3, <3>4
  <2> QED  BY <2>3, <2>4
<1> QED  BY <1>1, <1>2

\* An owner that unlocks one mutex keeps what it inherits by the others.
LEMMA UnlockInherits ==
  ASSUME IInv, WaitInv, OwnershipAgrees, OSUnlockMutex,
         NEW m \in Mutex, NEW t \in Thread, owner[m] # Null, owner'[m] = owner[m],
         t \in Members(m)', Lends(owner[m], t)
  PROVE  Lends(owner[m], t)'
<1> DEFINE u == owner[m]
           rest == RemoveFirst(held[exec], Arg)
<1>1. At({"OSUnlockMutex"}) /\ links' = links /\ suspend' = suspend
  BY DEF OSUnlockMutex
<1>2. Arg \in Mutex /\ exec \in Thread /\ running = exec /\ \A q \in QueueId : exec \notin In(links, q)
  BY <1>1, TopFacts, BusyTopFacts, ArgFacts DEF Arg, Quiet, Barrier
<1>3. /\ owner \in [Mutex -> Thread \cup {Null}] /\ held \in [Thread -> Seq(Mutex)]
      /\ prio \in [Thread -> Priority \cup {SuspendedWaitPriority}]
  BY DEF IInv, TypeOK
<1>4. t \in Members(m) /\ t # exec /\ u \in Thread
  BY <1>1, <1>2, <1>3, AddressFacts DEF Members, In
<1>5. CASE prio' = prio
  BY <1>1, <1>5 DEF Lends
<1>6. CASE prio' # prio
  <2>1. /\ owner[Arg] = exec /\ owner' = [owner EXCEPT ![Arg] = Null]
        /\ prio' = [prio EXCEPT ![exec] = InheritedPriority(exec, rest)]
    BY <1>2, <1>6 DEF OSUnlockMutex
  <2>2. prio'[t] = prio[t] /\ \A v \in Thread \ {exec} : prio'[v] = prio[v]
    BY <1>2, <1>3, <1>4, <2>1
  <2>3. CASE u # exec
    BY <1>1, <1>4, <2>2, <2>3 DEF Lends
  <2>4. CASE u = exec
    <3>1. m # Arg
      BY <1>2, <1>3, <1>4, <2>1, AddressFacts
    <3>2. held[exec] \in Seq(Mutex) /\ IsInjective(held[exec]) /\ m \in ToSet(held[exec])
      BY <1>2, <1>3, <2>4 DEF OwnershipAgrees
    <3>3. rest \in Seq(Mutex) /\ m \in ToSet(rest)
      BY <3>1, <3>2, RemoveFirstFacts
    <3>4. InheritedPriority(exec, rest) <= prio[t]
      <4> HIDE DEF rest
      <4> QED  BY <1>2, <1>4, <3>3, InheritedBelow DEF WaitInv
    <3>5. prio'[exec] = InheritedPriority(exec, rest)
      BY <1>2, <1>3, <2>1
    <3> QED  BY <2>2, <2>4, <3>4, <3>5 DEF Lends
  <2> QED  BY <2>3, <2>4
<1> QED  BY <1>5, <1>6

\* A thread that is suspended as a waiter goes behind all the others.
LEMMA SuspendInherits ==
  ASSUME IInv, OSSuspendThread, NEW m \in Mutex, NEW t \in Thread,
         owner[m] # Null, owner'[m] = owner[m], Lends(owner[m], t)
  PROVE  Lends(owner[m], t)'
<1> DEFINE u == owner[m]
<1>1. At({"OSSuspendThread"})
  BY DEF OSSuspendThread
<1>2. Arg \in Thread
  BY <1>1, TopFacts, ArgFacts DEF Arg, ThreadCall
<1>3. /\ u \in Thread /\ suspend \in [Thread -> Nat]
      /\ prio \in [Thread -> Priority \cup {SuspendedWaitPriority}]
  BY DEF IInv, TypeOK
<1>4. \A p \in Priority \cup {SuspendedWaitPriority} : p \in Nat /\ p <= SuspendedWaitPriority
  BY ConstantTypes DEF Priority, SuspendedWaitPriority, ConstantTypes
<1>5. /\ suspend' = [suspend EXCEPT ![Arg] = @ + 1]
      /\ prio' = prio \/ (prio' = [prio EXCEPT ![Arg] = SuspendedWaitPriority])
  BY DEF OSSuspendThread
<1>6. CASE u = Arg
  <2>1. suspend'[u] = suspend[Arg] + 1 /\ suspend[Arg] \in Nat
    BY <1>2, <1>3, <1>5, <1>6
  <2> QED  BY <2>1 DEF Lends
<1>7. CASE u # Arg
  <2>1. suspend'[u] = suspend[u] /\ prio'[u] = prio[u]
    BY <1>2, <1>3, <1>5, <1>7
  <2>2. prio'[t] = prio[t] \/ prio'[t] = SuspendedWaitPriority
    BY <1>2, <1>3, <1>5
  <2>3. prio[u] <= SuspendedWaitPriority
    BY <1>3, <1>4
  <2> QED  BY <2>1, <2>2, <2>3 DEF Lends
<1> QED  BY <1>6, <1>7

\* A thread that is resumed as an owner has the priority of its waiters again, and
\* if it waits itself the walk begins with the owner it waits for.
LEMMA ResumeInherits ==
  ASSUME IInv, WaitInv, OwnershipAgrees, DeadHoldNothing, OSResumeThread,
         NEW m \in Mutex, NEW t \in Thread, owner[m] # Null, owner'[m] = owner[m],
         t \in Members(m), Lends(owner[m], t)
  PROVE  Lends(owner[m], t)' \/ (At({"Propagate"})' /\ Arg' = owner[m])
<1> DEFINE u == owner[m]
           last == suspend[Arg] = 1
           E == EffectivePriority(Arg)
<1>1. At({"OSResumeThread"}) /\ exec' = exec /\ stack[exec] # << >>
  BY DEF OSResumeThread, At
<1>2. Arg \in Thread
  BY <1>1, TopFacts, ArgFacts DEF Arg, ThreadCall
<1>3. /\ suspend \in [Thread -> Nat]
      /\ prio \in [Thread -> Priority \cup {SuspendedWaitPriority}]
      /\ state \in [Thread -> {"none", "ready", "running", "waiting", "moribund"}]
  BY DEF IInv, TypeOK
<1>4. u \in Thread /\ ~ Dead(u)
  BY OwnerLives
<1>5. state[t] = "waiting" /\ blockedOn[t] = m
  BY AddressFacts, LinkedFacts DEF WaitInv, LockWaiters, Members, In
<1>6. suspend' = [suspend EXCEPT ![Arg] = Resumed(@)]
  BY DEF OSResumeThread
<1>7. CASE ~ last
  <2>1. prio' = prio
    BY <1>7 DEF OSResumeThread
  <2>2. suspend[u] > 0 => suspend'[u] > 0
    <3>1. suspend[Arg] \in Nat /\ suspend'[Arg] = Resumed(suspend[Arg])
      BY <1>2, <1>3, <1>6
    <3>2. suspend[Arg] > 0 => suspend'[Arg] > 0
      BY <1>7, <3>1 DEF Resumed
    <3>3. u # Arg => suspend'[u] = suspend[u]
      BY <1>3, <1>4, <1>6
    <3> QED  BY <3>2, <3>3
  <2> QED  BY <2>1, <2>2 DEF Lends
<1>8. CASE last
  <2>1. state[Arg] \in {"ready", "running", "waiting"} => prio' = [prio EXCEPT ![Arg] = E]
    BY <1>8 DEF OSResumeThread
  <2>2. prio' = prio \/ (prio' = [prio EXCEPT ![Arg] = E])
    BY DEF OSResumeThread
  <2>3. CASE t = Arg
    <3>1. Continue(<< Call("Propagate", OwnerOf(blockedOn[Arg])), Call("Reschedule", Null) >>)
      BY <1>5, <1>8, <2>3 DEF OSResumeThread
    <3>2. OwnerOf(blockedOn[Arg]) = u
      BY <1>5, <2>3, AddressFacts DEF OwnerOf
    <3>3. Call("Propagate", u) \in Frame /\ Call("Reschedule", Null) \in Frame
      BY <1>4, FrameFacts
    <3>4. stack'[exec'] # << >> /\ Head(stack'[exec']) = Call("Propagate", u)
      BY <1>1, <3>1, <3>2, <3>3, NextFrame
    <3> QED  BY <3>4, FramesFacts DEF At, Arg
  <2>4. CASE t # Arg /\ u = Arg
    <3>1. state[u] \in {"ready", "running", "waiting"}
      BY <1>3, <1>4 DEF Dead
    <3>2. prio'[u] = E /\ prio'[t] = prio[t]
      BY <1>2, <1>3, <2>1, <2>4, <3>1
    <3>3. E <= prio[t]
      BY <2>4, EffectiveBelow DEF WaitInv
    <3> QED  BY <3>2, <3>3 DEF Lends
  <2>5. CASE t # Arg /\ u # Arg
    <3>1. suspend'[u] = suspend[u] /\ prio'[u] = prio[u] /\ prio'[t] = prio[t]
      BY <1>2, <1>3, <1>4, <1>6, <2>2, <2>5
    <3> QED  BY <3>1 DEF Lends
  <2> QED  BY <2>3, <2>4, <2>5
<1> QED  BY <1>7, <1>8

\* What SetThreadEffectivePriority does to the priorities.
LEMMA SetPriorityOnly ==
  ASSUME IInv, NEW x \in Thread, NEW p, SetPriority(x, p)
  PROVE  /\ \A v \in Thread \ {x} : prio'[v] = prio[v]
         /\ ~ Dead(x) => prio'[x] = p
<1>1. /\ prio \in [Thread -> Priority \cup {SuspendedWaitPriority}]
      /\ state \in [Thread -> {"none", "ready", "running", "waiting", "moribund"}]
  BY DEF IInv, TypeOK
<1> QED  BY <1>1 DEF SetPriority, Dead

\* A walk lends the priority of the locking thread to one owner after another.
LEMMA PromoteInherits ==
  ASSUME IInv, IInv', WaitInv, OwnershipAgrees, DeadHoldNothing, Inherited,
         [Next]_vars, Promote
  PROVE  Inherited'
<1> DEFINE x == Arg
           p == prio[exec]
<1>1. At({"Promote"}) /\ stack[exec] # << >>
  BY DEF Promote, At
<1>2. /\ exec \in Thread /\ state[exec] = "running" /\ x \in Thread \cup {Null}
      /\ prio \in [Thread -> Nat] /\ suspend \in [Thread -> Nat]
      /\ owner \in [Mutex -> Thread \cup {Null}]
  <2>1. /\ exec \in Thread /\ owner \in [Mutex -> Thread \cup {Null}]
        /\ suspend \in [Thread -> Nat]
    BY DEF IInv, TypeOK
  <2>2. prio \in [Thread -> Nat]
    BY LinkedFacts
  <2>3. x \in Thread \cup {Null}
    BY <1>1, TopFacts, ArgFacts DEF Arg
  <2>4. state[exec] = "running"
    BY <1>1, BusyTopFacts DEF Quiet, Barrier
  <2> QED  BY <2>1, <2>2, <2>3, <2>4
<1>3. exec' = exec /\ owner' = owner /\ suspend' = suspend
  BY DEF Promote, mutexVars
<1>4. SUFFICES ASSUME NEW m \in Mutex, owner[m] # Null
               PROVE  /\ \A t \in Members(m)' :
                           \/ Lends(owner[m], t)'
                           \/ At({"Promote"})' /\ Arg' = owner[m] /\ prio'[exec] <= prio'[t]
                      /\ AboutToSleep(m)' =>
                           \/ Lends(owner[m], exec)'
                           \/ At({"Promote"})' /\ Arg' = owner[m]
  BY <1>3 DEF Inherited
<1> DEFINE u == owner[m]
<1>5. u \in Thread /\ ~ Dead(u)
  BY <1>4, OwnerLives
<1>6. AboutToSleep(m)' => AboutToSleep(m)
  BY PromoteDecides DEF WaitInv
<1>7. \A t \in Members(m)' : t \in Thread /\ t \in Members(m) /\ state[t] = "waiting" /\ blockedOn[t] = m
  <2>1. SUFFICES ASSUME NEW t \in Members(m)'
                 PROVE  t \in Thread /\ t \in Members(m) /\ state[t] = "waiting" /\ blockedOn[t] = m
    OBVIOUS
  <2>2. m \in QueueId
    BY AddressFacts
  <2>3. t \in Thread
    BY <2>2, QueuesWellFormed DEF WellFormed, Members, ToSet
  <2>4. ~ At({"OSSleepThread"})
    BY <1>1 DEF At
  <2> QED  BY <2>1, <2>3, <2>4, LockWaiterBefore DEF WaitInv
<1>8. /\ \A t \in Members(m) : Lends(u, t) \/ (x = u /\ p <= prio[t])
      /\ AboutToSleep(m) => Lends(u, exec) \/ x = u
  <2>1. ~ At({"Propagate"})
    BY <1>1 DEF At
  <2> QED  BY <1>4, <2>1 DEF Inherited
<1>9. CASE x = Null \/ suspend[x] > 0 \/ prio[x] <= p
  <2>1. prio' = prio
    BY <1>9 DEF Promote
  <2>2. x = u => suspend[u] > 0 \/ prio[u] <= p
    BY <1>4, <1>9
  <2>3. \A t \in Members(m)' : Lends(u, t)
    <3>1. SUFFICES ASSUME NEW t \in Members(m)', x = u, p <= prio[t]
                   PROVE  Lends(u, t)
      BY <1>7, <1>8
    <3>2. t \in Thread /\ prio[t] \in Nat /\ prio[u] \in Nat /\ p \in Nat
      BY <1>2, <1>5, <1>7
    <3> QED  BY <2>2, <3>1, <3>2 DEF Lends
  <2>4. AboutToSleep(m) => Lends(u, exec)
    BY <1>8, <2>2 DEF Lends
  <2> QED  BY <1>3, <1>6, <2>1, <2>3, <2>4 DEF Lends
<1>10. CASE ~ (x = Null \/ suspend[x] > 0 \/ prio[x] <= p)
  <2>1. x \in Thread /\ suspend[x] = 0
    BY <1>2, <1>10
  <2>2. SetPriority(x, p) /\ Continue(<< Call("Promote", NextInChain(x)) >>)
    BY <1>10 DEF Promote
  <2>3. /\ \A v \in Thread \ {x} : prio'[v] = prio[v]
        /\ ~ Dead(x) => prio'[x] = p
    BY <2>1, <2>2, SetPriorityOnly
  <2>4. prio[x] \in Nat /\ p \in Nat /\ prio[x] > p /\ x # exec
    BY <1>2, <1>10, <2>1
  <2>5. prio'[exec] = p
    BY <1>2, <2>3, <2>4
  <2>6. ASSUME NEW t \in Members(m)'
        PROVE  \/ Lends(u, t)'
               \/ At({"Promote"})' /\ Arg' = u /\ prio'[exec] <= prio'[t]
    <3>1. t \in Thread /\ t \in Members(m) /\ state[t] = "waiting" /\ blockedOn[t] = m
      BY <1>7, <2>6
    <3>2. prio[t] \in Nat /\ prio[u] \in Nat
      BY <1>2, <1>5, <3>1
    <3>3. CASE t = x /\ u # x
      <4>1. NextInChain(x) = u
        BY <3>1, <3>3, AddressFacts DEF NextInChain, OwnerOf
      <4>2. Call("Promote", u) \in Frame
        BY <1>5, FrameFacts
      <4>3. stack'[exec'] # << >> /\ Head(stack'[exec']) = Call("Promote", u)
        BY <1>1, <1>3, <2>2, <4>1, <4>2, NextFrame
      <4>4. At({"Promote"})' /\ Arg' = u
        BY <4>3, FramesFacts DEF At, Arg
      <4>5. ~ Dead(x)
        BY <3>1, <3>3 DEF Dead
      <4>6. prio'[t] = p
        BY <2>3, <3>3, <4>5
      <4> QED  BY <2>4, <2>5, <4>4, <4>6
    <3>4. CASE u = x
      <4>1. prio'[u] = p
        BY <1>5, <2>3, <3>4
      <4>2. p <= prio'[t]
        <5>1. CASE t = x
          BY <2>4, <3>4, <4>1, <5>1
        <5>2. CASE t # x
          <6>1. prio'[t] = prio[t]
            BY <2>3, <3>1, <5>2
          <6>2. prio[u] <= prio[t] \/ p <= prio[t]
            BY <1>8, <2>1, <3>1, <3>4 DEF Lends
          <6> QED  BY <2>4, <3>2, <3>4, <6>1, <6>2
        <5> QED  BY <5>1, <5>2
      <4> QED  BY <1>3, <4>1, <4>2 DEF Lends
    <3>5. CASE t # x /\ u # x
      <4>1. prio'[t] = prio[t] /\ prio'[u] = prio[u]
        BY <1>5, <2>3, <3>1, <3>5
      <4>2. Lends(u, t)
        BY <1>8, <3>1, <3>5
      <4> QED  BY <1>3, <4>1, <4>2 DEF Lends
    <3> QED  BY <3>3, <3>4, <3>5
  <2>7. AboutToSleep(m) => Lends(u, exec)'
    <3>1. SUFFICES ASSUME AboutToSleep(m)
                   PROVE  Lends(u, exec)'
      OBVIOUS
    <3>2. CASE u = x
      <4>1. prio'[u] = p
        BY <1>5, <2>3, <3>2
      <4> QED  BY <1>3, <2>4, <2>5, <4>1 DEF Lends
    <3>3. CASE u # x
      <4>1. prio'[u] = prio[u] /\ Lends(u, exec)
        BY <1>5, <1>8, <2>3, <3>1, <3>3
      <4> QED  BY <1>3, <2>5, <4>1 DEF Lends
    <3> QED  BY <3>2, <3>3
  <2> QED  BY <1>3, <1>6, <2>6, <2>7
<1> QED  BY <1>9, <1>10

\* The walk that follows a change of a waiter recomputes one owner after another.
LEMMA PropagateInherits ==
  ASSUME Disciplined, IInv, IInv', WaitInv, OwnershipAgrees, DeadHoldNothing, Inherited,
         [Next]_vars, Propagate
  PROVE  Inherited'
<1> DEFINE x == Arg
<1>1. At({"Propagate"}) /\ stack[exec] # << >> /\ ~ At({"Promote"})
  BY DEF Propagate, At
<1>2. /\ exec \in Thread /\ x \in Thread \cup {Null}
      /\ prio \in [Thread -> Nat] /\ suspend \in [Thread -> Nat]
      /\ owner \in [Mutex -> Thread \cup {Null}]
  <2>1. /\ exec \in Thread /\ owner \in [Mutex -> Thread \cup {Null}]
        /\ suspend \in [Thread -> Nat]
    BY DEF IInv, TypeOK
  <2>2. prio \in [Thread -> Nat]
    BY LinkedFacts
  <2>3. x \in Thread \cup {Null}
    BY <1>1, TopFacts, ArgFacts DEF Arg
  <2> QED  BY <2>1, <2>2, <2>3
<1>3. exec' = exec /\ owner' = owner /\ suspend' = suspend
  BY DEF Propagate, mutexVars
<1>4. \A m \in Mutex : ~ AboutToSleep(m)'
  <2>1. SUFFICES ASSUME NEW m \in Mutex
                 PROVE  ~ AboutToSleep(m)'
    OBVIOUS
  <2> DEFINE f == Call("OSSleepThread", m)
  <2>2. f \in Followed /\ f.op # "Propagate" /\ f.op \in Deciding
    BY FrameFacts, FramesFacts, AddressFacts DEF Followed, Marked, Deciding
  <2>3. AddsNo(f)
    BY <2>2, MutexAddsNo
  <2>4. f \notin ToSet(Tail(stack[exec]))
    <3>1. ~ Has(Tail(stack[exec]), Deciding)
      BY <1>1 DEF WaitInv, DecidingNext
    <3> QED  BY <2>2, <3>1 DEF Has, ToSet
  <2> QED  BY <1>3, <2>3, <2>4 DEF AddsNo, AboutToSleep
<1>5. SUFFICES ASSUME NEW m \in Mutex, owner[m] # Null, NEW t \in Members(m)'
               PROVE  Lends(owner[m], t)' \/ (At({"Propagate"})' /\ Arg' = owner[m])
  BY <1>3, <1>4 DEF Inherited
<1> DEFINE u == owner[m]
<1>6. u \in Thread /\ ~ Dead(u)
  BY <1>5, OwnerLives
<1>7. t \in Thread /\ t \in Members(m) /\ state[t] = "waiting" /\ blockedOn[t] = m
  <2>1. m \in QueueId
    BY AddressFacts
  <2>2. t \in Thread
    BY <1>5, <2>1, QueuesWellFormed DEF WellFormed, Members, ToSet
  <2>3. ~ At({"OSSleepThread"})
    BY <1>1 DEF At
  <2> QED  BY <1>5, <2>2, <2>3, LockWaiterBefore DEF WaitInv
<1>8. Lends(u, t) \/ x = u
  BY <1>1, <1>5, <1>7 DEF Inherited
<1>9. x = u => EffectivePriority(x) <= prio[t]
  BY <1>5, <1>7, EffectiveBelow DEF WaitInv
<1>10. CASE x = Null \/ suspend[x] > 0 \/ prio[x] = EffectivePriority(x)
  <2>1. prio' = prio
    BY <1>10 DEF Propagate
  <2>2. Lends(u, t)
    BY <1>5, <1>8, <1>9, <1>10 DEF Lends
  <2> QED  BY <1>3, <2>1, <2>2 DEF Lends
<1>11. CASE ~ (x = Null \/ suspend[x] > 0 \/ prio[x] = EffectivePriority(x))
  <2>1. x \in Thread
    BY <1>2, <1>11
  <2>2. SetPriority(x, EffectivePriority(x)) /\ Continue(<< Call("Propagate", NextInChain(x)) >>)
    BY <1>11 DEF Propagate
  <2>3. /\ \A v \in Thread \ {x} : prio'[v] = prio[v]
        /\ ~ Dead(x) => prio'[x] = EffectivePriority(x)
    BY <2>1, <2>2, SetPriorityOnly
  <2>4. CASE t = x
    <3>1. NextInChain(x) = u
      BY <1>7, <2>4, AddressFacts DEF NextInChain, OwnerOf
    <3>2. Call("Propagate", u) \in Frame
      BY <1>6, FrameFacts
    <3>3. stack'[exec'] # << >> /\ Head(stack'[exec']) = Call("Propagate", u)
      BY <1>1, <1>3, <2>2, <3>1, <3>2, NextFrame
    <3> QED  BY <3>3, FramesFacts DEF At, Arg
  <2>5. CASE t # x /\ u = x
    <3>1. prio'[u] = EffectivePriority(x) /\ prio'[t] = prio[t]
      BY <1>6, <1>7, <2>3, <2>5
    <3> QED  BY <1>3, <1>9, <2>5, <3>1 DEF Lends
  <2>6. CASE t # x /\ u # x
    <3>1. prio'[u] = prio[u] /\ prio'[t] = prio[t]
      BY <1>6, <1>7, <2>3, <2>6
    <3> QED  BY <1>3, <1>8, <2>6, <3>1 DEF Lends
  <2> QED  BY <2>4, <2>5, <2>6
<1> QED  BY <1>10, <1>11

LEMMA InheritedStep ==
  ASSUME Disciplined, IInv, IInv', WaitInv, OwnershipAgrees, DeadHoldNothing, Inherited,
         [Next]_vars
  PROVE  Inherited'
<1> DEFINE Kept(m, t) ==
             /\ owner[m] # Null /\ owner'[m] = owner[m] /\ t \in Members(m)'
             /\ Lends(owner[m], t)
<1>1. CASE At({"Promote"})
  <2>1. CASE UNCHANGED vars
    BY <2>1
    DEF Inherited, Lends, Members, AboutToSleep, At, Arg, vars, fiberVars, threadVars, mutexVars
  <2> QED  BY <1>1, <2>1, PromoteOnly, PromoteInherits
<1>2. CASE Propagate
  BY <1>2, PropagateInherits
<1>3. CASE ~ At({"Promote"}) /\ ~ Propagate /\ ~ UNCHANGED vars
  <2>1. ~ At({"Promote", "Propagate"})
    <3>1. SUFFICES ASSUME At({"Propagate"})
                   PROVE  FALSE
      BY <1>3 DEF At
    <3>2. ~ SleepStep
      BY <3>1 DEF SleepStep, OSSleepThread, SleepReturn, OSSleepTicks, ParkReturn,
                  SleepTimerDue, Reconcile, At
    <3>3. ~ SchedulerStep
      BY <3>1 DEF SchedulerStep, SelectThread, SelectReturns, SelectLeaves, Dispatch,
                  Reschedule, IdleTimers, LeaveIdleLoop, OSWakeupThread, WakeupDone,
                  Idling, At
    <3>4. ~ MutexStep
      BY <1>3, <3>1 DEF MutexStep, Promote, OSLockMutex, LockRetry, OSUnlockMutex,
                        UnlockAll, At
    <3>5. ~ LifeStep
      BY <3>1, NobodyReturns
      DEF LifeStep, OSCreateThread, OSSuspendThread, OSResumeThread, OSExitThread,
          ExitReschedule, OSCancelThread, OSJoinThread, JoinReturn, OSDetachThread, At
    <3>6. ~ CallbackStep /\ ~ GuestCall
      BY <3>1 DEF CallbackStep, IdleCallback, IdleCallbackReturns, BeginCallback,
                  EndCallback, GuestCall, InGuestCode, InCallback, Idling, At
    <3> QED  BY <1>3, <3>2, <3>3, <3>4, <3>5, <3>6 DEF Next, HleStep
  <2>2. SUFFICES ASSUME NEW m \in Mutex, NEW t \in Thread, Kept(m, t)
                 PROVE  Lends(owner[m], t)' \/ (At({"Propagate"})' /\ Arg' = owner[m])
    BY <2>1, InheritedKept
  <2>3. CASE prio' = prio /\ suspend' = suspend
    BY <2>2, <2>3 DEF Lends
  <2>4. CASE OSUnlockMutex
    BY <2>2, <2>4, UnlockInherits
  <2>5. CASE OSSuspendThread
    BY <2>2, <2>5, SuspendInherits
  <2>6. t \in Members(m) \/ At({"OSSleepThread"})
    BY <2>2, LockWaiterBefore DEF WaitInv
  <2>7. CASE OSResumeThread
    <3>1. t \in Members(m)
      BY <2>6, <2>7 DEF OSResumeThread, At
    <3> QED  BY <2>2, <2>7, <3>1, ResumeInherits
  <2>8. CASE OSCreateThread
    <3>1. At({"OSCreateThread"}) /\ t \in Members(m)
      BY <2>6, <2>8 DEF OSCreateThread, At
    <3>2. Dead(Arg)
      BY <3>1 DEF IInv, ControlInv, CreateNext
    <3>3. m \in WaitQueueId
      BY AddressFacts
    <3>4. state[t] = "waiting"
      BY <3>1, <3>3, LinkedFacts DEF Members, In
    <3>5. t # Arg
      BY <3>2, <3>4 DEF Dead
    <3>6. owner[m] \in Thread /\ owner[m] # Arg
      BY <2>2, <3>2, OwnerLives
    <3>7. \A v \in Thread \ {Arg} : prio'[v] = prio[v] /\ suspend'[v] = suspend[v]
      BY <2>8 DEF OSCreateThread, IInv, TypeOK
    <3> QED  BY <2>2, <3>5, <3>6, <3>7 DEF Lends
  <2> QED  BY <1>3, <2>1, <2>3, <2>4, <2>5, <2>7, <2>8, PrioritySteps DEF Promote, At
<1>4. CASE UNCHANGED vars
  BY <1>4
  DEF Inherited, Lends, Members, AboutToSleep, At, Arg, vars, fiberVars, threadVars, mutexVars
<1> QED  BY <1>1, <1>2, <1>3, <1>4

-----------------------------------------------------------------------------
(* The third invariant, and what follows from it.                          *)

LEMMA InitEnds ==
  ASSUME Init
  PROVE  EndInv
<1>1. /\ exec \in Thread /\ \A u \in Thread : stack[u] = << >>
      /\ \A t \in Thread : state[t] # "waiting" /\ held[t] = << >>
      /\ \A m \in Mutex : owner[m] = Null /\ count[m] = 0
  BY ConstantTypes DEF Init, ConstantTypes
<1>2. \A u \in Thread : ~ Has(stack[u], {"UnlockAll"})
  BY <1>1 DEF Has
<1>3. \A ops : ~ At(ops)
  BY <1>1 DEF At
<1>4. \A q : ~ AboutToSleep(q)
  BY <1>1 DEF AboutToSleep, ToSet
<1>5. \A t \in Thread : links.queue[t] = << >>
  <2>1. Thread \subseteq QueueId
    BY AddressFacts
  <2> QED  BY <2>1 DEF Init
<1>6. RitesNext
  BY <1>1, <1>2, <1>3 DEF RitesNext
<1>7. AllWaitersLinked /\ DeadHoldNothing
  BY <1>1 DEF AllWaitersLinked, DeadHoldNothing
<1>8. OwnershipAgrees
  <2>1. IsInjective(<< >>)
    BY DEF IsInjective
  <2>2. ToSet(<< >>) = {}
    BY DEF ToSet
  <2>3. Thread \subseteq QueueId /\ Null \notin QueueId
    BY AddressFacts, AddressesDistinct
  <2> QED  BY <1>1, <2>1, <2>2, <2>3 DEF OwnershipAgrees
<1>9. ListedExist
  BY ConstantTypes DEF Init, ListedExist, ConstantTypes
<1>10. JoinsListed /\ JoinsLiving /\ JoinersNext
  BY <1>3, <1>4, <1>5 DEF JoinsListed, JoinsLiving, JoinersNext
<1>11. Inherited
  BY <1>1 DEF Inherited
<1> QED  BY <1>6, <1>7, <1>8, <1>9, <1>10, <1>11 DEF EndInv

LEMMA EndStep ==
  ASSUME Disciplined, IInv, IInv', WaitInv, EndInv, ReleasesFirst, [Next]_vars
  PROVE  EndInv'
<1>1. /\ RitesNext /\ AllWaitersLinked /\ OwnershipAgrees /\ DeadHoldNothing /\ ListedExist
      /\ JoinsListed /\ JoinsLiving /\ JoinersNext /\ Inherited /\ DecidingNext
  BY DEF EndInv, WaitInv
<1>2. RitesNext'
  BY <1>1, RitesStep
<1>3. AllWaitersLinked'
  BY <1>1, AllWaitersLinkedStep
<1>4. OwnershipAgrees'
  BY <1>1, OwnershipAgreesStep
<1>5. DeadHoldNothing'
  BY <1>1, DeadHoldNothingStep
<1>6. ListedExist'
  BY <1>1, ListedExistStep
<1>7. JoinsListed'
  BY <1>1, JoinsListedStep
<1>8. JoinsLiving'
  BY <1>1, JoinsLivingStep
<1>9. JoinersNext'
  BY <1>1, JoinersNextStep
<1>10. Inherited'
  BY <1>1, InheritedStep
<1> QED  BY <1>2, <1>3, <1>4, <1>5, <1>6, <1>7, <1>8, <1>9, <1>10 DEF EndInv

\* The third invariant, of guest code that lets go of the mutexes of a thread
\* before the thread exits or is cancelled.
THEOREM EndInvariantHolds ==
  ASSUME Disciplined
  PROVE  Spec /\ []ReleasesFirst => []EndInv
<1>1. Init => EndInv
  BY InitEnds
<1>2. IInv /\ IInv' /\ WaitInv /\ ReleasesFirst /\ EndInv /\ [Next]_vars => EndInv'
  BY EndStep
<1> QED  BY <1>1, <1>2, InvariantHolds, WaitInvariantHolds, PTL DEF Spec

\* A thread's list of mutexes and the owner and lock count of each mutex tell the
\* same story, through every lock, unlock and retry.
THEOREM OwnersAgree ==
  ASSUME Disciplined
  PROVE  Spec /\ []ReleasesFirst => []OwnershipAgrees
<1>1. EndInv => OwnershipAgrees
  BY DEF EndInv
<1> QED  BY <1>1, EndInvariantHolds, PTL

\* No mutex is owned by a thread that has ended, also when a waiter takes over a
\* mutex while its former owner ends.
THEOREM TheDeadOwnNothing ==
  ASSUME Disciplined
  PROVE  Spec /\ []ReleasesFirst => []DeadOwnNothing
<1>1. IInv /\ EndInv => DeadOwnNothing
  BY OwnerLives DEF EndInv, DeadOwnNothing
<1> QED  BY <1>1, InvariantHolds, EndInvariantHolds, PTL

\* Outside the walks along the owners, an owner that is not suspended has at
\* least the priority of everybody who waits for it.
THEOREM OwnersInherit ==
  ASSUME Disciplined
  PROVE  Spec /\ []ReleasesFirst => []PriorityInherited
<1>1. EndInv => PriorityInherited
  <2>1. SUFFICES ASSUME EndInv, ~ At({"Promote", "Propagate"}),
                        NEW m \in Mutex, NEW t \in Members(m),
                        owner[m] # Null, suspend[owner[m]] = 0
                 PROVE  prio[owner[m]] <= prio[t]
    BY DEF PriorityInherited, Members
  <2>2. ~ At({"Promote"}) /\ ~ At({"Propagate"})
    BY <2>1 DEF At
  <2> QED  BY <2>1, <2>2 DEF EndInv, Inherited, Lends
<1> QED  BY <1>1, EndInvariantHolds, PTL

\* The next frame of the executing fiber, and the one below it, are pending.
LEMMA NextPending ==
  ASSUME IInv, stack[exec] # << >>
  PROVE  /\ Pending(Head(stack[exec]))
         /\ Tail(stack[exec]) # << >> => Pending(Head(Tail(stack[exec])))
<1>1. exec \in Thread /\ stack[exec] \in Seq(Frame)
  BY DEF IInv, TypeOK
<1>2. ASSUME NEW s \in Seq(Frame), s # << >>
      PROVE  Head(s) \in ToSet(s)
  BY <1>2 DEF ToSet
<1>3. Tail(stack[exec]) \in Seq(Frame) /\ Head(stack[exec]) \in Frame
  BY BelowTop
<1>4. ToSet(stack[exec]) = {Head(stack[exec])} \cup ToSet(Tail(stack[exec]))
  BY <1>3, BelowTop, OnTopSets
<1> QED  BY <1>1, <1>2, <1>3, <1>4 DEF Pending

\* Whoever joined a thread is being woken from the moment that thread has ended.
THEOREM JoinersAreWoken ==
  ASSUME Disciplined
  PROVE  Spec /\ []ReleasesFirst => []JoinersWoken
<1>1. IInv /\ EndInv => JoinersWoken
  <2>1. SUFFICES ASSUME IInv, EndInv, NEW t \in Thread, Dead(t), links.queue[t] # << >>
                 PROVE  Pending(Call("OSWakeupThread", t)) \/ Pending(Call("WakeupLinked", t))
    BY DEF JoinersWoken
  <2>2. CASE Waking(t)
    <3>1. At({"OSWakeupThread", "WakeupLinked"}) /\ Arg = t
      BY <2>2 DEF Waking
    <3>2. /\ stack[exec] # << >> /\ Head(stack[exec]) \in Frame
          /\ Head(stack[exec]).op \in {"OSWakeupThread", "WakeupLinked"}
          /\ Head(stack[exec]).arg = t
      BY <2>1, <3>1, TopFacts DEF Arg
    <3>3. Head(stack[exec]) \in {Call("OSWakeupThread", t), Call("WakeupLinked", t)}
      BY <3>2 DEF Frame, Call, ThreadCall, QueueCall, MutexCall, PlainCall
    <3> QED  BY <2>1, <3>2, <3>3, NextPending
  <2>3. CASE ~ Waking(t)
    <3>1. /\ At({"UnlockAll"}) /\ Tail(stack[exec]) # << >>
          /\ Head(Tail(stack[exec])) = Call("OSWakeupThread", t)
      BY <2>1, <2>3 DEF EndInv, JoinersNext
    <3>2. stack[exec] # << >>
      BY <3>1 DEF At
    <3> QED  BY <2>1, <3>1, <3>2, NextPending
  <2> QED  BY <2>2, <2>3
<1> QED  BY <1>1, InvariantHolds, EndInvariantHolds, PTL

\* The state of a thread says where it is: a waiter is linked in a wait queue, as
\* a ready thread is in the run queue of its priority.
THEOREM StatesSayWhere ==
  ASSUME Disciplined
  PROVE  Spec /\ []ReleasesFirst => []StateSaysWhere
<1>1. IInv /\ EndInv /\ LinkedByState => StateSaysWhere
  <2>1. SUFFICES ASSUME IInv, EndInv, LinkedByState, NEW t \in Thread, state[t] = "waiting"
                 PROVE  InWaitQueue(t)
    BY DEF LinkedByState, StateSaysWhere
  <2>2. links.at[t] \in WaitQueueId
    BY <2>1, LinkedFacts
  <2> QED  BY <2>1, <2>2 DEF EndInv, AllWaitersLinked, Members, InWaitQueue
<1> QED  BY <1>1, InvariantHolds, StateSaysWhereLinked, EndInvariantHolds, PTL

\* A queue pointer is cleared only of a thread that is linked where it points: no
\* call takes a thread off a queue on which it is not.
THEOREM OnlyTheLinkedAreUnlinked ==
  ASSUME Disciplined
  PROVE  Spec /\ []ReleasesFirst => UnlinksOnlyLinked
<1> DEFINE Clears == \A t \in Thread : links.at[t] # Null /\ links'.at[t] = Null =>
                       t \in ToSet(links.queue[links.at[t]])
<1>1. IInv /\ IInv' /\ EndInv /\ [Next]_vars => [Clears]_vars
  <2>1. SUFFICES ASSUME IInv, IInv', EndInv, [Next]_vars
                 PROVE  Clears
    OBVIOUS
  <2>2. ClearStep
    BY <2>1, LinksStep DEF LinkStep
  <2> QED  BY <2>1, <2>2 DEF ClearStep, In, EndInv, AllWaitersLinked, Members
<1> QED  BY <1>1, InvariantHolds, EndInvariantHolds, PTL DEF Spec, UnlinksOnlyLinked
=============================================================================
