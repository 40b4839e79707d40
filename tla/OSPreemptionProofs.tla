-------------------------- MODULE OSPreemptionProofs --------------------------
(***************************************************************************)
(* Preemption is not lost, and without callbacks the most urgent thread    *)
(* that is ready executes, for guest code that lets go of the mutexes of a *)
(* thread before it ends and cancels no thread while it waits for a mutex. *)
(* The invariants are LendInv, PreemptionKept and HighestInv of            *)
(* OSThreadsInductive, on top of those that OSThreadsProofs establishes.   *)
(* And whoever is in a tick sleep has a source of wakeups, for guest code  *)
(* that suspends no sleeper, with ParkInv on top of IInv alone.            *)
(***************************************************************************)
EXTENDS OSThreadsProofs

-----------------------------------------------------------------------------
(* What the remaining steps do to the call chains.                         *)

LEMMA ContinueSets ==
  ASSUME IInv, stack[exec] # << >>, NEW g \in Seq(Frame), Continue(g)
  PROVE  /\ ToSet(stack'[exec]) = ToSet(g) \cup ToSet(Tail(stack[exec]))
         /\ \A u \in Thread \ {exec} : stack'[u] = stack[u]
<1>1. stack \in [Thread -> Seq(Frame)] /\ exec \in Thread /\ stack[exec] \in Seq(Frame)
  BY ChainNow
<1>2. /\ stack'[exec] = g \o Tail(stack[exec])
      /\ \A u \in Thread \ {exec} : stack'[u] = stack[u]
  BY <1>1, ContinueFacts DEF Replaces
<1>3. Tail(stack[exec]) \in Seq(Frame)
  BY <1>1, HeadTailProperties
<1>4. ToSet(g \o Tail(stack[exec])) = ToSet(g) \cup ToSet(Tail(stack[exec]))
  BY <1>3, ConcatSets
<1> QED  BY <1>2, <1>4

\* The steps that decide to wait add the frames of that decision only.
LEMMA DecidersAddNo ==
  ASSUME IInv, NEW f \in Followed,
         \/ Promote /\ f.op # "Promote"
         \/ OSLockMutex /\ f.op \notin {"Promote", "OSSleepThread", "LockRetry"}
         \/ OSJoinThread /\ f.op # "OSSleepThread"
         \/ UnlockAll /\ f.op \notin {"UnlockAll"} \cup Wakeups
  PROVE  AddsNo(f)
<1>1. stack[exec] # << >>
  BY DEF Promote, OSLockMutex, OSJoinThread, UnlockAll, At
<1>2. \A f1 \in Frame : f1 # f /\ Continue(<< f1 >>) => AddsNo(f)
  BY <1>1, ReturnAddsNo
<1>3. Return => AddsNo(f)
  BY <1>1, ReturnAddsNo
<1>4. CASE Promote /\ f.op # "Promote"
  <2>1. Arg \in Thread \cup {Null}
    <3>1. At({"Promote"})
      BY <1>4 DEF Promote
    <3> QED  BY <3>1, TopFacts, ArgFacts DEF Arg
  <2>2. CASE Arg = Null
    BY <1>3, <1>4, <2>2 DEF Promote
  <2>3. CASE Arg \in Thread
    <3>1. NextInChain(Arg) \in Thread \cup {Null}
      BY <2>3, ChainFacts DEF IInv
    <3>2. Return \/ Continue(<< Call("Promote", NextInChain(Arg)) >>)
      BY <1>4 DEF Promote
    <3>3. /\ Call("Promote", NextInChain(Arg)) \in Frame
          /\ Call("Promote", NextInChain(Arg)).op = "Promote"
      BY <3>1, FrameFacts, FramesFacts
    <3> QED  BY <1>2, <1>3, <1>4, <3>2, <3>3
  <2> QED  BY <2>1, <2>2, <2>3
<1>5. CASE OSLockMutex /\ f.op \notin {"Promote", "OSSleepThread", "LockRetry"}
  <2>1. Arg \in Mutex /\ owner[Arg] \in Thread \cup {Null}
    <3>1. At({"OSLockMutex"})
      BY <1>5 DEF OSLockMutex
    <3>2. Arg \in Mutex
      BY <3>1, TopFacts, ArgFacts DEF Arg
    <3> QED  BY <3>2 DEF IInv, TypeOK
  <2> DEFINE f1 == Call("Promote", owner[Arg])
             f2 == Call("OSSleepThread", Arg)
             f3 == Call("LockRetry", Arg)
  <2>2. /\ f1 \in Frame /\ f2 \in Frame /\ f3 \in Frame
        /\ f1 # f /\ f2 # f /\ f3 # f
    BY <1>5, <2>1, FrameFacts, FramesFacts, AddressFacts
  <2>3. Return \/ Continue(<< f1, f2, f3 >>)
    BY <1>5 DEF OSLockMutex
  <2> HIDE DEF f1, f2, f3
  <2>4. << f1, f2, f3 >> \in Seq(Frame) /\ \A i \in DOMAIN << f1, f2, f3 >> : << f1, f2, f3 >>[i] # f
    BY <2>2, FramesFacts
  <2> QED  BY <1>1, <1>3, <2>3, <2>4, ContinueAddsNo
<1>6. CASE OSJoinThread /\ f.op # "OSSleepThread"
  <2>1. Arg \in Thread
    <3>1. At({"OSJoinThread"})
      BY <1>6 DEF OSJoinThread
    <3> QED  BY <3>1, TopFacts, ArgFacts DEF Arg, ThreadCall
  <2>2. Return \/ Continue(<< Call("OSSleepThread", Arg), Call("JoinReturn", Arg) >>)
    BY <1>6 DEF OSJoinThread
  <2>3. /\ Call("OSSleepThread", Arg) \in Frame /\ Call("OSSleepThread", Arg) # f
        /\ Call("JoinReturn", Arg) \in Frame
    BY <1>6, <2>1, FrameFacts, FramesFacts, AddressFacts
  <2>4. Call("JoinReturn", Arg) # f
    BY FramesFacts DEF Followed, Marked, Deciding, Callbacks, Wakeups
  <2> QED  BY <1>1, <1>3, <2>2, <2>3, <2>4, ReturnAddsNo
<1>7. CASE UnlockAll /\ f.op \notin {"UnlockAll"} \cup Wakeups
  <2>1. At({"UnlockAll"})
    BY <1>7 DEF UnlockAll
  <2>2. Arg \in Thread
    BY <2>1, TopFacts, ArgFacts DEF Arg
  <2>3. CASE held[Arg] = << >>
    BY <1>3, <1>7, <2>3 DEF UnlockAll
  <2>4. CASE held[Arg] # << >>
    <3>1. Head(held[Arg]) \in Mutex
      BY <2>2, <2>4 DEF IInv, TypeOK
    <3>2. Continue(<< Call("OSWakeupThread", Head(held[Arg])), Call("UnlockAll", Arg) >>)
      BY <1>7, <2>4 DEF UnlockAll
    <3>3. /\ Call("OSWakeupThread", Head(held[Arg])) \in Frame
          /\ Call("OSWakeupThread", Head(held[Arg])).op = "OSWakeupThread"
          /\ Call("UnlockAll", Arg) \in Frame /\ Call("UnlockAll", Arg).op = "UnlockAll"
      BY <2>2, <3>1, FrameFacts, FramesFacts, AddressFacts
    <3> QED  BY <1>1, <1>7, <3>2, <3>3, ReturnAddsNo DEF Wakeups
  <2> QED  BY <2>3, <2>4
<1> QED  BY <1>4, <1>5, <1>6, <1>7

\* The end of a thread drops the chain of that thread.
LEMMA TerminateAddsNo ==
  ASSUME IInv, stack[exec] # << >>, NEW t \in Thread,
         NEW op \in {"ExitReschedule", "Reschedule"}, Terminate(t, Call(op, Null)),
         NEW f \in Followed, f.op # "UnlockAll"
  PROVE  AddsNo(f)
<1>1. /\ stack \in [Thread -> Seq(Frame)] /\ exec \in Thread /\ stack[exec] \in Seq(Frame)
      /\ Tail(stack[exec]) \in Seq(Frame)
  BY ChainNow, BelowTop
<1> DEFINE g == LastRites(t, Call(op, Null))
<1>2. /\ stack'[exec] = g \o Tail(stack[exec])
      /\ \A u \in Thread \ {exec, t} : stack'[u] = stack[u]
      /\ t # exec => stack'[t] = << >>
  BY <1>1 DEF Terminate
<1>3. Dead(t)'
  BY DEF Terminate, Dead, IInv, TypeOK
<1>4. g \in Seq(Frame) /\ f \notin ToSet(g)
  <2> DEFINE f1 == Call("UnlockAll", t)
             f2 == Call("OSWakeupThread", t)
             f3 == Call(op, Null)
  <2>1. f1 \in Frame /\ f2 \in Frame /\ f3 \in Frame
    BY FrameFacts, AddressFacts
  <2>2. f1 # f /\ f2 # f
    BY OtherFrames, FramesFacts
  <2>3. f3 # f
    BY FramesFacts DEF Followed, Marked, Deciding, Callbacks, Wakeups
  <2>4. g = << f1, f2, f3 >>
    BY DEF LastRites
  <2> HIDE DEF f1, f2, f3, g
  <2>5. << f1, f2, f3 >> \in Seq(Frame) /\ f \notin ToSet(<< f1, f2, f3 >>)
    BY <2>1, <2>2, <2>3, FramesFacts DEF ToSet
  <2> QED  BY <2>4, <2>5
<1> HIDE DEF g
<1>5. ToSet(g \o Tail(stack[exec])) = ToSet(g) \cup ToSet(Tail(stack[exec]))
  BY <1>1, <1>4, ConcatSets
<1> QED  BY <1>2, <1>3, <1>4, <1>5 DEF AddsNo

LEMMA DispatchAddsNo ==
  ASSUME IInv, Dispatch, NEW f \in Followed
  PROVE  AddsNo(f)
<1>1. /\ At({"Dispatch"}) /\ stack[exec] # << >>
  BY DEF Dispatch, At
<1>2. /\ stack \in [Thread -> Seq(Frame)] /\ exec \in Thread /\ stack[exec] \in Seq(Frame)
      /\ Tail(stack[exec]) \in Seq(Frame)
  BY <1>1, ChainNow, BelowTop
<1>3. Head(stack[exec]) # f
  BY <1>1, TopFacts DEF Followed, Marked, Deciding, Callbacks, Wakeups
<1>4. ToSet(stack[exec]) = {Head(stack[exec])} \cup ToSet(Tail(stack[exec]))
  BY <1>1, <1>2, ChainSets
<1>5. CASE Return
  BY <1>1, <1>5, ReturnAddsNo
<1>6. CASE stack' = stack
  BY <1>1, <1>3, <1>4, <1>6 DEF AddsNo
<1>7. CASE ~ Return /\ stack' # stack
  <2> DEFINE p    == CHOOSE q \in links.pending : \A r \in links.pending : q <= r
             head == Head(links.queue[p])
  <2>1. /\ stack' = [stack EXCEPT ![exec] = IF Dead(exec) THEN << >> ELSE Tail(@)]
        /\ state' = [state EXCEPT ![head] = "running"]
        /\ ~ Dead(head)
    BY <1>7 DEF Dispatch
  <2> HIDE DEF head
  <2>2. ASSUME NEW u \in Thread, Dead(u)
        PROVE  Dead(u)'
    <3>1. state \in [Thread -> {"none", "ready", "running", "waiting", "moribund"}]
      BY DEF IInv, TypeOK
    <3>2. head # u
      BY <2>1, <2>2
    <3>3. state'[u] = state[u]
      BY <2>1, <3>1, <3>2
    <3> QED  BY <2>2, <3>3 DEF Dead
  <2>3. /\ \A u \in Thread \ {exec} : stack'[u] = stack[u]
        /\ stack'[exec] = IF Dead(exec) THEN << >> ELSE Tail(stack[exec])
    BY <1>2, <2>1
  <2>4. ToSet(<< >>) = {}
    BY DEF ToSet
  <2> QED  BY <1>1, <2>2, <2>3, <2>4 DEF AddsNo
<1> QED  BY <1>5, <1>6, <1>7

LEMMA GuestAddsNo ==
  ASSUME IInv, GuestCall, NEW f \in Followed,
         f.op \notin Callbacks \/ InGuestCode,
         f.op # "OSJoinThread", f.op = "OSSleepThread" => f.arg \notin WaitQueue
  PROVE  AddsNo(f)
<1>1. PICK c \in Frame :
        /\ c.op \in IF InGuestCode THEN GuestCalls[exec] ELSE CallbackCalls
        /\ Legal(c)
        /\ stack' = [stack EXCEPT ![exec] = << c >> \o @]
  BY DEF GuestCall
<1>2. c.op \in OSFunction
  <2>1. exec \in Thread
    BY DEF IInv, TypeOK
  <2> QED  BY <1>1, <2>1, ConstantTypes DEF ConstantTypes
<1>3. c.op \in QueueCall => c.arg \in WaitQueue
  BY <1>1 DEF Legal
<1>4. f # c
  <2>1. f.op \in OSFunction => f.op \in {"OSJoinThread", "OSSleepThread", "OSWakeupThread"}
    BY DEF Followed, Marked, Deciding, Callbacks, Wakeups, OSFunction, ThreadCall, QueueCall,
           MutexCall, PlainCall
  <2>2. f.op = "OSWakeupThread" => f.arg \notin WaitQueue
    BY AddressesDistinct DEF Followed, Marked, Deciding, Callbacks, Wakeups, AddressesDistinct
  <2> QED  BY <1>2, <1>3, <2>1, <2>2 DEF QueueCall
<1>5. stack[exec] = << >> \/ Head(stack[exec]) # f
  <2>1. InGuestCode \/ InCallback
    BY DEF GuestCall
  <2> QED  BY <2>1 DEF InGuestCode, InCallback, At, Callbacks
<1> QED  BY <1>1, <1>4, <1>5, PushAddsNo

\* The steps that add a frame that is followed, all of them.
LEMMA FollowedSteps ==
  ASSUME IInv, [Next]_vars, NEW f \in Followed
  PROVE  \/ AddsNo(f)
         \/ UNCHANGED vars
         \/ Promote /\ f.op = "Promote"
         \/ OSLockMutex /\ f.op \in {"Promote", "OSSleepThread", "LockRetry"}
         \/ OSJoinThread /\ f.op = "OSSleepThread"
         \/ UnlockAll /\ f.op \in {"UnlockAll"} \cup Wakeups
         \/ (OSExitThread \/ OSCancelThread) /\ f.op = "UnlockAll"
         \/ /\ GuestCall
            /\ \/ f.op = "OSJoinThread"
               \/ f.op = "OSSleepThread" /\ f.arg \in WaitQueue
               \/ f.op \in Callbacks /\ ~ InGuestCode
         \/ (Propagate \/ OSSuspendThread \/ OSResumeThread) /\ f.op = "Propagate"
         \/ (OSWakeupThread \/ OSUnlockMutex) /\ f.op \in Wakeups
         \/ CallbackStep /\ f.op \in Callbacks
<1>1. CASE Dispatch
  BY <1>1, DispatchAddsNo
<1>2. CASE Promote \/ OSLockMutex \/ OSJoinThread \/ UnlockAll
  BY <1>2, DecidersAddNo
<1>3. CASE OSExitThread \/ OSCancelThread
  <2>1. stack[exec] # << >>
    BY <1>3 DEF OSExitThread, OSCancelThread, At
  <2>2. \/ Return
        \/ \E t \in Thread, op \in {"ExitReschedule", "Reschedule"} : Terminate(t, Call(op, Null))
    BY <1>3, EndingStep
  <2> QED  BY <1>3, <2>1, <2>2, ReturnAddsNo, TerminateAddsNo
<1>4. CASE GuestCall
  BY <1>4, GuestAddsNo
<1> QED  BY <1>1, <1>2, <1>3, <1>4, FollowedStep

-----------------------------------------------------------------------------
(* Frames that only the executing fiber has, as its next one.              *)

NextOnly(f) ==
  /\ \A u \in Thread \ {exec} : f \notin ToSet(stack[u])
  /\ stack[exec] # << >> => f \notin ToSet(Tail(stack[exec]))

LEMMA NobodyNext ==
  ASSUME IInv, NEW f, NextOnly(f), AddsNo(f)
  PROVE  \A u \in Thread : f \notin ToSet(stack'[u])
<1>1. ToSet(<< >>) = {}
  BY DEF ToSet
<1> QED  BY <1>1 DEF NextOnly, AddsNo

LEMMA NobodyAfter ==
  ASSUME IInv', NEW f, \A u \in Thread : f \notin ToSet(stack'[u])
  PROVE  NextOnly(f)' /\ ~ (stack'[exec'] # << >> /\ Head(stack'[exec']) = f)
<1>1. stack'[exec'] \in Seq(Frame) /\ exec' \in Thread
  BY DEF IInv, TypeOK
<1>2. stack'[exec'] # << >> =>
        ToSet(stack'[exec']) = {Head(stack'[exec'])} \cup ToSet(Tail(stack'[exec']))
  BY <1>1, ChainSets
<1> QED  BY <1>1, <1>2 DEF NextOnly

\* The step replaces the next frame by one, so that the others stay what they are.
LEMMA OneNext ==
  ASSUME IInv, stack[exec] # << >>, NEW f1 \in Frame, Continue(<< f1 >>), exec' = exec,
         NEW f, NextOnly(f)
  PROVE  NextOnly(f)' /\ stack'[exec'] # << >> /\ Head(stack'[exec']) = f1
<1>1. /\ stack'[exec'] # << >> /\ Head(stack'[exec']) = f1
      /\ Tail(stack'[exec']) = Tail(stack[exec])
  BY NextFrame
<1>2. \A u \in Thread \ {exec} : stack'[u] = stack[u]
  BY ChainNow, ContinueFacts, FramesFacts
<1> QED  BY <1>1, <1>2 DEF NextOnly

LEMMA WakesFacts ==
  ASSUME IInv, NEW m \in Mutex
  PROVE  /\ Wakes(m) \subseteq Followed
         /\ \A f \in Wakes(m) : f.op \in Wakeups /\ f.arg = m
         /\ Waking(m) <=> stack[exec] # << >> /\ Head(stack[exec]) \in Wakes(m)
<1>1. Wakes(m) \subseteq Frame
  BY FrameFacts, AddressFacts DEF Wakes
<1>2. \A f \in Wakes(m) : f.op \in Wakeups /\ f.arg = m
  BY FramesFacts DEF Wakes, Wakeups
<1>3. stack[exec] # << >> => Head(stack[exec]) \in Frame
  BY BelowTop
<1>4. ASSUME NEW f \in Frame, f.op \in Wakeups, f.arg = m
      PROVE  f \in Wakes(m)
  <2>1. f = Call(f.op, f.arg)
    BY DEF Frame, Call
  <2> QED  BY <1>4, <2>1 DEF Wakes, Wakeups
<1> QED  BY <1>1, <1>2, <1>3, <1>4 DEF Waking, At, Arg, Followed, Wakeups

LEMMA WakesStep ==
  ASSUME IInv, IInv', RitesNext, WakesNext, [Next]_vars
  PROVE  WakesNext'
<1> SUFFICES ASSUME NEW m \in Mutex
             PROVE  /\ \A f \in Wakes(m) : NextOnly(f)'
                    /\ Waking(m)' => owner'[m] = Null
  BY DEF WakesNext, NextOnly, Wakes
<1>1. /\ \A f \in Wakes(m) : NextOnly(f)
      /\ Waking(m) => owner[m] = Null
  BY DEF WakesNext, NextOnly
<1>2. /\ Wakes(m) \subseteq Followed
      /\ \A f \in Wakes(m) : f.op \in Wakeups /\ f.arg = m
  BY WakesFacts
<1>3. ASSUME \A f \in Wakes(m) : AddsNo(f)
      PROVE  (\A f \in Wakes(m) : NextOnly(f)') /\ ~ Waking(m)'
  <2>1. ASSUME NEW f \in Wakes(m)
        PROVE  NextOnly(f)' /\ ~ (stack'[exec'] # << >> /\ Head(stack'[exec']) = f)
    BY <1>1, <1>3, NobodyNext, NobodyAfter
  <2>2. Waking(m)' => stack'[exec'] # << >> /\ Head(stack'[exec']) \in Wakes(m)
    <3>1. stack'[exec'] \in Seq(Frame)
      BY DEF IInv, TypeOK
    <3>2. stack'[exec'] # << >> => Head(stack'[exec']) \in Frame
      BY <3>1, HeadTailProperties
    <3>3. ASSUME NEW f \in Frame, f.op \in Wakeups, f.arg = m
          PROVE  f \in Wakes(m)
      <4>1. f = Call(f.op, f.arg)
        BY DEF Frame, Call
      <4> QED  BY <3>3, <4>1 DEF Wakes, Wakeups
    <3> QED  BY <3>2, <3>3 DEF Waking, At, Arg, Wakeups
  <2> QED  BY <2>1, <2>2
<1>4. CASE UNCHANGED vars
  BY <1>1, <1>4 DEF NextOnly, Waking, At, Arg, vars, fiberVars, mutexVars
<1>5. CASE UnlockAll
  <2>1. At({"UnlockAll"}) /\ stack[exec] # << >>
    BY <1>5 DEF UnlockAll, At
  <2>2. Return
    BY <1>5, <2>1 DEF UnlockAll, RitesNext
  <2> QED  BY <1>2, <1>3, <2>1, <2>2, ReturnAddsNo
<1>6. CASE OSWakeupThread
  <2>1. /\ At({"OSWakeupThread", "WakeupLinked"}) /\ stack[exec] # << >>
        /\ exec' = exec /\ owner' = owner
        /\ stack' = stack \/ Continue(<< Call("WakeupLinked", Arg) >>)
    BY <1>6 DEF OSWakeupThread, At, mutexVars
  <2>2. Arg \in WaitQueueId
    BY <2>1, TopFacts, ArgFacts DEF Arg
  <2>3. CASE stack' = stack
    BY <1>1, <2>1, <2>3 DEF NextOnly, Waking, At, Arg
  <2>4. CASE Continue(<< Call("WakeupLinked", Arg) >>)
    <3>1. Call("WakeupLinked", Arg) \in Frame
      BY <2>2, FrameFacts
    <3>2. CASE Arg = m
      <4>1. Waking(m)
        BY <2>1, <3>2 DEF Waking
      <4> QED  BY <1>1, <2>1, <2>4, <3>1, <4>1, OneNext
    <3>3. CASE Arg # m
      <4>1. Call("WakeupLinked", Arg).arg # m
        BY <3>3, FramesFacts
      <4> QED  BY <1>2, <1>3, <2>1, <2>4, <3>1, <4>1, ReturnAddsNo
    <3> QED  BY <3>2, <3>3
  <2> QED  BY <2>1, <2>3, <2>4
<1>7. CASE OSUnlockMutex
  <2>1. At({"OSUnlockMutex"}) /\ stack[exec] # << >> /\ exec' = exec
    BY <1>7 DEF OSUnlockMutex, At
  <2>2. Arg \in Mutex
    BY <2>1, TopFacts, ArgFacts DEF Arg
  <2>3. CASE Return
    BY <1>3, <2>1, <2>3, ReturnAddsNo
  <2>4. CASE ~ Return
    <3>1. Continue(<< Call("OSWakeupThread", Arg) >>) /\ owner' = [owner EXCEPT ![Arg] = Null]
      BY <1>7, <2>4 DEF OSUnlockMutex, Return
    <3>2. Call("OSWakeupThread", Arg) \in Frame
      BY <2>2, FrameFacts, AddressFacts
    <3>3. CASE Arg = m
      <4>1. owner'[m] = Null
        BY <3>1, <3>3 DEF IInv, TypeOK
      <4> QED  BY <1>1, <2>1, <3>1, <3>2, <4>1, OneNext
    <3>4. CASE Arg # m
      <4>1. Call("OSWakeupThread", Arg).arg # m
        BY <3>4, FramesFacts
      <4> QED  BY <1>2, <1>3, <2>1, <3>1, <3>2, <4>1, ReturnAddsNo
    <3> QED  BY <3>3, <3>4
  <2> QED  BY <2>3, <2>4
<1>8. \A f \in Wakes(m) : AddsNo(f) \/ UNCHANGED vars \/ UnlockAll \/ OSWakeupThread \/ OSUnlockMutex
  BY <1>2, FollowedSteps DEF Wakeups, Callbacks
<1> QED  BY <1>3, <1>4, <1>5, <1>6, <1>7, <1>8

-----------------------------------------------------------------------------
(* Threads that come back from a wait for a mutex.                         *)

\* No step takes away more than the next frame of a fiber, but from the dead.
LEMMA BelowKept ==
  ASSUME IInv, [Next]_vars
  PROVE  /\ \A u \in Thread \ {exec} : stack'[u] = stack[u] \/ (stack'[u] = << >> /\ Dead(u)')
         /\ \A u \in Thread : u = exec /\ stack[u] # << >> /\ ~ Dead(u)' =>
              ToSet(Tail(stack[u])) \subseteq ToSet(stack'[u])
<1> DEFINE f1 == Call("UnlockAll", exec)
           f2 == Call("Promote", Null)
<1>1. exec \in Thread /\ stack[exec] \in Seq(Frame)
  BY ChainNow
<1>2. /\ f1 \in Frame /\ f1.op = "UnlockAll"
      /\ f2 \in Frame /\ f2.op = "Promote"
  BY <1>1, FrameFacts, FramesFacts
<1>3. f1 \in Followed /\ f2 \in Followed
  BY <1>2 DEF Followed, Marked, Deciding
<1> HIDE DEF f1, f2
<1>4. AddsNo(f1) \/ UNCHANGED vars \/ UnlockAll \/ OSExitThread \/ OSCancelThread
  BY <1>2, <1>3, FollowedSteps DEF Callbacks, Wakeups
<1>5. AddsNo(f2) \/ UNCHANGED vars \/ Promote \/ OSLockMutex
  BY <1>2, <1>3, FollowedSteps DEF Callbacks, Wakeups
<1>6. ~ ((UnlockAll \/ OSExitThread \/ OSCancelThread) /\ (Promote \/ OSLockMutex))
  BY DEF UnlockAll, OSExitThread, OSCancelThread, Promote, OSLockMutex, At
<1>7. CASE UNCHANGED vars
  BY <1>1, <1>7, ChainSets DEF vars, fiberVars
<1>8. CASE AddsNo(f1) \/ AddsNo(f2)
  BY <1>8 DEF AddsNo
<1> QED  BY <1>4, <1>5, <1>6, <1>7, <1>8

LEMMA RetryOnly ==
  ASSUME IInv, [Next]_vars, At({"LockRetry"})
  PROVE  LockRetry \/ UNCHANGED vars
<1>1. ~ SleepStep
  BY DEF SleepStep, OSSleepThread, SleepReturn, OSSleepTicks, ParkReturn, SleepTimerDue,
         Reconcile, At
<1>2. ~ SchedulerStep
  BY DEF SchedulerStep, SelectThread, SelectReturns, SelectLeaves, Dispatch, Reschedule,
         IdleTimers, LeaveIdleLoop, OSWakeupThread, WakeupDone, Idling, At
<1>3. MutexStep => LockRetry
  BY DEF MutexStep, Promote, Propagate, OSLockMutex, OSUnlockMutex, UnlockAll, At
<1>4. ~ LifeStep
  BY NobodyReturns
  DEF LifeStep, OSCreateThread, OSSuspendThread, OSResumeThread, OSExitThread,
      ExitReschedule, OSCancelThread, OSJoinThread, JoinReturn, OSDetachThread, At
<1>5. ~ CallbackStep /\ ~ GuestCall
  BY DEF CallbackStep, IdleCallback, IdleCallbackReturns, BeginCallback, EndCallback,
         GuestCall, InGuestCode, InCallback, Idling, At
<1> QED  BY <1>1, <1>2, <1>3, <1>4, <1>5 DEF Next, HleStep

LEMMA SleepOnly ==
  ASSUME IInv, [Next]_vars, At({"OSSleepThread"})
  PROVE  OSSleepThread \/ UNCHANGED vars
<1>1. SleepStep => OSSleepThread
  BY DEF SleepStep, SleepReturn, OSSleepTicks, ParkReturn, SleepTimerDue, Reconcile, At
<1>2. ~ SchedulerStep
  BY DEF SchedulerStep, SelectThread, SelectReturns, SelectLeaves, Dispatch, Reschedule,
         IdleTimers, LeaveIdleLoop, OSWakeupThread, WakeupDone, Idling, At
<1>3. ~ MutexStep
  BY DEF MutexStep, Promote, Propagate, OSLockMutex, LockRetry, OSUnlockMutex, UnlockAll, At
<1>4. ~ LifeStep
  BY NobodyReturns
  DEF LifeStep, OSCreateThread, OSSuspendThread, OSResumeThread, OSExitThread,
      ExitReschedule, OSCancelThread, OSJoinThread, JoinReturn, OSDetachThread, At
<1>5. ~ CallbackStep /\ ~ GuestCall
  BY DEF CallbackStep, IdleCallback, IdleCallbackReturns, BeginCallback, EndCallback,
         GuestCall, InGuestCode, InCallback, Idling, At
<1> QED  BY <1>1, <1>2, <1>3, <1>4, <1>5 DEF Next, HleStep

\* A thread that is alive was so before, unless it has just been created.
LEMMA LivesBefore ==
  ASSUME IInv, [Next]_vars, NEW u \in Thread, ~ Dead(u)'
  PROVE  ~ Dead(u) \/ (OSCreateThread /\ Arg = u)
<1>1. state \in [Thread -> {"none", "ready", "running", "waiting", "moribund"}]
  BY DEF IInv, TypeOK
<1>2. ASSUME \/ state' = state
             \/ \E t, x : ~ Dead(t) /\ state' = [state EXCEPT ![t] = x]
             \/ \E t : state' = [state EXCEPT ![t] = "none"]
      PROVE  ~ Dead(u)
  BY <1>1, <1>2 DEF Dead
<1>3. CASE OSSleepThread
  <2>1. running = exec /\ ~ Dead(exec) /\ exec # Null
    <3>1. At({"OSSleepThread"})
      BY <1>3 DEF OSSleepThread
    <3>2. running = exec /\ state[exec] = "running" /\ exec \in Thread
      BY <3>1, TopFacts, BusyTopFacts DEF Quiet, Barrier
    <3> QED  BY <3>2, AddressFacts DEF Dead
  <2>2. state' = state \/ state' = [state EXCEPT ![exec] = "waiting"]
    BY <1>3, <2>1 DEF OSSleepThread
  <2> QED  BY <1>2, <2>1, <2>2
<1>4. CASE SleepReturn \/ OSSleepTicks \/ ParkReturn \/ SleepTimerDue \/ Reconcile
  <2>1. state' = state \/ (~ Dead(exec) /\ state' = [state EXCEPT ![exec] = "running"])
    BY <1>4
    DEF SleepReturn, OSSleepTicks, ParkReturn, SleepTimerDue, Reconcile, threadVars, Dead
  <2> QED  BY <1>2, <2>1
<1>5. CASE SelectThread \/ SelectReturns \/ SelectLeaves \/ Reschedule \/ IdleTimers
           \/ LeaveIdleLoop \/ WakeupDone
  <2>1. state' = state \/ (~ Dead(running) /\ state' = [state EXCEPT ![running] = "ready"])
    BY <1>5
    DEF SelectThread, SelectReturns, SelectLeaves, Reschedule, IdleTimers, LeaveIdleLoop,
        WakeupDone, threadVars, Dead
  <2> QED  BY <1>2, <2>1
<1>6. CASE Dispatch \/ OSWakeupThread
  <2>1. state' = state \/ \E t, x : ~ Dead(t) /\ state' = [state EXCEPT ![t] = x]
    BY <1>6 DEF Dispatch, OSWakeupThread
  <2> QED  BY <1>2, <2>1
<1>7. CASE MutexStep \/ CallbackStep \/ GuestCall \/ UNCHANGED vars
  <2>1. state' = state
    BY <1>7
    DEF MutexStep, Promote, Propagate, OSLockMutex, LockRetry, OSUnlockMutex, UnlockAll,
        CallbackStep, IdleCallback, IdleCallbackReturns, BeginCallback, EndCallback,
        GuestCall, vars, threadVars
  <2> QED  BY <1>2, <2>1
<1>8. CASE OSCreateThread
  <2>1. state' = [state EXCEPT ![Arg] = "ready"]
    BY <1>8 DEF OSCreateThread
  <2> QED  BY <1>1, <1>8, <2>1 DEF Dead
<1>9. CASE OSSuspendThread \/ OSResumeThread \/ ExitReschedule
  <2>1. \/ state' = state
        \/ ~ Dead(Arg) /\ state' = [state EXCEPT ![Arg] = "ready"]
    BY <1>9 DEF OSSuspendThread, OSResumeThread, ExitReschedule, threadVars, Dead
  <2> QED  BY <1>2, <2>1
<1>10. CASE OSJoinThread \/ JoinReturn \/ OSDetachThread
  <2>1. state' = state \/ state' = [state EXCEPT ![Arg] = "none"]
    BY <1>10 DEF OSJoinThread, JoinReturn, OSDetachThread, Reap
  <2> QED  BY <1>2, <2>1
<1>11. CASE OSExitThread \/ OSCancelThread
  <2>1. state' = state \/ \E t, x : x \in {"none", "moribund"} /\ state' = [state EXCEPT ![t] = x]
    BY <1>11, EndingStep DEF Terminate
  <2> QED  BY <1>1, <2>1 DEF Dead
<1> QED
  BY <1>3, <1>4, <1>5, <1>6, <1>7, <1>8, <1>9, <1>10, <1>11, NobodyReturns
  DEF Next, HleStep, SleepStep, SchedulerStep, LifeStep

LEMMA HasSets ==
  ASSUME NEW s, NEW op
  PROVE  Has(s, {op}) <=> \E f \in ToSet(s) : f.op = op
  BY DEF Has, ToSet

\* What a step does to the mutex a thread waits for.
LEMMA BlockedSteps ==
  ASSUME IInv, [Next]_vars, NEW u \in Thread
  PROVE  \/ blockedOn'[u] = blockedOn[u]
         \/ blockedOn'[u] = Null
         \/ /\ u = exec /\ OSLockMutex /\ Arg \in Mutex /\ owner[Arg] \in Thread \ {exec}
            /\ blockedOn'[u] = Arg
            /\ Continue(<< Call("Promote", owner[Arg]), Call("OSSleepThread", Arg),
                           Call("LockRetry", Arg) >>)
<1>1. /\ blockedOn \in [Thread -> Mutex \cup {Null}] /\ exec \in Thread
      /\ owner \in [Mutex -> Thread \cup {Null}]
  BY DEF IInv, TypeOK
<1>2. CASE OSLockMutex
  <2>1. At({"OSLockMutex"})
    BY <1>2 DEF OSLockMutex
  <2>2. Arg \in Mutex
    BY <2>1, TopFacts, ArgFacts DEF Arg
  <2>3. CASE blockedOn' = blockedOn
    BY <2>3
  <2>4. CASE blockedOn' # blockedOn
    <3>1. /\ owner[Arg] \notin {Null, exec}
          /\ blockedOn' = [blockedOn EXCEPT ![exec] = Arg]
          /\ Continue(<< Call("Promote", owner[Arg]), Call("OSSleepThread", Arg),
                         Call("LockRetry", Arg) >>)
      BY <1>2, <2>4 DEF OSLockMutex
    <3> QED  BY <1>1, <1>2, <2>2, <3>1
  <2> QED  BY <2>3, <2>4
<1>3. CASE LockRetry
  BY <1>1, <1>3 DEF LockRetry
<1>4. CASE OSCreateThread
  BY <1>1, <1>4 DEF OSCreateThread
<1> QED  BY <1>2, <1>3, <1>4, MutexFieldSteps

LEMMA LockFrames ==
  ASSUME IInv, NEW m \in Mutex, NEW u \in Thread, stack[exec] # << >>,
         Continue(<< Call("Promote", u), Call("OSSleepThread", m), Call("LockRetry", m) >>)
  PROVE  /\ ToSet(stack'[exec]) =
              {Call("Promote", u), Call("OSSleepThread", m), Call("LockRetry", m)}
                \cup ToSet(Tail(stack[exec]))
         /\ stack'[exec] # << >> /\ Head(stack'[exec]) = Call("Promote", u)
<1> DEFINE f1 == Call("Promote", u)
           f2 == Call("OSSleepThread", m)
           f3 == Call("LockRetry", m)
<1>1. f1 \in Frame /\ f2 \in Frame /\ f3 \in Frame
  BY FrameFacts, AddressFacts
<1>2. /\ stack \in [Thread -> Seq(Frame)] /\ exec \in Thread
      /\ Tail(stack[exec]) \in Seq(Frame)
  BY ChainNow, BelowTop
<1>3. Continue(<< f1, f2, f3 >>)
  OBVIOUS
<1> HIDE DEF f1, f2, f3
<1>4. << f1, f2, f3 >> \in Seq(Frame) /\ ToSet(<< f1, f2, f3 >>) = {f1, f2, f3}
  BY <1>1 DEF ToSet
<1>5. ToSet(stack'[exec]) = {f1, f2, f3} \cup ToSet(Tail(stack[exec]))
  BY <1>3, <1>4, ContinueSets
<1>6. stack'[exec] = << f1, f2, f3 >> \o Tail(stack[exec])
  BY <1>2, <1>3 DEF Continue
<1>7. stack'[exec] # << >> /\ Head(stack'[exec]) = f1
  <2> DEFINE s == Tail(stack[exec])
             s3 == << f3 >> \o s
             s2 == << f2 >> \o s3
  <2>2. s \in Seq(Frame)
    BY <1>2
  <2>5. stack'[exec] = << f1, f2, f3 >> \o s
    BY <1>6
  <2> HIDE DEF s
  <2>6. << f1, f2, f3 >> \o s = << f1 >> \o (<< f2 >> \o (<< f3 >> \o s))
    BY <1>1, <2>2, OnTopThree
  <2>1. stack'[exec] = << f1 >> \o s2
    BY <2>5, <2>6, Zenon
  <2>3. s3 \in Seq(Frame)
    BY <1>1, <2>2, OnTopFacts
  <2> HIDE DEF s3
  <2>4. s2 \in Seq(Frame)
    BY <1>1, <2>3, OnTopFacts
  <2> HIDE DEF s2
  <2> QED  BY <1>1, <2>1, <2>4, OnTopFacts
<1> QED  BY <1>5, <1>7 DEF f1, f2, f3

LEMMA RetriesLockStep ==
  ASSUME IInv, IInv', RetriesLock, [Next]_vars
  PROVE  RetriesLock'
<1> SUFFICES ASSUME NEW u \in Thread, blockedOn'[u] # Null, ~ Dead(u)'
             PROVE  Has(stack'[u], {"LockRetry"})
  BY DEF RetriesLock
<1>1. exec \in Thread /\ stack[exec] \in Seq(Frame)
  BY ChainNow
<1>2. CASE blockedOn'[u] = blockedOn[u]
  <2>1. ~ Dead(u)
    <3>1. OSCreateThread /\ Arg = u => blockedOn'[u] = Null
      BY DEF OSCreateThread, IInv, TypeOK
    <3> QED  BY <3>1, LivesBefore
  <2>2. PICK f \in ToSet(stack[u]) : f.op = "LockRetry"
    BY <1>2, <2>1, HasSets DEF RetriesLock
  <2>3. CASE u # exec
    <3>1. stack'[u] = stack[u]
      BY <2>3, BelowKept
    <3> QED  BY <2>2, <3>1, HasSets
  <2>4. CASE u = exec
    <3>1. stack[exec] # << >>
      BY <2>2, <2>4 DEF ToSet
    <3>2. ToSet(stack[exec]) = {Head(stack[exec])} \cup ToSet(Tail(stack[exec]))
      BY <1>1, <3>1, ChainSets
    <3>3. CASE f = Head(stack[exec])
      <4>1. At({"LockRetry"})
        BY <2>2, <3>1, <3>3 DEF At
      <4>2. ~ LockRetry
        <5>1. LockRetry => blockedOn' = [blockedOn EXCEPT ![exec] = Null]
          BY DEF LockRetry
        <5>2. blockedOn \in [Thread -> Mutex \cup {Null}]
          BY DEF IInv, TypeOK
        <5> QED  BY <1>1, <2>4, <5>1, <5>2
      <4>3. stack' = stack
        BY <4>1, <4>2, RetryOnly DEF vars, fiberVars
      <4> QED  BY <2>2, <4>3, HasSets
    <3>4. CASE f \in ToSet(Tail(stack[exec]))
      <4>1. f \in ToSet(stack'[exec])
        BY <2>4, <3>1, <3>4, BelowKept
      <4> QED  BY <2>2, <2>4, <4>1, HasSets
    <3> QED  BY <2>2, <2>4, <3>2, <3>3, <3>4
  <2> QED  BY <2>3, <2>4
<1>3. ASSUME u = exec, OSLockMutex, Arg \in Mutex, owner[Arg] \in Thread,
             Continue(<< Call("Promote", owner[Arg]), Call("OSSleepThread", Arg),
                         Call("LockRetry", Arg) >>)
      PROVE  Has(stack'[u], {"LockRetry"})
  <2>1. stack[exec] # << >>
    BY <1>3 DEF OSLockMutex, At
  <2>2. Call("LockRetry", Arg) \in ToSet(stack'[exec])
    BY <1>3, <2>1, LockFrames
  <2>3. Call("LockRetry", Arg).op = "LockRetry"
    BY FramesFacts
  <2>4. \E f \in ToSet(stack'[exec]) : f.op = "LockRetry"
    BY <2>2, <2>3
  <2> QED  BY <1>3, <2>4, HasSets
<1> QED  BY <1>2, <1>3, BlockedSteps

\* Only a lock call that waits has a wait for a mutex to come back from.
LEMMA RetryStays ==
  ASSUME IInv, IInv', [Next]_vars, ~ OSLockMutex, Has(stack'[exec], {"LockRetry"})
  PROVE  Has(stack[exec], {"LockRetry"})
<1>1. /\ stack[exec] \in Seq(Frame) /\ exec \in Thread
      /\ stack'[exec] \in Seq(Frame)
  BY DEF IInv, TypeOK
<1>2. PICK f \in ToSet(stack'[exec]) : f.op = "LockRetry"
  BY HasSets
<1>3. f \in Followed
  BY <1>1, <1>2 DEF Followed, ToSet
<1>4. AddsNo(f) \/ UNCHANGED vars
  BY <1>2, <1>3, FollowedSteps DEF Callbacks, Wakeups
<1>5. CASE UNCHANGED vars
  BY <1>2, <1>5, HasSets DEF vars, fiberVars
<1>6. CASE AddsNo(f)
  <2>1. stack[exec] # << >> /\ f \in ToSet(Tail(stack[exec]))
    BY <1>2, <1>6 DEF AddsNo
  <2>2. f \in ToSet(stack[exec])
    BY <1>1, <2>1, ChainSets
  <2> QED  BY <1>2, <2>2, HasSets
<1> QED  BY <1>4, <1>5, <1>6

LEMMA WaitsForOneStep ==
  ASSUME Disciplined, IInv, IInv', DecidingNext, WaitsForOne, [Next]_vars
  PROVE  WaitsForOne'
<1> SUFFICES ASSUME WaitsElsewhere'
             PROVE  ~ Has(stack'[exec'], {"LockRetry"})
  BY DEF WaitsForOne
<1>1. ~ NobodyDecides'
  <2> SUFFICES ASSUME NobodyDecides'
               PROVE  ~ WaitsElsewhere'
    OBVIOUS
  <2>1. \A q : ~ AboutToSleep(q)'
    BY NobodySleepsNext
  <2>2. ~ At({"OSJoinThread"})'
    <3> SUFFICES ASSUME stack'[exec'] # << >>, Head(stack'[exec']).op = "OSJoinThread"
                 PROVE  FALSE
      BY DEF At
    <3>1. exec' \in Thread /\ stack'[exec'] \in Seq(Frame)
      BY DEF IInv, TypeOK
    <3>2. 1 \in DOMAIN stack'[exec'] /\ stack'[exec'][1] = Head(stack'[exec'])
      BY <3>1
    <3>3. Has(stack'[exec'], Deciding)
      BY <3>2 DEF Has, Deciding
    <3> QED  BY <3>1, <3>3 DEF NobodyDecides
  <2> QED  BY <2>1, <2>2 DEF WaitsElsewhere
<1>2. CASE UNCHANGED vars
  BY <1>2 DEF WaitsForOne, WaitsElsewhere, AboutToSleep, At, vars, fiberVars
<1>3. CASE Promote
  <2>1. /\ exec' = exec /\ stack'[exec] # << >>
        /\ Head(stack'[exec]).op \in {"Promote", "OSSleepThread"}
        /\ \A q : AboutToSleep(q)' => AboutToSleep(q)
    BY <1>3, PromoteDecides
  <2>2. WaitsElsewhere
    BY <2>1 DEF WaitsElsewhere, At
  <2>3. ~ OSLockMutex
    BY <1>3 DEF Promote, OSLockMutex, At
  <2> QED  BY <2>1, <2>2, <2>3, RetryStays DEF WaitsForOne
<1>4. CASE OSLockMutex
  <2>1. /\ exec' = exec /\ Head(stack'[exec]) = Call("Promote", owner[Arg])
        /\ \A q : AboutToSleep(q)' => q = Arg
    BY <1>1, <1>4, LockDecides
  <2>2. Arg \in Mutex
    <3>1. At({"OSLockMutex"})
      BY <1>4 DEF OSLockMutex
    <3> QED  BY <3>1, TopFacts, ArgFacts DEF Arg
  <2>3. ~ At({"OSJoinThread"})'
    BY <2>1, FramesFacts DEF At
  <2> QED  BY <2>1, <2>2, <2>3 DEF WaitsElsewhere
<1>5. CASE OSJoinThread
  <2>1. exec' = exec /\ At({"OSJoinThread"})
    BY <1>5 DEF OSJoinThread
  <2>2. ~ OSLockMutex
    BY <2>1 DEF OSLockMutex, At
  <2> QED  BY <2>1, <2>2, RetryStays DEF WaitsForOne, WaitsElsewhere
<1>6. CASE GuestCall
  <2>1. exec' = exec /\ stack[exec] = << >>
    BY <1>1, <1>6, GuestDecides
  <2>2. ~ OSLockMutex /\ ~ Has(stack[exec], {"LockRetry"})
    BY <2>1, FramesFacts DEF OSLockMutex, At, Has
  <2> QED  BY <2>1, <2>2, RetryStays
<1> QED  BY <1>1, <1>2, <1>3, <1>4, <1>5, <1>6, DecideSteps

-----------------------------------------------------------------------------
(* Waiters.                                                                *)

LEMMA WaiterBefore ==
  ASSUME IInv, IInv', AllWaitersLinked', [Next]_vars, NEW t \in Thread, state'[t] = "waiting"
  PROVE  \/ state[t] = "waiting" /\ links'.at[t] = links.at[t]
         \/ OSSleepThread /\ Arg = links'.at[t] /\ t = exec
<1>1. links'.at[t] \in WaitQueueId
  BY DEF IInv, QueueInv, Placed
<1>2. t \in In(links', links'.at[t])
  BY DEF AllWaitersLinked, Members, In
<1>3. EnterStep
  BY LinksStep DEF LinkStep
<1>4. \/ state[t] = "waiting" /\ links.at[t] = links'.at[t]
      \/ At({"OSSleepThread"}) /\ Arg = links'.at[t] /\ t = exec
  BY <1>1, <1>2, <1>3 DEF EnterStep
<1>5. UNCHANGED vars => state' = state /\ links' = links
  BY DEF vars, threadVars
<1> QED  BY <1>4, <1>5, SleepOnly

\* Whoever goes to sleep runs and is not suspended.
LEMMA SleeperFacts ==
  ASSUME IInv, OSSleepThread
  PROVE  /\ state[exec] = "running" /\ suspend[exec] = 0 /\ exec \in Thread /\ disable = 0
         /\ running = exec /\ Arg \in WaitQueueId /\ AboutToSleep(Arg) /\ ~ Dead(exec)
<1>1. At({"OSSleepThread"})
  BY DEF OSSleepThread
<1>2. state[exec] = "running" /\ suspend[exec] = 0 /\ disable = 0 /\ running = exec
  BY <1>1, BusyTopFacts DEF Quiet, Barrier
<1>3. exec \in Thread /\ Arg \in WaitQueueId
  BY <1>1, TopFacts, ArgFacts DEF Arg
<1> QED  BY <1>1, <1>2, <1>3, SleepsAbout DEF Dead

LEMMA BlockedThereStep ==
  ASSUME IInv, IInv', AllWaitersLinked', SleepsOnOwned, RetriesLock, WaitsForOne,
         BlockedThere, [Next]_vars
  PROVE  BlockedThere'
<1> SUFFICES ASSUME NEW u \in Thread, state'[u] = "waiting", blockedOn'[u] # Null
             PROVE  links'.at[u] = blockedOn'[u]
  BY DEF BlockedThere
<1>1. CASE state[u] = "waiting" /\ links'.at[u] = links.at[u]
  <2>1. ~ (u = exec /\ OSLockMutex)
    <3>1. OSLockMutex => At({"OSLockMutex"})
      BY DEF OSLockMutex
    <3>2. OSLockMutex => state[exec] = "running"
      BY <3>1, BusyTopFacts DEF Quiet, Barrier
    <3> QED  BY <1>1, <3>2
  <2>2. blockedOn'[u] = blockedOn[u]
    BY <2>1, BlockedSteps
  <2> QED  BY <1>1, <2>2 DEF BlockedThere
<1>2. CASE OSSleepThread /\ Arg = links'.at[u] /\ u = exec
  <2>1. blockedOn'[u] = blockedOn[u]
    BY <1>2 DEF OSSleepThread, mutexVars
  <2>2. AboutToSleep(Arg) /\ Arg \in WaitQueueId /\ ~ Dead(exec)
    BY <1>2, SleeperFacts
  <2>3. Has(stack[exec], {"LockRetry"})
    BY <1>2, <2>1, <2>2 DEF RetriesLock
  <2>4. Arg \in Mutex
    BY <2>2, <2>3 DEF WaitsForOne, WaitsElsewhere
  <2> QED  BY <1>2, <2>1, <2>2, <2>4 DEF SleepsOnOwned
<1> QED  BY <1>1, <1>2, WaiterBefore

LEMMA SuspendedLastStep ==
  ASSUME IInv, IInv', AllWaitersLinked', SuspendedLast, [Next]_vars
  PROVE  SuspendedLast'
<1> SUFFICES ASSUME NEW t \in Thread, state'[t] = "waiting", suspend'[t] > 0
             PROVE  prio'[t] = SuspendedWaitPriority
  BY DEF SuspendedLast
<1>1. /\ suspend \in [Thread -> Nat] /\ exec \in Thread
      /\ state \in [Thread -> {"none", "ready", "running", "waiting", "moribund"}]
      /\ prio \in [Thread -> Priority \cup {SuspendedWaitPriority}]
  BY DEF IInv, TypeOK
<1>2. ASSUME state[t] = "waiting", suspend'[t] = suspend[t], prio'[t] = prio[t]
      PROVE  prio'[t] = SuspendedWaitPriority
  BY <1>2 DEF SuspendedLast
<1>3. CASE prio' = prio /\ suspend' = suspend
  <2>1. ~ (OSSleepThread /\ t = exec)
    BY <1>3, SleeperFacts
  <2> QED  BY <1>2, <1>3, <2>1, WaiterBefore
<1>4. CASE Promote \/ Propagate
  <2>1. At({"Promote", "Propagate"}) /\ state' = state /\ suspend' = suspend
    BY <1>4 DEF Promote, Propagate, At
  <2>2. Arg \in Thread \cup {Null}
    BY <2>1, TopFacts, ArgFacts DEF Arg
  <2>3. \/ prio' = prio
        \/ Arg # Null /\ ~ (suspend[Arg] > 0) /\ \E p : SetPriority(Arg, p)
    BY <1>4 DEF Promote, Propagate
  <2>4. prio'[t] = prio[t]
    BY <2>1, <2>2, <2>3, SetPriorityOnly
  <2> QED  BY <1>2, <2>1, <2>4
<1>5. CASE OSUnlockMutex
  <2>1. At({"OSUnlockMutex"}) /\ state' = state /\ suspend' = suspend
    BY <1>5 DEF OSUnlockMutex
  <2>2. state[exec] = "running"
    BY <2>1, BusyTopFacts DEF Quiet, Barrier
  <2>3. prio' = prio \/ \E p : prio' = [prio EXCEPT ![exec] = p]
    BY <1>5 DEF OSUnlockMutex
  <2>4. prio'[t] = prio[t]
    BY <1>1, <2>1, <2>2, <2>3
  <2> QED  BY <1>2, <2>1, <2>4
<1>6. CASE OSCreateThread
  <2>1. /\ state' = [state EXCEPT ![Arg] = "ready"] /\ suspend' = [suspend EXCEPT ![Arg] = 1]
        /\ prio' = [prio EXCEPT ![Arg] = BasePriority[Arg]]
    BY <1>6 DEF OSCreateThread
  <2>2. t # Arg
    BY <1>1, <2>1
  <2> QED  BY <1>1, <1>2, <2>1, <2>2
<1>7. CASE OSSuspendThread
  <2>1. At({"OSSuspendThread"})
    BY <1>7 DEF OSSuspendThread
  <2>2. Arg \in Thread
    BY <2>1, TopFacts, ArgFacts DEF Arg, ThreadCall
  <2>3. /\ suspend' = [suspend EXCEPT ![Arg] = @ + 1]
        /\ state' = state \/ state' = [state EXCEPT ![Arg] = "ready"]
        /\ IF suspend[Arg] = 0 /\ state[Arg] = "waiting"
           THEN prio' = [prio EXCEPT ![Arg] = SuspendedWaitPriority] ELSE prio' = prio
    BY <1>7 DEF OSSuspendThread
  <2>4. state[t] = "waiting"
    BY <1>1, <2>2, <2>3
  <2>5. CASE t # Arg
    BY <1>1, <1>2, <2>3, <2>4, <2>5
  <2>6. CASE t = Arg /\ suspend[t] = 0
    BY <1>1, <2>3, <2>4, <2>6
  <2>7. CASE t = Arg /\ suspend[t] # 0
    <3>1. suspend[t] > 0 /\ prio'[t] = prio[t]
      BY <1>1, <2>3, <2>7
    <3> QED  BY <2>4, <3>1 DEF SuspendedLast
  <2> QED  BY <2>5, <2>6, <2>7
<1>8. CASE OSResumeThread
  <2>1. At({"OSResumeThread"})
    BY <1>8 DEF OSResumeThread
  <2>2. Arg \in Thread
    BY <2>1, TopFacts, ArgFacts DEF Arg, ThreadCall
  <2>3. /\ suspend' = [suspend EXCEPT ![Arg] = Resumed(@)]
        /\ state' = state \/ state' = [state EXCEPT ![Arg] = "ready"]
        /\ prio' = prio \/ (suspend[Arg] = 1 /\ \E p : prio' = [prio EXCEPT ![Arg] = p])
    BY <1>8 DEF OSResumeThread
  <2>4. state[t] = "waiting"
    BY <1>1, <2>2, <2>3
  <2>5. CASE t # Arg
    BY <1>1, <1>2, <2>3, <2>4, <2>5
  <2>6. CASE t = Arg
    <3>1. suspend'[t] = Resumed(suspend[t]) /\ suspend[t] \in Nat
      BY <1>1, <2>3, <2>6
    <3>2. suspend[t] > 1
      BY <3>1 DEF Resumed
    <3>3. prio'[t] = prio[t]
      BY <1>1, <2>3, <2>6, <3>2
    <3> QED  BY <2>4, <3>1, <3>2, <3>3 DEF SuspendedLast
  <2> QED  BY <2>5, <2>6
<1> QED  BY <1>3, <1>4, <1>5, <1>6, <1>7, <1>8, PrioritySteps

\* Dispatch takes a thread of the highest priority that is ready.
LEMMA DispatchHead ==
  ASSUME IInv, Dispatch
  PROVE  \E p \in Priority, t \in Thread :
           /\ p \in links.pending /\ \A r \in links.pending : p <= r
           /\ OnRunQueue(t) /\ ~ Dead(t) /\ prio[t] = p
           /\ links' = ClearPointer(UpdatePending(PopHead(links, p), p), t)
           /\ state' = [state EXCEPT ![t] = "running"]
           /\ exec' = t /\ running' = t /\ resched' = FALSE
           /\ prio' = prio /\ suspend' = suspend
           /\ stack' = [stack EXCEPT ![exec] = IF Dead(exec) THEN << >> ELSE Tail(@)]
<1> DEFINE p == CHOOSE q \in links.pending : \A r \in links.pending : q <= r
           t == Head(links.queue[p])
<1>1. At({"Dispatch"}) /\ links.pending # {}
  BY DEF Dispatch, IInv, ControlInv, DispatchNext
<1>2. WellFormed(links, QueueId, Thread)
  BY LinkedFacts
<1>3. p \in Priority /\ p \in links.pending /\ \A r \in links.pending : p <= r
  <2>1. links.pending \in SUBSET Nat /\ links.pending \subseteq Priority
    BY <1>2, PriorityFacts DEF WellFormed
  <2>2. \E x \in links.pending : \A y \in links.pending : x <= y
    BY <1>1, <2>1, LeastElement
  <2> QED  BY <2>1, <2>2
<1>4. links.queue[p] # << >>
  BY <1>2, <1>3 DEF WellFormed
<1> HIDE DEF p
<1>5. p \in QueueId
  BY <1>3, AddressFacts
<1>6. t \in Thread /\ t \in In(links, p)
  <2>1. links.queue[p] \in Seq(Thread)
    BY <1>5, LinkedFacts
  <2> QED  BY <1>4, <2>1, HeadInToSet DEF In
<1> HIDE DEF t
<1>7. OnRunQueue(t) /\ links.at[t] = p /\ prio[t] = p
  BY <1>3, <1>5, <1>6, LinkedFacts
<1>8. ~ Dead(t)
  BY <1>7 DEF OnRunQueue, Dead
<1>9. /\ links' = ClearPointer(UpdatePending(PopHead(links, p), p), t)
      /\ state' = [state EXCEPT ![t] = "running"]
      /\ exec' = t /\ running' = t /\ resched' = FALSE
      /\ prio' = prio /\ suspend' = suspend
      /\ stack' = [stack EXCEPT ![exec] = IF Dead(exec) THEN << >> ELSE Tail(@)]
  BY <1>1, <1>4, <1>8 DEF Dispatch, p, t
<1> QED  BY <1>3, <1>6, <1>7, <1>8, <1>9

\* A wait ends only by a wakeup or by a cancellation.
LEMMA WaitEnds ==
  ASSUME IInv, [Next]_vars, NEW t \in Thread, state[t] = "waiting", state'[t] # "waiting"
  PROVE  \/ /\ OSWakeupThread /\ Arg \in WaitQueueId /\ links.queue[Arg] # << >>
            /\ t = Head(links.queue[Arg])
         \/ OSCancelThread /\ Arg = t
<1>1. /\ state \in [Thread -> {"none", "ready", "running", "waiting", "moribund"}]
      /\ exec \in Thread
  BY DEF IInv, TypeOK
<1>2. ASSUME NEW x, state[x] # "waiting", NEW s, state' = [state EXCEPT ![x] = s]
      PROVE  FALSE
  BY <1>1, <1>2
<1>3. state' # state
  OBVIOUS
<1>4. CASE OSSleepThread
  <2>1. state[exec] = "running" /\ running = exec /\ exec # Null
    BY <1>1, <1>4, SleeperFacts, AddressFacts
  <2> QED  BY <1>2, <1>3, <1>4, <2>1 DEF OSSleepThread
<1>5. CASE SleepReturn
  <2>1. At({"SleepReturn"})
    BY <1>5 DEF SleepReturn
  <2>2. state[exec] = "running"
    BY <2>1, BusyTopFacts DEF Quiet, Barrier
  <2> QED  BY <1>3, <1>5, <2>2 DEF SleepReturn
<1>6. CASE OSSleepTicks \/ ParkReturn \/ SleepTimerDue \/ Reconcile
  BY <1>2, <1>3, <1>6 DEF OSSleepTicks, ParkReturn, SleepTimerDue, Reconcile, threadVars
<1>7. CASE SelectThread \/ SelectReturns \/ SelectLeaves \/ Reschedule \/ IdleTimers
           \/ LeaveIdleLoop \/ WakeupDone
  BY <1>2, <1>3, <1>7
  DEF SelectThread, SelectReturns, SelectLeaves, Reschedule, IdleTimers, LeaveIdleLoop,
      WakeupDone, threadVars
<1>8. CASE Dispatch
  BY <1>2, <1>8, DispatchHead DEF OnRunQueue
<1>9. CASE OSWakeupThread
  <2>1. /\ At({"OSWakeupThread", "WakeupLinked"}) /\ links.queue[Arg] # << >>
        /\ \/ state' = state
           \/ state' = [state EXCEPT ![Head(links.queue[Arg])] = "ready"]
    BY <1>9 DEF OSWakeupThread
  <2>2. Arg \in WaitQueueId
    BY <2>1, TopFacts, ArgFacts DEF Arg
  <2> QED  BY <1>1, <1>3, <1>9, <2>1, <2>2
<1>10. CASE MutexStep \/ CallbackStep \/ GuestCall \/ UNCHANGED vars
  BY <1>3, <1>10
  DEF MutexStep, Promote, Propagate, OSLockMutex, LockRetry, OSUnlockMutex, UnlockAll,
      CallbackStep, IdleCallback, IdleCallbackReturns, BeginCallback, EndCallback,
      GuestCall, vars, threadVars
<1>11. CASE OSCreateThread
  <2>1. At({"OSCreateThread"}) /\ state' = [state EXCEPT ![Arg] = "ready"]
    BY <1>11 DEF OSCreateThread
  <2>2. Dead(Arg)
    BY <2>1 DEF IInv, ControlInv, CreateNext
  <2> QED  BY <1>2, <2>1, <2>2 DEF Dead
<1>12. CASE OSSuspendThread \/ OSResumeThread \/ ExitReschedule
  <2>1. state' = state \/ (state[Arg] # "waiting" /\ state' = [state EXCEPT ![Arg] = "ready"])
    BY <1>12 DEF OSSuspendThread, OSResumeThread, ExitReschedule, threadVars
  <2> QED  BY <1>2, <1>3, <2>1
<1>13. CASE OSJoinThread \/ JoinReturn \/ OSDetachThread
  <2>1. state' = state \/ (state[Arg] # "waiting" /\ state' = [state EXCEPT ![Arg] = "none"])
    BY <1>13 DEF OSJoinThread, JoinReturn, OSDetachThread, Reap
  <2> QED  BY <1>2, <1>3, <2>1
<1>14. CASE OSExitThread \/ OSCancelThread
  <2>1. PICK x \in Thread :
          /\ (OSExitThread /\ x = exec) \/ (OSCancelThread /\ x = Arg)
          /\ \E s : state' = [state EXCEPT ![x] = s]
    BY <1>3, <1>14, EndingStep DEF Terminate
  <2>2. CASE OSExitThread /\ x = exec
    <3>1. At({"OSExitThread"})
      BY <2>2 DEF OSExitThread
    <3>2. state[exec] = "running"
      BY <3>1, BusyTopFacts DEF Quiet, Barrier
    <3> QED  BY <1>2, <2>1, <2>2, <3>2
  <2>3. CASE OSCancelThread /\ x = Arg
    BY <1>1, <2>1, <2>3
  <2> QED  BY <2>1, <2>2, <2>3
<1> QED
  BY <1>4, <1>5, <1>6, <1>7, <1>8, <1>9, <1>10, <1>11, <1>12, <1>13, <1>14, NobodyReturns
  DEF Next, HleStep, SleepStep, SchedulerStep, LifeStep

-----------------------------------------------------------------------------
(* Who waits for a mutex, or is about to.                                  *)

Waiter(t, m) == t \in Members(m) \/ (t = exec /\ AboutToSleep(m))

LEMMA MemberStays ==
  ASSUME IInv, IInv', AllWaitersLinked', WakesNext, CancelsNoLockWaiter, [Next]_vars,
         NEW m \in Mutex, owner[m] # Null, NEW t \in Thread, t \in Members(m)
  PROVE  t \in Members(m)'
<1>1. m \in WaitQueueId /\ m \in QueueId
  BY AddressFacts
<1>2. links.at[t] = m /\ state[t] = "waiting"
  BY <1>1, LinkedFacts DEF Members, In
<1>3. state'[t] = "waiting"
  <2> SUFFICES ASSUME state'[t] # "waiting"
               PROVE  FALSE
    OBVIOUS
  <2>1. CASE /\ OSWakeupThread /\ Arg \in WaitQueueId /\ links.queue[Arg] # << >>
             /\ t = Head(links.queue[Arg])
    <3>1. Arg \in QueueId /\ links.queue[Arg] \in Seq(Thread)
      BY <2>1, AddressFacts, LinkedFacts
    <3>2. t \in In(links, Arg)
      BY <2>1, <3>1, HeadInToSet DEF In
    <3>3. Arg = m
      BY <1>2, <3>1, <3>2, LinkedFacts
    <3>4. Waking(m)
      BY <2>1, <3>3 DEF OSWakeupThread, Waking
    <3> QED  BY <3>4 DEF WakesNext
  <2>2. CASE OSCancelThread /\ Arg = t
    <3>1. At({"OSCancelThread"})
      BY <2>2 DEF OSCancelThread
    <3> QED  BY <1>2, <2>2, <3>1 DEF CancelsNoLockWaiter
  <2> QED  BY <1>2, <2>1, <2>2, WaitEnds
<1>4. links'.at[t] = m
  <2>1. ~ (OSSleepThread /\ t = exec)
    BY <1>2, SleeperFacts
  <2> QED  BY <1>2, <1>3, <2>1, WaiterBefore
<1> QED  BY <1>3, <1>4 DEF AllWaitersLinked

\* Where the frame of a sleep that has been decided is.
LEMMA SleeperTop ==
  ASSUME IInv, DecidingNext, NEW q, AboutToSleep(q)
  PROVE  \/ At({"OSSleepThread"}) /\ Arg = q
         \/ At({"Promote"}) /\ Call("OSSleepThread", q) \in ToSet(Tail(stack[exec]))
<1> DEFINE f == Call("OSSleepThread", q)
<1>1. f.op = "OSSleepThread" /\ f.arg = q
  BY FramesFacts
<1> HIDE DEF f
<1>2. stack[exec] \in Seq(Frame)
  BY ChainNow
<1>3. f \in ToSet(stack[exec])
  BY DEF AboutToSleep, f
<1>4. stack[exec] # << >>
  BY <1>3 DEF ToSet
<1>5. f = Head(stack[exec]) \/ f \in ToSet(Tail(stack[exec]))
  BY <1>2, <1>3, <1>4, ChainSets
<1>6. CASE At({"Promote"})
  BY <1>1, <1>4, <1>5, <1>6 DEF At, f
<1>7. CASE ~ At({"Promote"})
  <2>1. ~ Has(Tail(stack[exec]), Deciding)
    BY <1>4, <1>7 DEF DecidingNext
  <2>2. f \notin ToSet(Tail(stack[exec]))
    BY <1>1, <2>1 DEF Has, ToSet, Deciding
  <2> QED  BY <1>1, <1>4, <1>5, <2>2 DEF At, Arg
<1> QED  BY <1>6, <1>7

LEMMA SleeperGoesOn ==
  ASSUME IInv, IInv', AllWaitersLinked', DecidingNext, [Next]_vars,
         NEW m \in Mutex, AboutToSleep(m), NEW t \in Thread, t = exec
  PROVE  Waiter(t, m)' /\ prio'[t] = prio[t]
<1> DEFINE f == Call("OSSleepThread", m)
<1>1. exec \in Thread /\ prio \in [Thread -> Nat]
  BY ChainNow, LinkedFacts
<1>2. CASE UNCHANGED vars
  BY <1>2 DEF Waiter, AboutToSleep, vars, threadVars, fiberVars
<1>3. CASE At({"OSSleepThread"}) /\ Arg = m /\ OSSleepThread
  <2>1. /\ running = exec /\ disable = 0 /\ exec # Null /\ Arg \in WaitQueueId
    BY <1>1, <1>3, SleeperFacts, AddressFacts
  <2>2. /\ state' = [state EXCEPT ![exec] = "waiting"] /\ prio' = prio
        /\ links' = InsertByPriority(links, m, exec, prio[exec], prio)
    BY <1>3, <2>1 DEF OSSleepThread
  <2>3. state'[exec] = "waiting"
    BY <1>1, <2>2 DEF IInv, TypeOK
  <2>4. links'.at[exec] = m
    <3>1. links.at \in [Thread -> QueueId \cup {Null}]
      BY LinkedFacts
    <3>2. links'.at = [links.at EXCEPT ![exec] = m]
      BY <2>2 DEF InsertByPriority
    <3> QED  BY <1>1, <3>1, <3>2
  <2>5. t \in Members(m)'
    BY <1>1, <2>3, <2>4 DEF AllWaitersLinked
  <2> QED  BY <2>2, <2>5 DEF Waiter
<1>4. CASE At({"Promote"}) /\ f \in ToSet(Tail(stack[exec])) /\ Promote
  <2>1. stack[exec] # << >> /\ exec' = exec /\ state' = state
    BY <1>4 DEF Promote, At
  <2>2. state[exec] = "running"
    BY <1>4, BusyTopFacts DEF Quiet, Barrier
  <2>3. ~ Dead(exec)'
    BY <2>1, <2>2 DEF Dead
  <2>4. f \in ToSet(stack'[exec])
    <3>1. \A u \in Thread : u = exec => ~ Dead(u)'
      BY <2>1, <2>2 DEF Dead
    <3> QED  BY <1>1, <1>4, <2>1, <3>1, BelowKept
  <2>5. prio'[exec] = prio[exec]
    <3>1. Arg \in Thread \cup {Null}
      BY <1>4, TopFacts, ArgFacts DEF Arg
    <3>2. CASE Arg = Null \/ suspend[Arg] > 0 \/ prio[Arg] <= prio[exec]
      BY <1>4, <3>2 DEF Promote
    <3>3. CASE ~ (Arg = Null \/ suspend[Arg] > 0 \/ prio[Arg] <= prio[exec])
      <4>1. SetPriority(Arg, prio[exec]) /\ Arg \in Thread
        BY <1>4, <3>1, <3>3 DEF Promote
      <4>2. Arg # exec
        BY <1>1, <3>3
      <4> QED  BY <1>1, <4>1, <4>2, SetPriorityOnly
    <3> QED  BY <3>2, <3>3
  <2> QED  BY <2>1, <2>4, <2>5 DEF Waiter, AboutToSleep
<1> QED  BY <1>2, <1>3, <1>4, SleeperTop, SleepOnly, PromoteOnly

LEMMA WaiterStays ==
  ASSUME IInv, IInv', AllWaitersLinked', DecidingNext, WakesNext, CancelsNoLockWaiter,
         [Next]_vars, NEW m \in Mutex, owner[m] # Null, NEW t \in Thread, Waiter(t, m)
  PROVE  Waiter(t, m)'
<1>1. CASE t \in Members(m)
  BY <1>1, MemberStays DEF Waiter
<1>2. CASE t = exec /\ AboutToSleep(m)
  BY <1>2, SleeperGoesOn
<1> QED  BY <1>1, <1>2 DEF Waiter

\* A mutex that is owned keeps its owner until the owner unlocks it.
LEMMA OwnerKept ==
  ASSUME IInv, RitesNext, [Next]_vars, NEW m \in Mutex, owner[m] # Null
  PROVE  \/ owner'[m] = owner[m]
         \/ /\ OSUnlockMutex /\ Arg = m /\ LastUnlock(m) /\ owner[m] = exec
            /\ owner' = [owner EXCEPT ![m] = Null]
<1>1. owner \in [Mutex -> Thread \cup {Null}]
  BY DEF IInv, TypeOK
<1>2. CASE OSLockMutex
  BY <1>1, <1>2 DEF OSLockMutex
<1>3. CASE OSUnlockMutex
  <2>1. At({"OSUnlockMutex"})
    BY <1>3 DEF OSUnlockMutex
  <2>2. running = exec
    BY <2>1, BusyTopFacts DEF Quiet, Barrier
  <2> QED  BY <1>1, <1>3, <2>2 DEF OSUnlockMutex
<1>4. CASE UnlockAll
  BY <1>4 DEF UnlockAll, RitesNext
<1> QED  BY <1>2, <1>3, <1>4, MutexFieldSteps

LEMMA PropagateOnly ==
  ASSUME IInv, [Next]_vars, At({"Propagate"})
  PROVE  Propagate \/ UNCHANGED vars
<1>1. ~ SleepStep
  BY DEF SleepStep, OSSleepThread, SleepReturn, OSSleepTicks, ParkReturn, SleepTimerDue,
         Reconcile, At
<1>2. ~ SchedulerStep
  BY DEF SchedulerStep, SelectThread, SelectReturns, SelectLeaves, Dispatch, Reschedule,
         IdleTimers, LeaveIdleLoop, OSWakeupThread, WakeupDone, Idling, At
<1>3. MutexStep => Propagate
  BY DEF MutexStep, Promote, LockRetry, OSLockMutex, OSUnlockMutex, UnlockAll, At
<1>4. ~ LifeStep
  BY NobodyReturns
  DEF LifeStep, OSCreateThread, OSSuspendThread, OSResumeThread, OSExitThread,
      ExitReschedule, OSCancelThread, OSJoinThread, JoinReturn, OSDetachThread, At
<1>5. ~ CallbackStep /\ ~ GuestCall
  BY DEF CallbackStep, IdleCallback, IdleCallbackReturns, BeginCallback, EndCallback,
         GuestCall, InGuestCode, InCallback, Idling, At
<1> QED  BY <1>1, <1>2, <1>3, <1>4, <1>5 DEF Next, HleStep

\* The walk along the owners comes to u next.
WalksTo(u) == At({"Propagate"}) /\ Arg = u

LEMMA WalksNext ==
  ASSUME IInv, stack[exec] # << >>, NEW u \in Thread, exec' = exec,
         \/ Continue(<< Call("Propagate", u) >>)
         \/ Continue(<< Call("Propagate", u), Call("Reschedule", Null) >>)
  PROVE  WalksTo(u)'
<1>1. Call("Propagate", u) \in Frame /\ Call("Reschedule", Null) \in Frame
  BY FrameFacts
<1>2. stack'[exec'] # << >> /\ Head(stack'[exec']) = Call("Propagate", u)
  BY <1>1, NextFrame
<1> QED  BY <1>2, FramesFacts DEF WalksTo, At, Arg

\* When a waiter becomes less urgent, the walk begins with the owner.
LEMMA WaiterRaised ==
  ASSUME IInv, IInv', AllWaitersLinked', DecidingNext, LockWaiters, [Next]_vars,
         NEW m \in Mutex, NEW u \in Thread, owner[m] = u, NEW t \in Thread, Waiter(t, m)
  PROVE  prio'[t] <= prio[t] \/ WalksTo(u)'
<1>1. /\ suspend \in [Thread -> Nat] /\ exec \in Thread
      /\ state \in [Thread -> {"none", "ready", "running", "waiting", "moribund"}]
  BY DEF IInv, TypeOK
<1>2. prio \in [Thread -> Nat]
  BY LinkedFacts
<1>3. CASE t = exec /\ AboutToSleep(m)
  <2>1. prio'[t] = prio[t]
    BY <1>3, SleeperGoesOn
  <2> QED  BY <1>2, <2>1
<1>4. SUFFICES ASSUME t \in Members(m)
               PROVE  prio'[t] <= prio[t] \/ WalksTo(u)'
  BY <1>3, <1>4 DEF Waiter
<1>5. state[t] = "waiting" /\ blockedOn[t] = m /\ OwnerOf(blockedOn[t]) = u
  <2>1. state[t] = "waiting"
    BY <1>4, AddressFacts, LinkedFacts DEF Members, In
  <2>2. blockedOn[t] = m /\ m # Null
    BY <1>4, AddressFacts DEF LockWaiters
  <2> QED  BY <2>1, <2>2 DEF OwnerOf
<1>6. prio'[t] = prio[t] => prio'[t] <= prio[t]
  BY <1>2
<1>7. CASE Promote
  <2>1. At({"Promote"})
    BY <1>7 DEF Promote
  <2>2. Arg \in Thread \cup {Null}
    BY <2>1, TopFacts, ArgFacts DEF Arg
  <2>3. CASE Arg = Null \/ suspend[Arg] > 0 \/ prio[Arg] <= prio[exec]
    BY <1>6, <1>7, <2>3 DEF Promote
  <2>4. CASE ~ (Arg = Null \/ suspend[Arg] > 0 \/ prio[Arg] <= prio[exec])
    <3>1. SetPriority(Arg, prio[exec]) /\ Arg \in Thread
      BY <1>7, <2>2, <2>4 DEF Promote
    <3>2. CASE t # Arg
      BY <1>6, <3>1, <3>2, SetPriorityOnly
    <3>3. CASE t = Arg
      <4>1. prio'[t] = prio[exec]
        BY <1>5, <3>1, <3>3, SetPriorityOnly DEF Dead
      <4> QED  BY <1>1, <1>2, <2>4, <3>3, <4>1
    <3> QED  BY <3>2, <3>3
  <2> QED  BY <2>3, <2>4
<1>8. CASE Propagate
  <2>1. At({"Propagate"}) /\ exec' = exec /\ stack[exec] # << >>
    BY <1>8 DEF Propagate, At
  <2>2. Arg \in Thread \cup {Null}
    BY <2>1, TopFacts, ArgFacts DEF Arg
  <2>3. CASE Arg = Null \/ suspend[Arg] > 0 \/ prio[Arg] = EffectivePriority(Arg)
    BY <1>6, <1>8, <2>3 DEF Propagate
  <2>4. CASE ~ (Arg = Null \/ suspend[Arg] > 0 \/ prio[Arg] = EffectivePriority(Arg))
    <3>1. /\ SetPriority(Arg, EffectivePriority(Arg)) /\ Arg \in Thread
          /\ Continue(<< Call("Propagate", NextInChain(Arg)) >>)
      BY <1>8, <2>2, <2>4 DEF Propagate
    <3>2. CASE t # Arg
      BY <1>6, <3>1, <3>2, SetPriorityOnly
    <3>3. CASE t = Arg
      <4>1. NextInChain(Arg) = u
        BY <1>5, <3>3 DEF NextInChain
      <4> QED  BY <2>1, <3>1, <4>1, WalksNext
    <3> QED  BY <3>2, <3>3
  <2> QED  BY <2>3, <2>4
<1>9. CASE OSUnlockMutex
  <2>1. At({"OSUnlockMutex"})
    BY <1>9 DEF OSUnlockMutex
  <2>2. state[exec] = "running"
    BY <2>1, BusyTopFacts DEF Quiet, Barrier
  <2>3. prio' = prio \/ \E p : prio' = [prio EXCEPT ![exec] = p]
    BY <1>9 DEF OSUnlockMutex
  <2> QED  BY <1>2, <1>5, <1>6, <2>2, <2>3
<1>10. CASE OSCreateThread
  <2>1. At({"OSCreateThread"}) /\ prio' = [prio EXCEPT ![Arg] = BasePriority[Arg]]
    BY <1>10 DEF OSCreateThread
  <2>2. Dead(Arg)
    BY <2>1 DEF IInv, ControlInv, CreateNext
  <2> QED  BY <1>2, <1>5, <1>6, <2>1, <2>2 DEF Dead
<1>11. CASE OSSuspendThread
  <2>1. At({"OSSuspendThread"}) /\ exec' = exec /\ stack[exec] # << >>
    BY <1>11 DEF OSSuspendThread, At
  <2>2. CASE t = Arg /\ suspend[t] = 0
    <3>1. Continue(<< Call("Propagate", OwnerOf(blockedOn[Arg])), Call("Reschedule", Null) >>)
      BY <1>5, <1>11, <2>2 DEF OSSuspendThread
    <3> QED  BY <1>5, <2>1, <2>2, <3>1, WalksNext
  <2>3. CASE ~ (t = Arg /\ suspend[t] = 0)
    <3>1. prio' = prio \/ (suspend[Arg] = 0 /\ \E p : prio' = [prio EXCEPT ![Arg] = p])
      BY <1>11 DEF OSSuspendThread
    <3> QED  BY <1>2, <1>6, <2>3, <3>1
  <2> QED  BY <2>2, <2>3
<1>12. CASE OSResumeThread
  <2>1. At({"OSResumeThread"}) /\ exec' = exec /\ stack[exec] # << >>
    BY <1>12 DEF OSResumeThread, At
  <2>2. CASE t = Arg /\ suspend[t] = 1
    <3>1. Continue(<< Call("Propagate", OwnerOf(blockedOn[Arg])), Call("Reschedule", Null) >>)
      BY <1>5, <1>12, <2>2 DEF OSResumeThread
    <3> QED  BY <1>5, <2>1, <2>2, <3>1, WalksNext
  <2>3. CASE ~ (t = Arg /\ suspend[t] = 1)
    <3>1. prio' = prio \/ (suspend[Arg] = 1 /\ \E p : prio' = [prio EXCEPT ![Arg] = p])
      BY <1>12 DEF OSResumeThread
    <3> QED  BY <1>2, <1>6, <2>3, <3>1
  <2> QED  BY <2>2, <2>3
<1> QED  BY <1>6, <1>7, <1>8, <1>9, <1>10, <1>11, <1>12, PrioritySteps

\* A priority that is lent stays so, as long as the mutex stays owned and no walk
\* comes to the owner.
LEMMA LentStays ==
  ASSUME IInv, IInv', AllWaitersLinked', DecidingNext, LockWaiters, WakesNext,
         CancelsNoLockWaiter, [Next]_vars,
         NEW m \in Mutex, NEW u \in Thread, owner[m] = u, owner'[m] = u,
         NEW t \in Thread, Waiter(t, m), NEW p \in Nat, prio[t] <= p
  PROVE  Lent(u, p)' \/ WalksTo(u)'
<1>1. owner[m] # Null
  BY AddressFacts
<1>2. Waiter(t, m)'
  BY <1>1, WaiterStays
<1>3. prio[t] \in Nat /\ prio'[t] \in Nat
  <2>1. prio \in [Thread -> Nat]
    BY LinkedFacts
  <2>2. prio'[t] \in Priority \cup {SuspendedWaitPriority}
    BY DEF IInv, TypeOK
  <2> QED  BY <2>1, <2>2, PriorityFacts
<1>4. CASE prio'[t] <= prio[t]
  <2>1. prio'[t] <= p
    BY <1>3, <1>4
  <2> QED  BY <1>2, <2>1 DEF Lent, Waiter
<1> QED  BY <1>4, WaiterRaised

\* The priority a thread has by its mutexes is its own or that of a waiter.
LEMMA OwnOrLent ==
  ASSUME IInv, NEW x \in Thread, NEW mutexes \in Seq(Mutex)
  PROVE  /\ InheritedPriority(x, mutexes) \in Nat
         /\ InheritedPriority(x, mutexes) <= BasePriority[x]
         /\ \/ InheritedPriority(x, mutexes) = BasePriority[x]
            \/ \E m \in Mutex, t \in Thread :
                 /\ m \in ToSet(mutexes) /\ links.queue[m] # << >>
                 /\ t = Head(links.queue[m]) /\ t \in Members(m)
                 /\ InheritedPriority(x, mutexes) = prio[t]
<1> DEFINE contended == {n \in ToSet(mutexes) : links.queue[n] # << >>}
           lent == {prio[Head(links.queue[n])] : n \in contended}
           C == {BasePriority[x]} \cup lent
           p == CHOOSE y \in C : \A q \in C : y <= q
<1>1. BasePriority[x] \in Nat /\ prio \in [Thread -> Nat]
  BY ConstantTypes, PriorityFacts, LinkedFacts DEF ConstantTypes
<1>2. \A n \in contended :
        /\ n \in Mutex /\ n \in ToSet(mutexes) /\ links.queue[n] # << >>
        /\ Head(links.queue[n]) \in Thread /\ Head(links.queue[n]) \in Members(n)
  <2>1. \A n \in ToSet(mutexes) : n \in Mutex
    BY DEF ToSet
  <2>2. \A n \in Mutex : links.queue[n] \in Seq(Thread)
    BY AddressFacts, LinkedFacts
  <2> QED  BY <2>1, <2>2, HeadInToSet DEF Members
<1>3. C \in SUBSET Nat /\ C # {}
  BY <1>1, <1>2
<1>4. \E y \in C : \A q \in C : y <= q
  BY <1>3, LeastElement
<1>5. p \in C /\ \A q \in C : p <= q
  BY <1>4
<1>6. p = InheritedPriority(x, mutexes)
  BY DEF InheritedPriority
<1> HIDE DEF p
<1>7. p \in Nat /\ p <= BasePriority[x]
  BY <1>3, <1>5
<1>8. p = BasePriority[x] \/ \E n \in contended : p = prio[Head(links.queue[n])]
  BY <1>5
<1> QED  BY <1>2, <1>6, <1>7, <1>8

LEMMA LentJustifies ==
  ASSUME NEW u, NEW p, prio'[u] = p, Lent(u, p)' \/ WalksTo(u)'
  PROVE  Justified(u)'
  BY DEF Justified, Lent, WalksTo

LEMMA JustifiedStays ==
  ASSUME IInv, IInv', AllWaitersLinked', DecidingNext, LockWaiters, WakesNext,
         CancelsNoLockWaiter, [Next]_vars,
         NEW u \in Thread, Justified(u), ~ WalksTo(u), prio'[u] = prio[u],
         \A m \in Mutex : owner[m] = u => owner'[m] = u
  PROVE  Justified(u)'
<1>1. PICK p \in Nat : p = prio[u]
  BY LinkedFacts
<1>2. CASE BasePriority[u] <= prio[u]
  BY <1>2 DEF Justified
<1>3. CASE Lent(u, prio[u])
  <2>1. PICK m \in Mutex :
          /\ owner[m] = u
          /\ \/ \E t \in Members(m) : prio[t] <= p
             \/ AboutToSleep(m) /\ prio[exec] <= p
    BY <1>1, <1>3 DEF Lent
  <2>2. Members(m) \subseteq Thread /\ exec \in Thread
    BY AddressFacts, LinkedFacts, ChainNow DEF Members, In
  <2>3. \E t \in Thread : Waiter(t, m) /\ prio[t] <= p
    BY <2>1, <2>2 DEF Waiter
  <2>4. Lent(u, p)' \/ WalksTo(u)'
    BY <2>1, <2>3, LentStays
  <2> QED  BY <1>1, <2>4, LentJustifies
<1> QED  BY <1>2, <1>3 DEF Justified, WalksTo

LEMMA EffectiveJustifies ==
  ASSUME IInv, IInv', AllWaitersLinked', DecidingNext, LockWaiters, WakesNext,
         CancelsNoLockWaiter, [Next]_vars,
         NEW u \in Thread, NEW mutexes \in Seq(Mutex),
         prio'[u] = InheritedPriority(u, mutexes),
         \A m \in ToSet(mutexes) : owner[m] = u /\ owner'[m] = u
  PROVE  Justified(u)'
<1>1. PICK p \in Nat : p = InheritedPriority(u, mutexes)
  BY OwnOrLent
<1>2. CASE p = BasePriority[u]
  <2>1. prio'[u] = BasePriority[u] /\ BasePriority[u] <= prio'[u]
    BY <1>1, <1>2
  <2> QED  BY <2>1 DEF Justified
<1>3. CASE p # BasePriority[u]
  <2>1. PICK m \in Mutex, t \in Thread :
          m \in ToSet(mutexes) /\ t \in Members(m) /\ p = prio[t]
    BY <1>1, <1>3, OwnOrLent
  <2>2. Waiter(t, m) /\ prio[t] <= p
    BY <2>1 DEF Waiter
  <2>3. Lent(u, p)' \/ WalksTo(u)'
    BY <2>1, <2>2, LentStays
  <2> QED  BY <1>1, <2>3, LentJustifies
<1> QED  BY <1>2, <1>3

\* What a thread that unlocks a mutex is left with.
LEMMA UnlockJustifies ==
  ASSUME IInv, IInv', AllWaitersLinked', DecidingNext, LockWaiters, WakesNext,
         OwnershipAgrees, CancelsNoLockWaiter, [Next]_vars, OSUnlockMutex,
         NEW u \in Thread, u = exec, Justified(u)
  PROVE  Justified(u)'
<1>1. At({"OSUnlockMutex"})
  BY DEF OSUnlockMutex
<1>2. Arg \in Mutex /\ running = exec /\ ~ WalksTo(u)
  BY <1>1, TopFacts, BusyTopFacts, ArgFacts DEF Arg, WalksTo, At, Quiet, Barrier
<1>3. /\ owner \in [Mutex -> Thread \cup {Null}] /\ held \in [Thread -> Seq(Mutex)]
      /\ exec \in Thread
  BY DEF IInv, TypeOK
<1>4. CASE owner' = owner /\ prio' = prio
  BY <1>2, <1>4, JustifiedStays
<1>5. CASE ~ (owner' = owner /\ prio' = prio)
  <2> DEFINE rest == RemoveFirst(held[exec], Arg)
  <2>1. /\ owner' = [owner EXCEPT ![Arg] = Null]
        /\ prio' = IF prio[exec] < BasePriority[exec]
                   THEN [prio EXCEPT ![exec] = InheritedPriority(exec, rest)] ELSE prio
    BY <1>2, <1>5 DEF OSUnlockMutex
  <2>2. /\ rest \in Seq(Mutex) /\ ToSet(rest) = ToSet(held[exec]) \ {Arg}
    BY <1>3, RemoveFirstFacts DEF OwnershipAgrees
  <2>3. \A m \in ToSet(rest) : m \in Mutex
    BY <2>2 DEF ToSet
  <2> HIDE DEF rest
  <2>4. \A m \in ToSet(rest) : owner[m] = u /\ owner'[m] = u
    BY <1>3, <2>1, <2>2, <2>3 DEF OwnershipAgrees
  <2>5. prio \in [Thread -> Nat] /\ BasePriority[exec] \in Nat
    BY <1>3, LinkedFacts, ConstantTypes, PriorityFacts DEF ConstantTypes
  <2>6. CASE prio[exec] < BasePriority[exec]
    <3>1. prio'[u] = InheritedPriority(u, rest)
      BY <2>1, <2>5, <2>6
    <3> QED  BY <2>2, <2>4, <3>1, EffectiveJustifies
  <2>7. CASE ~ (prio[exec] < BasePriority[exec])
    <3>1. prio'[u] = prio[u] /\ BasePriority[u] <= prio'[u]
      BY <2>1, <2>5, <2>7
    <3> QED  BY <3>1 DEF Justified
  <2> QED  BY <2>6, <2>7
<1> QED  BY <1>4, <1>5

LEMMA AllJustifiedStep ==
  ASSUME IInv, IInv', AllWaitersLinked', DecidingNext, LockWaiters, RitesNext,
         OwnershipAgrees, WakesNext, PromotesLent, AllJustified, CancelsNoLockWaiter,
         [Next]_vars
  PROVE  AllJustified'
<1> SUFFICES ASSUME NEW u \in Thread, ~ Dead(u)', suspend'[u] = 0
             PROVE  Justified(u)'
  BY DEF AllJustified
<1>1. /\ suspend \in [Thread -> Nat] /\ exec \in Thread
      /\ held \in [Thread -> Seq(Mutex)]
      /\ state \in [Thread -> {"none", "ready", "running", "waiting", "moribund"}]
  BY DEF IInv, TypeOK
<1>2. prio \in [Thread -> Nat]
  BY LinkedFacts
<1>3. ~ Dead(u)
  <2>1. ~ (OSCreateThread /\ Arg = u)
    BY <1>1 DEF OSCreateThread
  <2> QED  BY <2>1, LivesBefore
<1>4. suspend[u] = 0 => Justified(u)
  BY <1>3 DEF AllJustified
<1>5. CASE OSUnlockMutex /\ u = exec
  <2>1. suspend[u] = 0
    BY <1>5 DEF OSUnlockMutex
  <2> QED  BY <1>4, <1>5, <2>1, UnlockJustifies
<1>6. CASE ~ (OSUnlockMutex /\ u = exec)
  <2>1. \A m \in Mutex : owner[m] = u => owner'[m] = u
    BY <1>6, OwnerKept, AddressFacts
  <2>2. \A m \in ToSet(held[u]) : owner[m] = u /\ owner'[m] = u
    <3>1. \A m \in ToSet(held[u]) : m \in Mutex
      BY <1>1 DEF ToSet
    <3> QED  BY <2>1, <3>1 DEF OwnershipAgrees
  <2>3. ASSUME prio'[u] = EffectivePriority(u)
        PROVE  Justified(u)'
    BY <1>1, <2>2, <2>3, EffectiveJustifies DEF EffectivePriority
  <2>4. ASSUME prio'[u] = prio[u], suspend[u] = 0, ~ WalksTo(u)
        PROVE  Justified(u)'
    BY <1>4, <2>1, <2>4, JustifiedStays
  <2>5. CASE UNCHANGED vars
    <3>1. prio' = prio /\ suspend' = suspend /\ exec' = exec /\ stack' = stack
      BY <2>5 DEF vars, threadVars, fiberVars
    <3>2. WalksTo(u) => WalksTo(u)'
      BY <3>1 DEF WalksTo, At, Arg
    <3> QED  BY <2>4, <3>1, <3>2 DEF Justified, WalksTo
  <2>6. CASE Propagate
    <3>1. At({"Propagate"}) /\ suspend' = suspend
      BY <2>6 DEF Propagate
    <3>2. Arg \in Thread \cup {Null}
      BY <3>1, TopFacts, ArgFacts DEF Arg
    <3>3. CASE Arg = Null \/ suspend[Arg] > 0 \/ prio[Arg] = EffectivePriority(Arg)
      <4>1. prio' = prio
        BY <2>6, <3>3 DEF Propagate
      <4>2. CASE Arg = u
        <5>1. prio'[u] = EffectivePriority(u)
          BY <1>1, <3>1, <3>3, <4>1, <4>2, AddressFacts
        <5> QED  BY <2>3, <5>1
      <4>3. CASE Arg # u
        BY <2>4, <3>1, <4>1, <4>3 DEF WalksTo
      <4> QED  BY <4>2, <4>3
    <3>4. CASE ~ (Arg = Null \/ suspend[Arg] > 0 \/ prio[Arg] = EffectivePriority(Arg))
      <4>1. SetPriority(Arg, EffectivePriority(Arg)) /\ Arg \in Thread
        BY <2>6, <3>2, <3>4 DEF Propagate
      <4>2. CASE Arg = u
        BY <1>3, <2>3, <4>1, <4>2, SetPriorityOnly
      <4>3. CASE Arg # u
        <5>1. prio'[u] = prio[u]
          BY <4>1, <4>3, SetPriorityOnly
        <5> QED  BY <2>4, <3>1, <4>3, <5>1 DEF WalksTo
      <4> QED  BY <4>2, <4>3
    <3> QED  BY <3>3, <3>4
  <2>7. CASE ~ UNCHANGED vars /\ ~ Propagate
    <3>1. ~ WalksTo(u)
      BY <2>7, PropagateOnly DEF WalksTo
    <3>2. CASE prio'[u] = prio[u] /\ suspend'[u] = suspend[u]
      BY <2>4, <3>1, <3>2
    <3>3. CASE Promote
      <4>1. At({"Promote"}) /\ suspend' = suspend
        BY <3>3 DEF Promote
      <4>2. Arg \in Thread \cup {Null}
        BY <4>1, TopFacts, ArgFacts DEF Arg
      <4>3. CASE Arg = Null \/ suspend[Arg] > 0 \/ prio[Arg] <= prio[exec]
        BY <3>2, <3>3, <4>1, <4>3 DEF Promote
      <4>4. CASE ~ (Arg = Null \/ suspend[Arg] > 0 \/ prio[Arg] <= prio[exec])
        <5>1. SetPriority(Arg, prio[exec]) /\ Arg \in Thread
          BY <3>3, <4>2, <4>4 DEF Promote
        <5>2. CASE Arg # u
          BY <3>2, <4>1, <5>1, <5>2, SetPriorityOnly
        <5>3. CASE Arg = u
          <6>1. PICK p \in Nat : p = prio[exec]
            BY <1>1, <1>2
          <6>2. prio'[u] = p
            BY <1>3, <5>1, <5>3, <6>1, SetPriorityOnly
          <6>3. PICK m \in Mutex :
                  /\ owner[m] = u
                  /\ \/ \E t \in Members(m) : prio[t] <= p
                     \/ AboutToSleep(m) /\ prio[exec] <= p
            BY <4>1, <4>4, <5>3, <6>1 DEF PromotesLent, Lent
          <6>4. Members(m) \subseteq Thread
            BY AddressFacts, LinkedFacts DEF Members, In
          <6>5. \E t \in Thread : Waiter(t, m) /\ prio[t] <= p
            BY <1>1, <6>3, <6>4 DEF Waiter
          <6>6. Lent(u, p)' \/ WalksTo(u)'
            BY <2>1, <6>3, <6>5, LentStays
          <6> QED  BY <6>2, <6>6, LentJustifies
        <5> QED  BY <5>2, <5>3
      <4> QED  BY <4>3, <4>4
    <3>4. CASE OSUnlockMutex
      <4>1. suspend' = suspend /\ (prio' = prio \/ \E p : prio' = [prio EXCEPT ![exec] = p])
        BY <3>4 DEF OSUnlockMutex
      <4> QED  BY <1>2, <1>6, <3>2, <3>4, <4>1
    <3>5. CASE OSCreateThread
      <4>1. /\ suspend' = [suspend EXCEPT ![Arg] = 1]
            /\ prio' = [prio EXCEPT ![Arg] = BasePriority[Arg]]
        BY <3>5 DEF OSCreateThread
      <4> QED  BY <1>1, <1>2, <3>2, <4>1
    <3>6. CASE OSSuspendThread
      <4>1. /\ suspend' = [suspend EXCEPT ![Arg] = @ + 1]
            /\ prio' = prio \/ \E p : prio' = [prio EXCEPT ![Arg] = p]
        BY <3>6 DEF OSSuspendThread
      <4>2. Arg # u
        BY <1>1, <4>1
      <4> QED  BY <1>1, <1>2, <3>2, <4>1, <4>2
    <3>7. CASE OSResumeThread
      <4>1. suspend' = [suspend EXCEPT ![Arg] = Resumed(@)]
        BY <3>7 DEF OSResumeThread
      <4>2. CASE Arg = u /\ suspend[u] = 1
        <5>1. state[u] \in {"ready", "running", "waiting"}
          BY <1>1, <1>3 DEF Dead
        <5>2. prio' = [prio EXCEPT ![u] = EffectivePriority(u)]
          BY <3>7, <4>2, <5>1 DEF OSResumeThread
        <5> QED  BY <1>2, <2>3, <5>2
      <4>3. CASE Arg = u /\ suspend[u] # 1
        <5>1. suspend[u] = 0
          BY <1>1, <4>1, <4>3 DEF Resumed
        <5>2. prio' = prio
          BY <3>7, <4>3 DEF OSResumeThread
        <5> QED  BY <2>4, <3>1, <5>1, <5>2
      <4>4. CASE Arg # u
        <5>1. prio' = prio \/ \E p : prio' = [prio EXCEPT ![Arg] = p]
          BY <3>7 DEF OSResumeThread
        <5> QED  BY <1>1, <1>2, <3>2, <4>1, <4>4, <5>1
      <4> QED  BY <4>2, <4>3, <4>4
    <3> QED  BY <2>7, <3>2, <3>3, <3>4, <3>5, <3>6, <3>7, PrioritySteps
  <2> QED  BY <2>5, <2>6, <2>7
<1> QED  BY <1>5, <1>6

\* A walk is under way only as the next frame of the executing fiber.
LEMMA PromoteNextOnly ==
  ASSUME IInv, DecidingNext, NEW f \in Frame, f.op = "Promote"
  PROVE  NextOnly(f)
<1>1. \A u \in Thread \ {exec} : f \notin ToSet(stack[u])
  BY DEF DecidingNext, Has, ToSet, Deciding
<1>2. ASSUME stack[exec] # << >>
      PROVE  f \notin ToSet(Tail(stack[exec]))
  <2>1. Tail(stack[exec]) \in Seq(Frame)
    BY <1>2, BelowTop
  <2>2. CASE At({"Promote"})
    <3> DEFINE below == Tail(stack[exec])
    <3>1. below # << >> /\ Head(below).op = "OSSleepThread" /\ ~ Has(Tail(below), Deciding)
      BY <1>2, <2>2 DEF DecidingNext
    <3>2. ToSet(below) = {Head(below)} \cup ToSet(Tail(below))
      BY <2>1, <3>1, ChainSets
    <3>3. f \notin ToSet(Tail(below))
      BY <3>1 DEF Has, ToSet, Deciding
    <3> QED  BY <3>1, <3>2, <3>3
  <2>3. CASE ~ At({"Promote"})
    <3>1. ~ Has(Tail(stack[exec]), Deciding)
      BY <1>2, <2>3 DEF DecidingNext
    <3> QED  BY <3>1 DEF Has, ToSet, Deciding
  <2> QED  BY <2>2, <2>3
<1> QED  BY <1>1, <1>2 DEF NextOnly

LEMMA PromotesLentStep ==
  ASSUME IInv, IInv', AllWaitersLinked, AllWaitersLinked', DecidingNext, LockWaiters,
         WakesNext, BlockedThere, PromotesLent, CancelsNoLockWaiter, [Next]_vars
  PROVE  PromotesLent'
<1> SUFFICES ASSUME At({"Promote"})', Arg' # Null
             PROVE  Lent(Arg, prio[exec])'
  BY DEF PromotesLent
<1>1. PICK f \in Frame : stack'[exec'] # << >> /\ f = Head(stack'[exec']) /\ f.op = "Promote"
  <2>1. stack'[exec'] \in Seq(Frame) /\ stack'[exec'] # << >>
    BY DEF IInv, TypeOK, At
  <2>2. Head(stack'[exec']) \in Frame
    BY <2>1, HeadTailProperties
  <2> QED  BY <2>1, <2>2 DEF At
<1>2. ~ AddsNo(f)
  BY <1>1, PromoteNextOnly, NobodyNext, NobodyAfter
<1>3. f \in Followed
  BY <1>1 DEF Followed, Marked, Deciding
<1>4. UNCHANGED vars \/ Promote \/ OSLockMutex
  BY <1>1, <1>2, <1>3, FollowedSteps DEF Callbacks, Wakeups
<1>5. /\ exec \in Thread /\ owner \in [Mutex -> Thread \cup {Null}]
      /\ blockedOn \in [Thread -> Mutex \cup {Null}] /\ prio \in [Thread -> Nat]
  <2>1. /\ exec \in Thread /\ owner \in [Mutex -> Thread \cup {Null}]
        /\ blockedOn \in [Thread -> Mutex \cup {Null}]
    BY DEF IInv, TypeOK
  <2> QED  BY <2>1, LinkedFacts
<1>6. CASE UNCHANGED vars
  BY <1>6
  DEF PromotesLent, Lent, AboutToSleep, Members, At, Arg, vars, threadVars, mutexVars,
      fiberVars
<1>7. CASE OSLockMutex
  <2>1. At({"OSLockMutex"}) /\ stack[exec] # << >> /\ exec' = exec /\ prio' = prio
    BY <1>7 DEF OSLockMutex, At, threadVars
  <2>2. Arg \in Mutex
    BY <2>1, TopFacts, ArgFacts DEF Arg
  <2>3. ~ Return
    BY <1>2, <2>1, ReturnAddsNo
  <2>4. /\ owner[Arg] \in Thread /\ owner' = owner
        /\ Continue(<< Call("Promote", owner[Arg]), Call("OSSleepThread", Arg),
                       Call("LockRetry", Arg) >>)
    BY <1>5, <1>7, <2>2, <2>3 DEF OSLockMutex
  <2>5. PICK m \in Mutex : m = Arg
    BY <2>2
  <2>6. /\ Call("OSSleepThread", m) \in ToSet(stack'[exec])
        /\ Head(stack'[exec]) = Call("Promote", owner[m])
    BY <2>1, <2>2, <2>4, <2>5, LockFrames
  <2>7. Arg' = owner[m] /\ AboutToSleep(m)'
    BY <2>1, <2>6, FramesFacts DEF Arg, AboutToSleep
  <2>8. prio'[exec'] <= prio'[exec']
    BY <1>5, <2>1
  <2> QED  BY <2>4, <2>7, <2>8 DEF Lent
<1>8. CASE Promote
  <2>1. At({"Promote"}) /\ stack[exec] # << >> /\ exec' = exec /\ owner' = owner
    BY <1>8 DEF Promote, At, mutexVars
  <2>2. Arg \in Thread \cup {Null}
    BY <2>1, TopFacts, ArgFacts DEF Arg
  <2>3. ~ Return
    BY <1>2, <2>1, ReturnAddsNo
  <2>4. PICK x \in Thread : x = Arg
    BY <1>8, <2>2, <2>3 DEF Promote
  <2>5. /\ ~ (suspend[x] > 0 \/ prio[x] <= prio[exec]) /\ SetPriority(x, prio[exec])
        /\ Continue(<< Call("Promote", NextInChain(x)) >>)
    BY <1>8, <2>3, <2>4 DEF Promote
  <2>6. NextInChain(x) \in Thread \cup {Null}
    BY ChainFacts DEF IInv
  <2>7. Arg' = NextInChain(x)
    <3>1. Call("Promote", NextInChain(x)) \in Frame
      BY <2>6, FrameFacts
    <3>2. Head(stack'[exec']) = Call("Promote", NextInChain(x))
      BY <2>1, <2>5, <3>1, NextFrame
    <3> QED  BY <3>2, FramesFacts DEF Arg
  <2>8. state[x] = "waiting" /\ blockedOn[x] # Null /\ Arg' = owner[blockedOn[x]]
    BY <2>7 DEF NextInChain, OwnerOf
  <2>9. PICK m \in Mutex : m = blockedOn[x]
    BY <1>5, <2>8
  <2>10. x \in Members(m) /\ owner[m] # Null
    BY <2>8, <2>9 DEF BlockedThere, AllWaitersLinked
  <2>11. x \in Members(m)'
    BY <2>10, MemberStays
  <2>12. prio'[x] = prio[exec] /\ prio'[exec] = prio[exec]
    <3>1. ~ Dead(x)
      BY <2>8 DEF Dead
    <3>2. x # exec
      BY <1>5, <2>5
    <3> QED  BY <1>5, <2>5, <3>1, <3>2, SetPriorityOnly
  <2>13. prio'[x] <= prio'[exec']
    BY <1>5, <2>1, <2>12
  <2>14. owner'[m] = Arg'
    BY <2>1, <2>8, <2>9
  <2> QED  BY <2>11, <2>13, <2>14 DEF Lent
<1> QED  BY <1>4, <1>6, <1>7, <1>8

-----------------------------------------------------------------------------
(* LendInv.                                                                *)

LEMMA InitLends ==
  ASSUME Init
  PROVE  LendInv
<1>1. /\ \A t \in Thread : stack[t] = << >> /\ blockedOn[t] = Null
      /\ state = [t \in Thread |-> IF t = Main THEN "running" ELSE "none"]
      /\ suspend = [t \in Thread |-> 0] /\ prio = BasePriority
      /\ exec \in Thread
  BY ConstantTypes DEF Init, ConstantTypes
<1>2. stack[exec] = << >> /\ ToSet(<< >>) = {}
  BY <1>1 DEF ToSet
<1>3. WakesNext
  BY <1>1, <1>2 DEF WakesNext, Waking, At
<1>4. RetriesLock
  BY <1>1 DEF RetriesLock
<1>5. WaitsForOne
  BY <1>2 DEF WaitsForOne, WaitsElsewhere, AboutToSleep, At
<1>6. BlockedThere /\ SuspendedLast
  BY <1>1 DEF BlockedThere, SuspendedLast
<1>7. PromotesLent
  BY <1>2 DEF PromotesLent, At
<1>8. AllJustified
  <2>1. \A u \in Thread : prio[u] \in Nat /\ BasePriority[u] = prio[u]
    BY <1>1, ConstantTypes, PriorityFacts DEF ConstantTypes
  <2> QED  BY <2>1 DEF AllJustified, Justified
<1> QED  BY <1>3, <1>4, <1>5, <1>6, <1>7, <1>8 DEF LendInv

LEMMA LendStep ==
  ASSUME Disciplined, IInv, IInv', WaitInv, EndInv, EndInv', LendInv, CancelsNoLockWaiter,
         [Next]_vars
  PROVE  LendInv'
<1>1. /\ DecidingNext /\ SleepsOnOwned /\ LockWaiters
      /\ RitesNext /\ AllWaitersLinked /\ OwnershipAgrees /\ AllWaitersLinked'
  BY DEF WaitInv, EndInv
<1>2. /\ WakesNext /\ RetriesLock /\ WaitsForOne /\ BlockedThere /\ SuspendedLast
      /\ PromotesLent /\ AllJustified
  BY DEF LendInv
<1>3. WakesNext' /\ RetriesLock' /\ WaitsForOne'
  BY <1>1, <1>2, WakesStep, RetriesLockStep, WaitsForOneStep
<1>4. BlockedThere' /\ SuspendedLast'
  BY <1>1, <1>2, BlockedThereStep, SuspendedLastStep
<1>5. PromotesLent' /\ AllJustified'
  BY <1>1, <1>2, PromotesLentStep, AllJustifiedStep
<1> QED  BY <1>3, <1>4, <1>5 DEF LendInv

-----------------------------------------------------------------------------
(* The request to reschedule.                                              *)

LEMMA UnlinkPending ==
  ASSUME NEW L, NEW t
  PROVE  Unlink(L, t).pending \subseteq L.pending
  BY DEF Unlink, UpdatePending

\* A priority is marked pending only by a step that requests a reschedule, and
\* only the dispatcher takes the request back.
LEMMA RequestSteps ==
  ASSUME IInv, [Next]_vars, ~ Dispatch
  PROVE  /\ resched => resched'
         /\ ~ resched' => links'.pending \subseteq links.pending
<1>1. resched \in BOOLEAN /\ exec \in Thread
  BY DEF IInv, TypeOK
<1>2. ASSUME NEW t \in Thread, state[t] = "waiting", NEW p, NEW f
      PROVE  InsertByPriority(Unlink(links, t), links.at[t], t, p, f).pending \subseteq links.pending
  <2>1. links.at[t] \notin Priority
    BY <1>2, LinkedFacts, AddressFacts
  <2>2. InsertByPriority(Unlink(links, t), links.at[t], t, p, f).pending = Unlink(links, t).pending
    BY <2>1 DEF InsertByPriority
  <2> QED  BY <2>2, UnlinkPending
<1>3. ASSUME NEW t \in Thread, NEW p, SetPriority(t, p)
      PROVE  (resched => resched') /\ (~ resched' => links'.pending \subseteq links.pending)
  <2>1. resched' = (resched \/ state[t] \in {"ready", "running"})
    BY <1>3 DEF SetPriority
  <2>2. state[t] \notin {"ready", "running"} =>
          links' = links \/ (state[t] = "waiting" /\
                             links' = InsertByPriority(Unlink(links, t), links.at[t], t, p, prio))
    BY <1>3 DEF SetPriority
  <2> QED  BY <1>1, <1>2, <2>1, <2>2
<1>4. CASE OSSleepThread
  BY <1>1, <1>4 DEF OSSleepThread
<1>5. CASE SleepReturn \/ OSSleepTicks \/ ParkReturn \/ SleepTimerDue \/ Reconcile
  <2>1. SleepReturn => state[exec] = "running"
    <3>1. SleepReturn => At({"SleepReturn"})
      BY DEF SleepReturn
    <3> QED  BY <3>1, BusyTopFacts DEF Quiet, Barrier
  <2>2. resched' = resched /\ links' = links
    BY <1>5, <2>1 DEF SleepReturn, OSSleepTicks, ParkReturn, SleepTimerDue, Reconcile
  <2> QED  BY <2>2
<1>6. CASE SelectThread \/ SelectReturns \/ Reschedule \/ IdleTimers \/ LeaveIdleLoop
           \/ WakeupDone
  BY <1>6
  DEF SelectThread, SelectReturns, Reschedule, IdleTimers, LeaveIdleLoop, WakeupDone
<1>7. CASE SelectLeaves
  BY <1>1, <1>7 DEF SelectLeaves
<1>8. CASE OSWakeupThread
  <2>1. resched' = TRUE \/ (resched' = resched /\ links'.pending = links.pending)
    BY <1>8 DEF OSWakeupThread, ClearPointer, PopHead
  <2> QED  BY <1>1, <2>1
<1>9. CASE Promote \/ Propagate
  <2>1. At({"Promote", "Propagate"})
    BY <1>9 DEF Promote, Propagate, At
  <2>2. Arg \in Thread \cup {Null}
    BY <2>1, TopFacts, ArgFacts DEF Arg
  <2>3. UNCHANGED << resched, links >> \/ (Arg # Null /\ \E p : SetPriority(Arg, p))
    BY <1>9 DEF Promote, Propagate
  <2> QED  BY <1>3, <2>2, <2>3
<1>10. CASE OSLockMutex \/ LockRetry \/ OSUnlockMutex \/ UnlockAll
  BY <1>10 DEF OSLockMutex, LockRetry, OSUnlockMutex, UnlockAll
<1>11. CASE OSCreateThread \/ OSExitThread \/ ExitReschedule \/ OSJoinThread \/ JoinReturn
            \/ OSDetachThread
  <2>1. (resched' = resched \/ resched' = TRUE) /\ links'.pending = links.pending
    BY <1>11
    DEF OSCreateThread, OSExitThread, ExitReschedule, OSJoinThread, JoinReturn,
        OSDetachThread
  <2> QED  BY <1>1, <2>1
<1>12. CASE OSSuspendThread
  <2>1. At({"OSSuspendThread"})
    BY <1>12 DEF OSSuspendThread
  <2>2. Arg \in Thread
    BY <2>1, TopFacts, ArgFacts DEF Arg, ThreadCall
  <2>3. \/ links' = Unlink(links, Arg) \/ links' = links
        \/ state[Arg] = "waiting" /\
           links' = InsertByPriority(Unlink(links, Arg), links.at[Arg], Arg,
                                     SuspendedWaitPriority, prio)
    BY <1>12 DEF OSSuspendThread
  <2>4. resched => resched'
    BY <1>12 DEF OSSuspendThread
  <2> QED  BY <1>2, <2>2, <2>3, <2>4, UnlinkPending
<1>13. CASE OSResumeThread
  <2>1. At({"OSResumeThread"})
    BY <1>13 DEF OSResumeThread
  <2>2. Arg \in Thread
    BY <2>1, TopFacts, ArgFacts DEF Arg, ThreadCall
  <2>3. \/ resched' = TRUE \/ links' = links
        \/ state[Arg] = "waiting" /\
           links' = InsertByPriority(Unlink(links, Arg), links.at[Arg], Arg,
                                     EffectivePriority(Arg), prio)
    BY <1>1, <1>13 DEF OSResumeThread
  <2>4. resched => resched'
    BY <1>13 DEF OSResumeThread
  <2> QED  BY <1>2, <2>2, <2>3, <2>4
<1>14. CASE OSCancelThread
  <2>1. links' = Unlink(links, Arg) \/ links' = links
    BY <1>14 DEF OSCancelThread
  <2>2. resched => resched'
    BY <1>14 DEF OSCancelThread
  <2> QED  BY <2>1, <2>2, UnlinkPending
<1>15. CASE CallbackStep \/ GuestCall \/ UNCHANGED vars
  BY <1>15
  DEF CallbackStep, IdleCallback, IdleCallbackReturns, BeginCallback, EndCallback,
      GuestCall, vars
<1> QED
  BY <1>4, <1>5, <1>6, <1>7, <1>8, <1>9, <1>10, <1>11, <1>12, <1>13, <1>14, <1>15,
     NobodyReturns
  DEF Next, HleStep, SleepStep, SchedulerStep, MutexStep, LifeStep

\* The executing thread begins to run only when it is dispatched.
LEMMA RunsBefore ==
  ASSUME IInv, [Next]_vars, ~ Dispatch, state'[exec] = "running"
  PROVE  state[exec] = "running" /\ exec' = exec
<1>1. /\ state \in [Thread -> {"none", "ready", "running", "waiting", "moribund"}]
      /\ exec \in Thread
  BY DEF IInv, TypeOK
<1>2. exec' = exec
  <2>1. UNCHANGED vars => exec' = exec
    BY DEF vars, fiberVars
  <2> QED  BY <2>1, OnlyDispatchSwitches
<1> SUFFICES state[exec] = "running"
  BY <1>2
<1>3. ASSUME \/ state' = state
             \/ \E t, x : x # "running" /\ state' = [state EXCEPT ![t] = x]
      PROVE  state[exec] = "running"
  BY <1>1, <1>3
<1>4. CASE SleepReturn \/ ParkReturn
  <2>1. At({"SleepReturn", "ParkReturn"})
    BY <1>4 DEF SleepReturn, ParkReturn, At
  <2> QED  BY <2>1, BusyTopFacts DEF Quiet, Barrier
<1>5. CASE OSSleepThread \/ OSSleepTicks \/ SleepTimerDue \/ Reconcile
  BY <1>3, <1>5 DEF OSSleepThread, OSSleepTicks, SleepTimerDue, Reconcile, threadVars
<1>6. CASE SelectThread \/ SelectReturns \/ SelectLeaves \/ Reschedule \/ IdleTimers
           \/ LeaveIdleLoop \/ WakeupDone \/ OSWakeupThread
  BY <1>3, <1>6
  DEF SelectThread, SelectReturns, SelectLeaves, Reschedule, IdleTimers, LeaveIdleLoop,
      WakeupDone, OSWakeupThread, threadVars
<1>7. CASE MutexStep \/ CallbackStep \/ GuestCall \/ UNCHANGED vars
  BY <1>3, <1>7
  DEF MutexStep, Promote, Propagate, OSLockMutex, LockRetry, OSUnlockMutex, UnlockAll,
      CallbackStep, IdleCallback, IdleCallbackReturns, BeginCallback, EndCallback,
      GuestCall, vars, threadVars
<1>8. CASE OSCreateThread \/ OSSuspendThread \/ OSResumeThread \/ ExitReschedule
  BY <1>3, <1>8
  DEF OSCreateThread, OSSuspendThread, OSResumeThread, ExitReschedule, threadVars
<1>9. CASE OSJoinThread \/ JoinReturn \/ OSDetachThread
  BY <1>3, <1>9 DEF OSJoinThread, JoinReturn, OSDetachThread, Reap
<1>10. CASE OSExitThread \/ OSCancelThread
  <2>1. state' = state \/ \E t, x : x \in {"none", "moribund"} /\ state' = [state EXCEPT ![t] = x]
    BY <1>10, EndingStep DEF Terminate
  <2> QED  BY <1>3, <2>1
<1> QED
  BY <1>2, <1>4, <1>5, <1>6, <1>7, <1>8, <1>9, <1>10, NobodyReturns
  DEF Next, HleStep, SleepStep, SchedulerStep, LifeStep

-----------------------------------------------------------------------------
(* Preemption is not lost.                                                 *)

\* A thread that gives back what its waiters have lent it is about to wake one
\* that raises the request.
LEMMA UnlockRaises ==
  ASSUME IInv, IInv', WaitQueuesSorted, DecidingNext, OwnershipAgrees, SuspendedLast,
         AllJustified, OSUnlockMutex, state[exec] = "running", prio'[exec] > prio[exec]
  PROVE  RaisesRequest'
<1>1. At({"OSUnlockMutex"}) /\ stack[exec] # << >> /\ exec' = exec
  BY DEF OSUnlockMutex, At
<1>2. Arg \in Mutex /\ running = exec /\ suspend[exec] = 0
  BY <1>1, TopFacts, BusyTopFacts, ArgFacts DEF Arg, Quiet, Barrier
<1>3. /\ owner \in [Mutex -> Thread \cup {Null}] /\ held \in [Thread -> Seq(Mutex)]
      /\ exec \in Thread
  BY DEF IInv, TypeOK
<1>4. prio \in [Thread -> Nat] /\ BasePriority[exec] \in Priority /\ BasePriority[exec] \in Nat
  BY <1>3, LinkedFacts, ConstantTypes, PriorityFacts DEF ConstantTypes
<1> DEFINE rest == RemoveFirst(held[exec], Arg)
<1>5. prio' # prio
  BY <1>3, <1>4
<1>6. /\ owner[Arg] = exec /\ prio[exec] < BasePriority[exec]
      /\ prio' = [prio EXCEPT ![exec] = InheritedPriority(exec, rest)]
      /\ Continue(<< Call("OSWakeupThread", Arg) >>)
      /\ links' = links /\ state' = state /\ suspend' = suspend
  BY <1>2, <1>5 DEF OSUnlockMutex
<1>7. rest \in Seq(Mutex) /\ ToSet(rest) = ToSet(held[exec]) \ {Arg}
  BY <1>3, RemoveFirstFacts DEF OwnershipAgrees
<1> HIDE DEF rest
<1>8. Lent(exec, prio[exec])
  <2>1. ~ Dead(exec) /\ ~ WalksTo(exec)
    BY <1>1 DEF Dead, WalksTo, At
  <2>2. ~ (BasePriority[exec] <= prio[exec])
    BY <1>3, <1>4, <1>6
  <2> QED  BY <1>2, <1>3, <2>1, <2>2 DEF AllJustified, Justified, WalksTo
<1>9. PICK m \in Mutex : owner[m] = exec /\ \E t \in Members(m) : prio[t] <= prio[exec]
  <2>1. \A m \in Mutex : ~ AboutToSleep(m)
    BY <1>1, SleeperTop DEF At
  <2> QED  BY <1>8, <2>1 DEF Lent
<1> PICK t \in Members(m) : prio[t] <= prio[exec]
  BY <1>9
<1>10. t \in Thread /\ prio[t] <= prio[exec]
  BY AddressFacts, LinkedFacts DEF Members, In
<1>11. m = Arg
  <2> SUFFICES ASSUME m # Arg
               PROVE  FALSE
    OBVIOUS
  <2>1. m \in ToSet(rest)
    BY <1>3, <1>7, <1>9 DEF OwnershipAgrees
  <2>2. InheritedPriority(exec, rest) <= prio[t]
    BY <1>3, <1>7, <2>1, InheritedBelow
  <2>3. InheritedPriority(exec, rest) \in Nat
    BY <1>3, <1>7, OwnOrLent
  <2>4. prio'[exec] = InheritedPriority(exec, rest)
    BY <1>3, <1>4, <1>6
  <2> QED  BY <1>3, <1>4, <1>10, <2>2, <2>3, <2>4
<1>12. PICK h \in Thread :
        /\ links.queue[m] # << >> /\ h = Head(links.queue[m])
        /\ h \in Members(m) /\ prio[h] <= prio[t]
  <2> DEFINE h == Head(links.queue[m])
  <2>1. m \in WaitQueueId /\ links.queue[m] \in Seq(Thread)
    BY AddressFacts, LinkedFacts
  <2>2. SortedBy(links.queue[m], prio)
    BY <2>1 DEF WaitQueuesSorted, SortedBy
  <2>3. links.queue[m] # << >>
    BY <1>9 DEF Members, ToSet
  <2>4. h \in Thread /\ h \in ToSet(links.queue[m])
    BY <2>1, <2>3, HeadInToSet
  <2> QED  BY <1>4, <1>9, <2>1, <2>2, <2>3, <2>4, SortedHead DEF Members
<1>13. state[h] = "waiting"
  BY <1>12, AddressFacts, LinkedFacts DEF Members, In
<1>14. suspend[h] = 0
  <2>1. prio[h] \in Nat /\ prio[t] \in Nat /\ prio[exec] \in Nat
    BY <1>3, <1>4, <1>10, <1>12
  <2>2. prio[h] <= BasePriority[exec]
    BY <1>4, <1>6, <1>10, <1>12, <2>1
  <2>3. prio[h] \in Priority
    BY <1>4, <2>1, <2>2, PriorityFacts
  <2>4. ~ (suspend[h] > 0)
    BY <1>12, <1>13, <2>3, PriorityFacts DEF SuspendedLast
  <2>5. suspend[h] \in Nat
    BY <1>12 DEF IInv, TypeOK
  <2> QED  BY <2>4, <2>5
<1>15. stack'[exec'] # << >> /\ Head(stack'[exec']) = Call("OSWakeupThread", Arg)
  BY <1>1, <1>2, <1>6, AddressFacts, FrameFacts, NextFrame
<1>16. At({"OSWakeupThread"})' /\ Arg' = m
  BY <1>11, <1>15, FramesFacts DEF At, Arg
<1>17. Wakeable(h)'
  BY <1>6, <1>12, <1>13, <1>14 DEF Wakeable, Dead
<1> QED
  <2>1. links'.queue[Arg'] # << >> /\ Head(links'.queue[Arg']) = h
    BY <1>6, <1>12, <1>16
  <2> QED  BY <1>16, <1>17, <2>1 DEF RaisesRequest

\* A running thread that has become outranked was running before, and no step
\* but the dispatcher's replaces it.
LEMMA OutrankedBefore ==
  ASSUME IInv, IInv', [Next]_vars, Outranked'
  PROVE  /\ ~ Dispatch /\ exec' = exec
         /\ state[exec] = "running" /\ state'[exec] = "running"
         /\ running = exec /\ current = exec /\ ~ Has(stack[exec], {"IdleLoop", "Dispatch"})
<1>1. exec \in Thread /\ prio \in [Thread -> Nat]
  BY ChainNow, LinkedFacts
<1>2. PICK p \in links'.pending : state'[exec'] = "running" /\ p < prio'[exec']
  BY DEF Outranked
<1>3. ~ Dispatch
  <2> SUFFICES ASSUME Dispatch
               PROVE  FALSE
    OBVIOUS
  <2>1. PICK q \in Priority, t \in Thread :
          /\ q \in links.pending /\ \A r \in links.pending : q <= r
          /\ prio[t] = q /\ exec' = t /\ prio' = prio
          /\ links' = ClearPointer(UpdatePending(PopHead(links, q), q), t)
    BY DispatchHead
  <2>2. links'.pending \subseteq links.pending
    BY <2>1 DEF ClearPointer, UpdatePending, PopHead
  <2>3. p \in Nat /\ q \in Nat
    <3>1. p \in Priority
      BY <1>2 DEF IInv, TypeOK
    <3> QED  BY <2>1, <3>1, PriorityFacts
  <2> QED  BY <1>2, <2>1, <2>2, <2>3
<1>4. exec' = exec
  <2>1. UNCHANGED vars => exec' = exec
    BY DEF vars, fiberVars
  <2> QED  BY <1>3, <2>1, OnlyDispatchSwitches
<1>5. state[exec] = "running" /\ state'[exec] = "running"
  BY <1>2, <1>3, <1>4, RunsBefore
<1>6. ~ Has(stack[exec], {"IdleLoop", "Dispatch"})
  <2>1. ~ Has(stack[exec], {"IdleLoop"})
    BY <1>5 DEF IInv, ControlInv, IdleNotRunning
  <2>2. ~ At({"Dispatch"})
    BY <1>5 DEF IInv, ControlInv, DispatchNext
  <2>3. stack[exec] # << >> => ~ Has(stack[exec], {"Dispatch"})
    <3>1. stack[exec] # << >> => ~ Has(Tail(stack[exec]), {"Dispatch"})
      BY DEF IInv, ControlInv, FirstOnly, Has
    <3> QED  BY <2>2, <3>1, BelowTop DEF At
  <2>4. stack[exec] = << >> => ~ Has(stack[exec], {"Dispatch"})
    BY DEF Has
  <2> QED  BY <2>1, <2>3, <2>4 DEF Has
<1>7. running = exec /\ current = exec
  BY <1>6 DEF IInv, ControlInv, OpenRunsItself
<1> QED  BY <1>3, <1>4, <1>5, <1>6, <1>7

LEMMA PreemptionKeptStep ==
  ASSUME IInv, IInv', WaitQueuesSorted, DecidingNext, OwnershipAgrees, SuspendedLast,
         AllJustified, PreemptionKept, [Next]_vars
  PROVE  PreemptionKept'
<1> SUFFICES ASSUME Outranked', ~ resched'
             PROVE  RaisesRequest'
  BY DEF PreemptionKept
<1>1. exec \in Thread /\ prio \in [Thread -> Nat]
  BY ChainNow, LinkedFacts
<1>2. PICK p \in links'.pending : state'[exec'] = "running" /\ p < prio'[exec']
  BY DEF Outranked
<1>3. /\ ~ Dispatch /\ exec' = exec /\ state[exec] = "running"
  BY OutrankedBefore
<1>4. exec' = exec
  BY <1>3
<1>5. state[exec] = "running" /\ p \in links.pending /\ ~ resched
  BY <1>2, <1>3, RequestSteps
<1>6. p \in Nat /\ prio[exec] \in Nat /\ prio'[exec] \in Nat
  <2>1. p \in Priority
    BY <1>2 DEF IInv, TypeOK
  <2>2. prio'[exec] \in Priority \cup {SuspendedWaitPriority}
    BY <1>1 DEF IInv, TypeOK
  <2> QED  BY <1>1, <2>1, <2>2, PriorityFacts
<1>7. CASE p < prio[exec]
  <2>1. RaisesRequest
    BY <1>5, <1>7 DEF PreemptionKept, Outranked
  <2>2. ~ OSWakeupThread
    BY <2>1 DEF RaisesRequest, OSWakeupThread
  <2>3. ~ WakeupDone
    BY <2>1 DEF RaisesRequest, WakeupDone
  <2>4. UNCHANGED vars
    BY <2>1, <2>2, <2>3, WakeupOnly DEF RaisesRequest, At
  <2> QED
    BY <2>1, <2>4 DEF RaisesRequest, Wakeable, Dead, At, Arg, vars, threadVars, fiberVars
<1>8. CASE ~ (p < prio[exec])
  <2>1. prio'[exec] > prio[exec]
    BY <1>2, <1>4, <1>6, <1>8
  <2>2. CASE OSUnlockMutex
    BY <1>5, <2>1, <2>2, UnlockRaises
  <2>3. CASE Promote \/ Propagate
    <3>1. At({"Promote", "Propagate"})
      BY <2>3 DEF Promote, Propagate, At
    <3>2. Arg \in Thread \cup {Null}
      BY <3>1, TopFacts, ArgFacts DEF Arg
    <3>3. prio' # prio
      BY <1>1, <2>1
    <3>4. Arg \in Thread /\ \E q : SetPriority(Arg, q)
      BY <2>3, <3>2, <3>3 DEF Promote, Propagate
    <3>5. Arg = exec
      BY <1>1, <2>1, <3>4, SetPriorityOnly
    <3> QED  BY <1>5, <3>4, <3>5 DEF SetPriority
  <2>4. CASE OSCreateThread
    <3>1. At({"OSCreateThread"}) /\ prio' = [prio EXCEPT ![Arg] = BasePriority[Arg]]
      BY <2>4 DEF OSCreateThread
    <3>2. Dead(Arg)
      BY <3>1 DEF IInv, ControlInv, CreateNext
    <3>3. Arg # exec
      BY <1>5, <3>2 DEF Dead
    <3> QED  BY <1>1, <2>1, <3>1, <3>3
  <2>5. CASE OSSuspendThread \/ OSResumeThread
    <3>1. \/ prio' = prio
          \/ state[Arg] = "waiting" /\ \E q : prio' = [prio EXCEPT ![Arg] = q]
          \/ resched' = TRUE
      BY <2>5 DEF OSSuspendThread, OSResumeThread
    <3> QED  BY <1>1, <1>5, <2>1, <3>1
  <2> QED  BY <1>1, <2>1, <2>2, <2>3, <2>4, <2>5, PrioritySteps
<1> QED  BY <1>7, <1>8

-----------------------------------------------------------------------------
(* What the invariants give.                                               *)

\* Nobody executes with a borrowed priority that no waiter lends, and a wait for
\* a mutex ends before the next one begins: the fourth invariant, of guest code
\* that besides cancels no thread in a wait for a mutex.
THEOREM LendInvariantHolds ==
  ASSUME Disciplined
  PROVE  Spec /\ []ReleasesFirst /\ []CancelsNoLockWaiter => []LendInv
<1>1. Init => LendInv
  BY InitLends
<1>2. /\ IInv /\ IInv' /\ WaitInv /\ EndInv /\ EndInv' /\ LendInv /\ CancelsNoLockWaiter
      /\ [Next]_vars
      => LendInv'
  BY LendStep
<1> QED
  BY <1>1, <1>2, InvariantHolds, WaitInvariantHolds, EndInvariantHolds, PTL DEF Spec

\* While somebody more urgent than the running thread is ready, the request to
\* reschedule stands or is about to be raised.
THEOREM PreemptionKeptHolds ==
  ASSUME Disciplined
  PROVE  Spec /\ []ReleasesFirst /\ []CancelsNoLockWaiter => []PreemptionKept
<1>1. Init => PreemptionKept
  BY DEF Init, PreemptionKept, Outranked
<1>2. /\ IInv /\ IInv' /\ WaitInv /\ EndInv /\ LendInv /\ PreemptionKept /\ [Next]_vars
      => PreemptionKept'
  BY PreemptionKeptStep DEF WaitInv, EndInv, LendInv
<1> QED
  BY <1>1, <1>2, InvariantHolds, WaitInvariantHolds, EndInvariantHolds, LendInvariantHolds,
     PTL DEF Spec

\* Guest code executes below a thread that is ready only while the request to
\* reschedule is pending: no wakeup, resumption, promotion or end of a loan,
\* and no callback in the middle of one, loses the request.
THEOREM PreemptionIsNotLost ==
  ASSUME Disciplined
  PROVE  Spec /\ []ReleasesFirst /\ []CancelsNoLockWaiter => []PreemptionNotLost
<1>1. IInv /\ PreemptionKept => PreemptionNotLost
  <2> SUFFICES ASSUME IInv, PreemptionKept, InGuestCode,
                      NEW p \in links.pending, p < prio[exec]
               PROVE  resched
    BY DEF PreemptionNotLost
  <2>1. state[exec] = "running"
    BY GuestFacts DEF IInv
  <2>2. ~ RaisesRequest
    BY DEF InGuestCode, RaisesRequest, At
  <2> QED  BY <2>1, <2>2 DEF PreemptionKept, Outranked
<1> QED  BY <1>1, InvariantHolds, PreemptionKeptHolds, PTL

-----------------------------------------------------------------------------
(* Chains that soon call the scheduler.                                    *)

LEMMA SoonBelow ==
  ASSUME NEW s \in Seq(Frame), s # << >>, NEW request,
         SelectsSoon(s, request), ~ Selects(Head(s), request)
  PROVE  Head(s).op \in Quiet /\ SelectsSoon(Tail(s), request)
<1> DEFINE t == Tail(s)
<1>1. /\ t \in Seq(Frame) /\ Len(s) \in Nat \ {0} /\ Head(s) = s[1]
      /\ DOMAIN s = 1 .. Len(s) /\ DOMAIN t = 1 .. Len(s) - 1
      /\ \A i \in 1 .. Len(s) - 1 : t[i] = s[i + 1]
  <2>1. << >> \in Seq(Frame)
    OBVIOUS
  <2> QED  BY <2>1, ReplaceFacts
<1> HIDE DEF t
<1>2. PICK i \in DOMAIN s :
        Selects(s[i], request) /\ \A j \in DOMAIN s : j < i => s[j].op \in Quiet
  BY DEF SelectsSoon
<1>3. i # 1 /\ 1 \in DOMAIN s /\ 1 < i
  BY <1>1, <1>2
<1>4. Head(s).op \in Quiet
  BY <1>1, <1>2, <1>3
<1>5. i - 1 \in DOMAIN t /\ t[i - 1] = s[i]
  BY <1>1, <1>3
<1>6. ASSUME NEW j \in DOMAIN t, j < i - 1
      PROVE  t[j].op \in Quiet
  <2>1. j + 1 \in DOMAIN s /\ j + 1 < i /\ t[j] = s[j + 1]
    BY <1>1, <1>6
  <2> QED  BY <1>2, <2>1
<1>7. SelectsSoon(t, request)
  BY <1>2, <1>5, <1>6 DEF SelectsSoon
<1> QED  BY <1>4, <1>7 DEF t

\* A chain soon calls the scheduler when its new frames do, or when they are
\* quiet and the frames below do.
LEMMA SoonReplace ==
  ASSUME NEW s \in Seq(Frame), s # << >>, NEW g \in Seq(Frame), NEW request,
         \/ SelectsSoon(g, request)
         \/ SelectsSoon(Tail(s), request) /\ \A i \in DOMAIN g : g[i].op \in Quiet
  PROVE  SelectsSoon(g \o Tail(s), request)
<1> DEFINE r == g \o Tail(s)
           t == Tail(s)
<1>1. /\ r \in Seq(Frame)
      /\ Len(s) \in Nat \ {0} /\ Len(g) \in Nat /\ DOMAIN r = 1 .. Len(g) + Len(s) - 1
      /\ DOMAIN g = 1 .. Len(g) /\ DOMAIN t = 1 .. Len(s) - 1
      /\ \A i \in 1 .. Len(g) : r[i] = g[i]
      /\ \A i \in 1 .. Len(s) - 1 : r[Len(g) + i] = t[i]
  BY ReplaceFacts
<1>2. \/ SelectsSoon(g, request)
      \/ SelectsSoon(t, request) /\ \A i \in DOMAIN g : g[i].op \in Quiet
  OBVIOUS
<1> HIDE DEF r, t
<1>3. CASE SelectsSoon(g, request)
  <2>1. PICK i \in DOMAIN g : /\ Selects(g[i], request)
                              /\ \A j \in DOMAIN g : j < i => g[j].op \in Quiet
    BY <1>3 DEF SelectsSoon
  <2>2. i \in DOMAIN r /\ r[i] = g[i]
    BY <1>1
  <2>3. ASSUME NEW j \in DOMAIN r, j < i
        PROVE  r[j].op \in Quiet
    <3>1. j \in DOMAIN g /\ r[j] = g[j]
      BY <1>1, <2>3
    <3> QED  BY <2>1, <2>3, <3>1
  <2>4. SelectsSoon(r, request)
    BY <2>1, <2>2, <2>3 DEF SelectsSoon
  <2> QED  BY <2>4 DEF r
<1>4. CASE SelectsSoon(t, request) /\ \A i \in DOMAIN g : g[i].op \in Quiet
  <2>1. PICK i \in DOMAIN t : /\ Selects(t[i], request)
                              /\ \A j \in DOMAIN t : j < i => t[j].op \in Quiet
    BY <1>4 DEF SelectsSoon
  <2>2. Len(g) + i \in DOMAIN r /\ r[Len(g) + i] = t[i]
    BY <1>1
  <2>3. ASSUME NEW j \in DOMAIN r, j < Len(g) + i
        PROVE  r[j].op \in Quiet
    <3>1. CASE j \in 1 .. Len(g)
      BY <1>1, <1>4, <3>1
    <3>2. ASSUME NEW k \in 1 .. Len(s) - 1, j = Len(g) + k
          PROVE  r[j].op \in Quiet
      <4>1. k \in DOMAIN t /\ k < i /\ r[j] = t[k]
        BY <1>1, <2>3, <3>2
      <4> QED  BY <2>1, <4>1
    <3>3. j \in 1 .. Len(g) \/ \E k \in 1 .. Len(s) - 1 : j = Len(g) + k
      <4>1. Len(g) \in Nat /\ Len(s) - 1 \in Nat /\ j \in 1 .. Len(g) + (Len(s) - 1)
        BY <1>1
      <4> QED  BY <4>1, PlaceFacts
    <3> QED  BY <3>1, <3>2, <3>3
  <2>4. SelectsSoon(r, request)
    BY <2>1, <2>2, <2>3 DEF SelectsSoon
  <2> QED  BY <2>4 DEF r
<1> QED  BY <1>2, <1>3, <1>4

\* The chains that the actions push.
LEMMA SoonFrames ==
  ASSUME NEW request, NEW f1, Selects(f1, request)
  PROVE  /\ SelectsSoon(<< f1 >>, request)
         /\ \A f2 : f2.op \in Quiet => SelectsSoon(<< f2, f1 >>, request)
         /\ \A f2, f3 : f2.op \in Quiet /\ f3.op \in Quiet =>
                          SelectsSoon(<< f2, f3, f1 >>, request)
BY DEF SelectsSoon

LEMMA SelectsFacts ==
  /\ \A request : /\ Selects(Call("SelectThread", Null), request)
                   /\ Selects(Call("Select", Null), request)
                   /\ \A q : Selects(Call("WakeupLinked", q), request)
  /\ \A request : request => Selects(Call("Reschedule", Null), request)
BY DEF Selects, Leaves, Call

LEMMA SoonAfter ==
  ASSUME IInv, stack[exec] # << >>, exec' = exec, NEW g \in Seq(Frame), Continue(g), resched',
         \/ SelectsSoon(g, TRUE)
         \/ /\ SelectsSoon(Tail(stack[exec]), TRUE) \/ SelectsSoon(Tail(stack[exec]), resched)
            /\ \A i \in DOMAIN g : g[i].op \in Quiet
  PROVE  SelectsSoon(stack'[exec'], resched')
<1>1. stack \in [Thread -> Seq(Frame)] /\ exec \in Thread /\ stack[exec] \in Seq(Frame)
  BY ChainNow
<1>2. stack'[exec'] = g \o Tail(stack[exec])
  BY <1>1, ContinueFacts DEF Replaces
<1>3. SelectsSoon(Tail(stack[exec]), resched) => SelectsSoon(Tail(stack[exec]), TRUE)
  BY DEF SelectsSoon, Selects, Leaves
<1>4. SelectsSoon(g \o Tail(stack[exec]), TRUE)
  BY <1>1, <1>3, SoonReplace
<1>5. SelectsSoon(stack'[exec'], TRUE) => SelectsSoon(stack'[exec'], resched')
  BY DEF SelectsSoon, Selects, Leaves
<1> QED  BY <1>2, <1>4, <1>5

\* What an action of the quiet frames puts in the place of its own.
LEMMA QuietSteps ==
  ASSUME IInv, Next, At(Quiet \ {"Select", "SelectThread", "WakeupLinked"})
  PROVE  \/ stack' = stack
         \/ \E g \in Seq(Frame) : Continue(g) /\ \A i \in DOMAIN g : g[i].op \in Quiet
<1> DEFINE QuietStep == \E g \in Seq(Frame) : Continue(g) /\ \A i \in DOMAIN g : g[i].op \in Quiet
<1>1. /\ Arg = Head(stack[exec]).arg /\ Head(stack[exec]) \in Frame
      /\ Head(stack[exec]).op \in Quiet \ {"Select", "SelectThread", "WakeupLinked"}
  BY TopFacts DEF Arg
<1>2. /\ Return => QuietStep
      /\ \A f1 \in Frame : f1.op \in Quiet /\ Continue(<< f1 >>) => QuietStep
      /\ \A f1, f2 \in Frame : f1.op \in Quiet /\ f2.op \in Quiet /\ Continue(<< f1, f2 >>) =>
           QuietStep
  <2>1. Return => QuietStep
    <3>1. << >> \in Seq(Frame) /\ DOMAIN << >> = {}
      BY FramesFacts
    <3> QED  BY <3>1 DEF Return
  <2>2. ASSUME NEW f1 \in Frame, f1.op \in Quiet, Continue(<< f1 >>)
        PROVE  QuietStep
    <3>1. << f1 >> \in Seq(Frame) /\ \A i \in DOMAIN << f1 >> : << f1 >>[i] = f1
      BY FramesFacts
    <3> DEFINE g == << f1 >>
    <3> HIDE DEF g
    <3>2. g \in Seq(Frame) /\ Continue(g) /\ \A i \in DOMAIN g : g[i].op \in Quiet
      BY <2>2, <3>1 DEF g
    <3> QED  BY <3>2
  <2>3. ASSUME NEW f1 \in Frame, NEW f2 \in Frame, f1.op \in Quiet, f2.op \in Quiet,
               Continue(<< f1, f2 >>)
        PROVE  QuietStep
    <3>1. << f1, f2 >> \in Seq(Frame) /\ \A i \in DOMAIN << f1, f2 >> : << f1, f2 >>[i] \in {f1, f2}
      BY FramesFacts
    <3> DEFINE g == << f1, f2 >>
    <3> HIDE DEF g
    <3>2. g \in Seq(Frame) /\ Continue(g) /\ \A i \in DOMAIN g : g[i].op \in Quiet
      BY <2>3, <3>1 DEF g
    <3> QED  BY <3>2
  <2> QED  BY <2>1, <2>2, <2>3
<1> SUFFICES stack' = stack \/ QuietStep
  OBVIOUS
<1> HIDE DEF QuietStep
<1>3. /\ \A op \in {"Propagate", "SelectThread", "Reschedule", "OSResumeThread",
                    "OSWakeupThread", "WakeupLinked", "UnlockAll"} :
           \A x : Call(op, x).op \in Quiet
      /\ Call("Reschedule", Null) \in Frame /\ Call("SelectThread", Null) \in Frame
      /\ \A x \in Thread \cup {Null} : Call("Propagate", x) \in Frame
  BY FramesFacts, FrameFacts DEF Quiet
<1>4. owner \in [Mutex -> Thread \cup {Null}] /\ blockedOn \in [Thread -> Mutex \cup {Null}]
  BY DEF IInv, TypeOK
<1>5. \A t \in Thread : OwnerOf(blockedOn[t]) \in Thread \cup {Null}
                        /\ NextInChain(t) \in Thread \cup {Null}
  BY <1>4 DEF OwnerOf, NextInChain
<1>6. CASE SleepTimerDue
  <2>1. Arg \in Thread
    BY <1>1, <1>6, ArgFacts DEF SleepTimerDue, At
  <2>2. Call("OSResumeThread", Arg) \in Frame
    BY <2>1, FrameFacts DEF ThreadCall
  <2> QED  BY <1>2, <1>3, <1>6, <2>2 DEF SleepTimerDue, Return
<1>7. CASE Reconcile
  <2> DEFINE S == IF Deep THEN {}
                  ELSE {t \in outstanding \ timers : Parked(t)} \cap firstSeen
  <2>1. S \in SUBSET Thread /\ IsFiniteSet(Thread)
    BY ConstantTypes DEF ConstantTypes, IInv, TypeOK
  <2>2. Return \/ \E heal \in Orderings(S) : Continue(Each("OSResumeThread", heal))
    BY <1>7 DEF Reconcile
  <2> HIDE DEF S
  <2>3. ASSUME NEW heal \in Orderings(S), Continue(Each("OSResumeThread", heal))
        PROVE  QuietStep
    <3> DEFINE g == Each("OSResumeThread", heal)
    <3>1. heal \in Seq(Thread)
      BY <2>1, OrderingFacts
    <3>2. g \in Seq(Frame) /\ \A i \in DOMAIN g : g[i].op = "OSResumeThread"
      BY <3>1, EachFacts
    <3> HIDE DEF g
    <3>3. Continue(g)
      BY <2>3 DEF g
    <3> QED  BY <3>2, <3>3 DEF QuietStep, Quiet
  <2> QED  BY <1>2, <2>2, <2>3
<1>8. CASE OSResumeThread
  <2>1. Arg \in Thread
    BY <1>1, <1>8, ArgFacts DEF OSResumeThread, At, ThreadCall
  <2> QED  BY <1>2, <1>3, <1>5, <1>8, <2>1 DEF OSResumeThread, Return
<1>9. CASE Propagate
  <2>1. Arg \in Thread \cup {Null}
    BY <1>1, <1>9, ArgFacts DEF Propagate, At
  <2> QED  BY <1>2, <1>3, <1>5, <1>9, <2>1 DEF Propagate
<1>10. CASE Reschedule
  BY <1>2, <1>3, <1>10 DEF Reschedule, Return
<1>11. CASE OSWakeupThread
  <2>1. Arg \in WaitQueueId
    BY <1>1, <1>11, ArgFacts DEF OSWakeupThread, At
  <2>2. Call("WakeupLinked", Arg) \in Frame
    BY <2>1, FrameFacts
  <2> QED  BY <1>2, <1>3, <1>11, <2>2 DEF OSWakeupThread
<1>12. CASE WakeupDone
  BY <1>2, <1>3, <1>12 DEF WakeupDone, Return
<1>13. CASE UnlockAll
  <2>1. Arg \in Thread /\ held \in [Thread -> Seq(Mutex)]
    BY <1>1, <1>13, ArgFacts DEF UnlockAll, At, IInv, TypeOK
  <2>2. held[Arg] # << >> => Head(held[Arg]) \in Mutex
    BY <2>1, HeadTailProperties
  <2>3. /\ Call("UnlockAll", Arg) \in Frame
        /\ held[Arg] # << >> => Call("OSWakeupThread", Head(held[Arg])) \in Frame
    BY <2>1, <2>2, FrameFacts, AddressFacts
  <2> QED  BY <1>2, <1>3, <1>13, <2>3 DEF UnlockAll
<1>14. /\ ~ (OSSleepThread \/ SleepReturn \/ OSSleepTicks \/ ParkReturn)
       /\ ~ (SelectThread \/ SelectReturns \/ SelectLeaves \/ Dispatch \/ IdleTimers \/ LeaveIdleLoop)
       /\ ~ (Promote \/ OSLockMutex \/ LockRetry \/ OSUnlockMutex)
       /\ ~ (OSCreateThread \/ OSSuspendThread \/ OSExitThread \/ ExitReschedule
             \/ OSCancelThread \/ OSJoinThread \/ JoinReturn \/ OSDetachThread)
       /\ ~ CallbackStep /\ ~ GuestCall
  BY <1>1
  DEF OSSleepThread, SleepReturn, OSSleepTicks, ParkReturn, SelectThread, SelectReturns,
      SelectLeaves, Dispatch, IdleTimers, LeaveIdleLoop, Idling, Promote, OSLockMutex, LockRetry,
      OSUnlockMutex, OSCreateThread, OSSuspendThread, OSExitThread, ExitReschedule,
      OSCancelThread, OSJoinThread, JoinReturn, OSDetachThread, CallbackStep, IdleCallback,
      IdleCallbackReturns, BeginCallback, EndCallback, GuestCall, InGuestCode, InCallback, At,
      Quiet
<1> QED
  BY <1>6, <1>7, <1>8, <1>9, <1>10, <1>11, <1>12, <1>13, <1>14, NobodyReturns
  DEF Next, HleStep, SleepStep, SchedulerStep, MutexStep, LifeStep, QuietStep

-----------------------------------------------------------------------------
(* Without callbacks, the most urgent thread executes.                     *)

LEMMA NoCallbacksStep ==
  ASSUME IInv, IInv', NoCallbacks, CallbackCalls = {}, [Next]_vars
  PROVE  NoCallbacks'
<1>1. ASSUME NEW f \in Frame, f.op \in Callbacks, NEW u \in Thread
      PROVE  f \notin ToSet(stack'[u])
  <2>1. f \in Followed
    BY <1>1 DEF Followed
  <2>2. \A v \in Thread : f \notin ToSet(stack[v])
    BY <1>1 DEF NoCallbacks, Has, ToSet, Callbacks
  <2>3. stack \in [Thread -> Seq(Frame)] /\ exec \in Thread /\ stack[exec] \in Seq(Frame)
    BY ChainNow
  <2>4. ~ At(Callbacks)
    BY <1>1, <2>3, BelowTop DEF NoCallbacks, At, Callbacks
  <2>5. ~ CallbackStep /\ (GuestCall => InGuestCode)
    BY <2>4 DEF CallbackStep, IdleCallback, IdleCallbackReturns, BeginCallback, EndCallback,
                GuestCall, InCallback, At, Callbacks
  <2>6. AddsNo(f) \/ UNCHANGED vars
    BY <1>1, <2>1, <2>5, FollowedSteps DEF Callbacks, Wakeups
  <2>7. CASE UNCHANGED vars
    BY <2>2, <2>7 DEF vars, fiberVars
  <2>8. CASE AddsNo(f)
    <3>1. stack[exec] # << >> => ToSet(Tail(stack[exec])) \subseteq ToSet(stack[exec])
      BY <2>3, ChainSets
    <3>2. ToSet(<< >>) = {}
      BY DEF ToSet
    <3> QED  BY <2>2, <2>3, <2>8, <3>1, <3>2 DEF AddsNo
  <2> QED  BY <2>6, <2>7, <2>8
<1>2. stack' \in [Thread -> Seq(Frame)]
  BY DEF IInv, TypeOK
<1>3. ASSUME NEW u \in Thread, NEW i \in DOMAIN stack'[u]
      PROVE  stack'[u][i] \in Frame /\ stack'[u][i] \in ToSet(stack'[u])
  BY <1>2 DEF ToSet
<1> QED  BY <1>1, <1>3 DEF NoCallbacks, Has, Callbacks

LEMMA PropagateNextStep ==
  ASSUME IInv, IInv', PropagateNext, [Next]_vars
  PROVE  PropagateNext'
<1>1. /\ stack \in [Thread -> Seq(Frame)] /\ exec \in Thread /\ stack[exec] \in Seq(Frame)
      /\ stack' \in [Thread -> Seq(Frame)] /\ exec' \in Thread /\ stack'[exec'] \in Seq(Frame)
  BY ChainNow DEF IInv, TypeOK
<1>2. ASSUME NEW f, f.op = "Propagate"
      PROVE  NextOnly(f)
  BY <1>2, HasSets DEF PropagateNext, NextOnly
<1>3. CASE UNCHANGED vars
  BY <1>3 DEF PropagateNext, At, vars, fiberVars
<1>4. ASSUME \A f \in Frame : f.op = "Propagate" => AddsNo(f)
      PROVE  PropagateNext'
  <2>1. ASSUME NEW f \in Frame, f.op = "Propagate"
        PROVE  \A u \in Thread : f \notin ToSet(stack'[u])
    BY <1>2, <1>4, <2>1, NobodyNext
  <2>2. ASSUME NEW u \in Thread
        PROVE  ~ Has(stack'[u], {"Propagate"})
    <3>1. ToSet(stack'[u]) \subseteq Frame
      BY <1>1 DEF ToSet
    <3> QED  BY <2>1, <3>1, HasSets
  <2>3. stack'[exec'] # << >> => /\ ~ Has(Tail(stack'[exec']), {"Propagate"})
                                 /\ Head(stack'[exec']).op # "Propagate"
    <3> SUFFICES ASSUME stack'[exec'] # << >>
                 PROVE  /\ ~ Has(Tail(stack'[exec']), {"Propagate"})
                        /\ Head(stack'[exec']).op # "Propagate"
      OBVIOUS
    <3>1. ToSet(stack'[exec']) = {Head(stack'[exec'])} \cup ToSet(Tail(stack'[exec']))
      BY <1>1, ChainSets
    <3>2. \A f \in ToSet(stack'[exec']) : f.op # "Propagate"
      BY <1>1, <2>2, HasSets
    <3> QED  BY <3>1, <3>2, HasSets
  <2> QED  BY <2>2, <2>3 DEF PropagateNext, At
<1>5. CASE Propagate \/ OSSuspendThread \/ OSResumeThread
  <2>1. /\ At({"Propagate", "OSSuspendThread", "OSResumeThread"}) /\ stack[exec] # << >>
        /\ exec' = exec
    BY <1>5 DEF Propagate, OSSuspendThread, OSResumeThread, At
  <2> DEFINE r == Call("Reschedule", Null)
  <2>2. r \in Frame /\ r.op = "Reschedule"
    BY FrameFacts, FramesFacts
  <2>3. \/ Return
        \/ Continue(<< r >>)
        \/ \E x \in Thread \cup {Null} : Continue(<< Call("Propagate", x), r >>)
        \/ At({"Propagate"}) /\ \E x \in Thread \cup {Null} : Continue(<< Call("Propagate", x) >>)
    <3>1. owner \in [Mutex -> Thread \cup {Null}] /\ blockedOn \in [Thread -> Mutex \cup {Null}]
      BY DEF IInv, TypeOK
    <3>2. \A t \in Thread : OwnerOf(blockedOn[t]) \in Thread \cup {Null}
                            /\ NextInChain(t) \in Thread \cup {Null}
      BY <3>1 DEF OwnerOf, NextInChain
    <3>3. Arg \in Thread \cup {Null} /\ (~ At({"Propagate"}) => Arg \in Thread)
      BY <2>1, TopFacts, ArgFacts DEF Arg, At, ThreadCall
    <3>4. Propagate => \/ Return
                       \/ At({"Propagate"}) /\ Arg # Null
                          /\ Continue(<< Call("Propagate", NextInChain(Arg)) >>)
      BY DEF Propagate
    <3>5. CASE Propagate
      BY <3>2, <3>3, <3>4, <3>5
    <3>6. CASE OSSuspendThread \/ OSResumeThread
      <4>1. ~ At({"Propagate"})
        BY <3>6 DEF OSSuspendThread, OSResumeThread, At
      <4>2. Return \/ Continue(<< r >>) \/ Continue(<< Call("Propagate", OwnerOf(blockedOn[Arg])), r >>)
        BY <3>6 DEF OSSuspendThread, OSResumeThread, Return
      <4> QED  BY <3>2, <3>3, <4>1, <4>2
    <3> QED  BY <1>5, <3>5, <3>6
  <2> HIDE DEF r
  <2>4. CASE Return \/ Continue(<< r >>)
    BY <1>4, <2>1, <2>2, <2>4, ReturnAddsNo
  <2>5. /\ Tail(stack[exec]) \in Seq(Frame) /\ ~ Has(Tail(stack[exec]), {"Propagate"})
        /\ \A u \in Thread \ {exec} : ~ Has(stack[u], {"Propagate"})
        /\ \A x : Call("Propagate", x).op = "Propagate"
        /\ \A x \in Thread \cup {Null} : Call("Propagate", x) \in Frame
    BY <1>1, <2>1, HeadTailProperties, FrameFacts, FramesFacts DEF PropagateNext
  <2>6. ASSUME NEW g \in Seq(Frame), Continue(g)
        PROVE  \A u \in Thread \ {exec} : stack'[u] = stack[u]
    BY <2>1, <2>6, ContinueSets
  <2>7. ASSUME NEW x \in Thread \cup {Null}, Continue(<< Call("Propagate", x), r >>)
        PROVE  PropagateNext'
    <3>1. << Call("Propagate", x), r >> \in Seq(Frame)
      BY <2>2, <2>5, FramesFacts
    <3>2. Tail(stack'[exec']) = << r >> \o Tail(stack[exec])
      BY <2>1, <2>2, <2>5, <2>7, NextFrame
    <3>3. /\ Tail(stack'[exec']) # << >> /\ Head(Tail(stack'[exec'])) = r
          /\ ~ Has(Tail(stack'[exec']), {"Propagate"})
      BY <2>2, <2>5, <3>2, OnTopFacts
    <3> QED  BY <2>1, <2>2, <2>5, <2>6, <2>7, <3>1, <3>3 DEF PropagateNext
  <2>8. ASSUME NEW x \in Thread \cup {Null}, At({"Propagate"}), Continue(<< Call("Propagate", x) >>)
        PROVE  PropagateNext'
    <3>1. << Call("Propagate", x) >> \in Seq(Frame)
      BY <2>5, FramesFacts
    <3>2. Tail(stack'[exec']) = Tail(stack[exec])
      BY <2>1, <2>5, <2>8, NextFrame
    <3>3. Tail(stack[exec]) # << >> /\ Head(Tail(stack[exec])).op = "Reschedule"
      BY <2>8 DEF PropagateNext
    <3> QED  BY <2>1, <2>5, <2>6, <2>8, <3>1, <3>2, <3>3 DEF PropagateNext
  <2> QED  BY <2>3, <2>4, <2>7, <2>8
<1>6. ASSUME NEW f \in Frame, f.op = "Propagate"
      PROVE  AddsNo(f) \/ UNCHANGED vars \/ Propagate \/ OSSuspendThread \/ OSResumeThread
  <2>1. f \in Followed
    BY <1>6 DEF Followed
  <2> QED  BY <1>6, <2>1, FollowedSteps DEF Callbacks, Wakeups
<1> QED  BY <1>3, <1>4, <1>5, <1>6

LEMMA SelectingSteps ==
  ASSUME IInv, Next, At({"SelectThread", "Select", "ExitReschedule", "Reschedule"})
  PROVE  SelectThread \/ SelectReturns \/ SelectLeaves \/ ExitReschedule \/ Reschedule
<1>1. ~ SleepStep
  BY DEF SleepStep, OSSleepThread, SleepReturn, OSSleepTicks, ParkReturn, SleepTimerDue,
         Reconcile, At
<1>2. ~ (Dispatch \/ IdleTimers \/ LeaveIdleLoop \/ OSWakeupThread \/ WakeupDone)
  BY DEF Dispatch, IdleTimers, LeaveIdleLoop, Idling, OSWakeupThread, WakeupDone, At
<1>3. ~ MutexStep
  BY DEF MutexStep, Promote, Propagate, OSLockMutex, LockRetry, OSUnlockMutex, UnlockAll, At
<1>4. LifeStep => ExitReschedule
  BY NobodyReturns
  DEF LifeStep, OSCreateThread, OSSuspendThread, OSResumeThread, OSExitThread,
      OSCancelThread, OSJoinThread, JoinReturn, OSDetachThread, At
<1>5. ~ CallbackStep /\ ~ GuestCall
  BY DEF CallbackStep, IdleCallback, IdleCallbackReturns, BeginCallback, EndCallback,
         GuestCall, InGuestCode, InCallback, Idling, At
<1> QED  BY <1>1, <1>2, <1>3, <1>4, <1>5 DEF Next, HleStep, SchedulerStep

\* The steps of a thread that is outranked already go on towards the scheduler.
LEMMA OutrankedGoesOn ==
  ASSUME IInv, IInv', NoCallbacks, HighestKept, Next, ~ UNCHANGED vars, Outranked,
         Outranked', resched'
  PROVE  SelectsSoon(stack'[exec'], resched')
<1>1. /\ ~ Dispatch /\ exec' = exec /\ state[exec] = "running" /\ state'[exec] = "running"
      /\ running = exec /\ current = exec /\ ~ Has(stack[exec], {"IdleLoop", "Dispatch"})
  BY OutrankedBefore
<1>2. stack[exec] \in Seq(Frame) /\ exec \in Thread
  BY ChainNow
<1>3. stack[exec] # << >>
  BY DEF HighestKept, RaisesRequest, At, SelectsSoon
<1>4. ASSUME NEW f \in Frame, Continue(<< f >>), Selects(f, TRUE)
      PROVE  SelectsSoon(stack'[exec'], resched')
  BY <1>1, <1>3, <1>4, FramesFacts, SoonFrames, SoonAfter
<1>5. /\ Call("SelectThread", Null) \in Frame /\ Selects(Call("SelectThread", Null), TRUE)
      /\ Call("Select", Null) \in Frame /\ Selects(Call("Select", Null), TRUE)
      /\ \A q \in WaitQueueId :
           Call("WakeupLinked", q) \in Frame /\ Selects(Call("WakeupLinked", q), TRUE)
  BY FrameFacts, SelectsFacts
<1>6. ~ SelectLeaves
  BY <1>1, <1>2 DEF SelectLeaves, IInv, TypeOK
<1>7. ~ SelectReturns
  <2> SUFFICES ASSUME SelectReturns
               PROVE  FALSE
    OBVIOUS
  <2>1. disable = 0
    BY <1>2 DEF IInv, ControlInv, DisableCounts, NoCallbacks, Has
  <2>2. KeepsRunning /\ running = exec
    BY <1>1, <1>2, <2>1, AddressFacts DEF SelectReturns, SelectRefused
  <2>3. \A p \in links.pending : prio[exec] <= p
    BY <2>2 DEF KeepsRunning
  <2>4. PICK p \in links.pending : p < prio[exec]
    BY DEF Outranked
  <2>5. p \in Nat /\ prio[exec] \in Nat
    <3>1. p \in Priority
      BY DEF IInv, TypeOK
    <3> QED  BY <1>2, <3>1, PriorityFacts, LinkedFacts
  <2> QED  BY <2>3, <2>4, <2>5
<1>8. CASE At({"OSWakeupThread", "WakeupLinked"}) /\ (RaisesRequest \/ At({"WakeupLinked"}))
  <2>1. Arg \in WaitQueueId
    BY <1>8, TopFacts, ArgFacts DEF Arg
  <2>2. OSWakeupThread \/ WakeupDone \/ UNCHANGED vars
    BY <1>8, WakeupOnly
  <2>3. CASE Continue(<< Call("WakeupLinked", Arg) >>)
    BY <1>4, <1>5, <2>1, <2>3
  <2>4. CASE Continue(<< Call("SelectThread", Null) >>)
    BY <1>4, <1>5, <2>4
  <2>5. CASE stack' = stack /\ At({"WakeupLinked"})
    <3>1. Selects(Head(stack[exec]), resched')
      BY <2>5 DEF Selects, At
    <3>2. stack[exec][1] = Head(stack[exec]) /\ 1 \in DOMAIN stack[exec]
          /\ \A j \in DOMAIN stack[exec] : ~ (j < 1)
      BY <1>2, <1>3
    <3> QED  BY <1>1, <2>5, <3>1, <3>2 DEF SelectsSoon
  <2>7. CASE OSWakeupThread
    <3>1. Continue(<< Call("WakeupLinked", Arg) >>) \/ (stack' = stack /\ ~ RaisesRequest)
      BY <2>7 DEF OSWakeupThread, RaisesRequest
    <3> QED  BY <1>8, <2>3, <2>5, <3>1
  <2>8. CASE WakeupDone
    <3>1. At({"WakeupLinked"})
      BY <1>8, <2>8 DEF WakeupDone, RaisesRequest
    <3> QED  BY <2>4, <2>8, <3>1 DEF WakeupDone
  <2> QED  BY <2>2, <2>7, <2>8
<1>9. CASE SelectsSoon(stack[exec], resched) /\ Selects(Head(stack[exec]), resched)
  <2>1. At({"WakeupLinked", "SelectThread", "Select", "ExitReschedule", "Reschedule"})
        /\ (At({"Reschedule"}) => resched)
    <3>1. ~ At({"IdleLoop", "Dispatch"})
      <4>1. Has(stack[exec], {"IdleLoop", "Dispatch"}) <=>
              \/ Head(stack[exec]).op \in {"IdleLoop", "Dispatch"}
              \/ Has(Tail(stack[exec]), {"IdleLoop", "Dispatch"})
        BY <1>3, BelowTop
      <4> QED  BY <1>1, <4>1 DEF At
    <3> QED  BY <1>3, <1>9, <3>1 DEF Selects, Leaves, At
  <2>2. CASE SelectThread
    <3>1. At({"SelectThread"}) /\ Pump(Call("Select", Null))
      BY <2>1, <2>2 DEF SelectThread, At
    <3>2. PICK t \in Seq(Thread) :
            LET g == Each("SleepTimerDue", t) \o << Call("Reconcile", Null), Call("Select", Null) >>
            IN  /\ Continue(g)
                /\ \A i \in DOMAIN g : g[i].op \in Quiet \/ g[i] = Call("Select", Null)
                /\ \A request : Leaves(Call("Select", Null), request) => Leaving(g, request)
      BY <1>3, <1>5, <3>1, PumpStep
    <3> DEFINE g == Each("SleepTimerDue", t) \o << Call("Reconcile", Null), Call("Select", Null) >>
    <3>3. g \in Seq(Frame)
      BY <1>5, PumpFacts
    <3>4. Continue(g) /\ \A i \in DOMAIN g : g[i].op \in Quiet \/ g[i] = Call("Select", Null)
      BY <3>2
    <3>5. Leaving(g, TRUE)
      BY <3>2, LeavesFacts
    <3> HIDE DEF g
    <3>6. \A i \in DOMAIN g : g[i].op \in Quiet
      BY <3>4, FramesFacts DEF Quiet
    <3>7. SelectsSoon(g, TRUE)
      BY <3>5, <3>6 DEF SelectsSoon, Selects, Leaving
    <3> QED  BY <1>1, <1>3, <3>3, <3>4, <3>7, SoonAfter
  <2>3. CASE ExitReschedule \/ Reschedule
    <3>1. Continue(<< Call("SelectThread", Null) >>)
      BY <2>1, <2>3 DEF ExitReschedule, Reschedule, At
    <3> QED  BY <1>4, <1>5, <3>1
  <2> QED
    BY <1>6, <1>7, <1>8, <2>1, <2>2, <2>3, SelectingSteps DEF At
<1>10. CASE SelectsSoon(stack[exec], resched) /\ ~ Selects(Head(stack[exec]), resched)
  <2>1. Head(stack[exec]).op \in Quiet /\ SelectsSoon(Tail(stack[exec]), resched)
    BY <1>2, <1>3, <1>10, SoonBelow
  <2>2. At(Quiet \ {"Select", "SelectThread", "WakeupLinked"})
    BY <1>3, <1>10, <2>1 DEF At, Selects, Leaves
  <2>3. CASE stack' = stack
    <3>1. SelectsSoon(stack[exec], resched')
      BY <1>10 DEF SelectsSoon, Selects, Leaves
    <3> QED  BY <1>1, <2>3, <3>1
  <2>4. ASSUME NEW g \in Seq(Frame), Continue(g), \A i \in DOMAIN g : g[i].op \in Quiet
        PROVE  SelectsSoon(stack'[exec'], resched')
    BY <1>1, <1>3, <2>1, <2>4, SoonAfter
  <2> QED  BY <2>2, <2>3, <2>4, QuietSteps
<1> QED
  BY <1>8, <1>9, <1>10 DEF HighestKept, RaisesRequest, At

\* A step that makes somebody more urgent ready, or the running thread less
\* urgent, leads to the scheduler.
LEMMA OutrankingStep ==
  ASSUME IInv, IInv', WaitQueuesSorted, DecidingNext, OwnershipAgrees, SuspendedLast,
         AllJustified, PropagateNext, Next, ~ Outranked, Outranked', resched', ~ RaisesRequest',
         CallbackCalls = {}
  PROVE  SelectsSoon(stack'[exec'], resched')
<1>1. /\ ~ Dispatch /\ exec' = exec /\ state[exec] = "running" /\ state'[exec] = "running"
      /\ running = exec /\ current = exec
  BY OutrankedBefore
<1>2. /\ stack[exec] \in Seq(Frame) /\ exec \in Thread /\ prio \in [Thread -> Nat]
      /\ state \in [Thread -> {"none", "ready", "running", "waiting", "moribund"}]
      /\ state' \in [Thread -> {"none", "ready", "running", "waiting", "moribund"}]
  BY ChainNow, LinkedFacts DEF IInv, TypeOK
<1>3. PICK p \in links'.pending : p < prio'[exec]
  BY <1>1 DEF Outranked
<1>4. p \in Nat /\ prio[exec] \in Nat /\ prio'[exec] \in Nat
  <2>1. p \in Priority
    BY <1>3 DEF IInv, TypeOK
  <2>2. prio'[exec] \in Priority \cup {SuspendedWaitPriority}
    BY <1>2 DEF IInv, TypeOK
  <2> QED  BY <1>2, <2>1, <2>2, PriorityFacts
<1>5. ~ (links'.pending \subseteq links.pending /\ prio'[exec] = prio[exec])
  BY <1>1, <1>3 DEF Outranked
<1>6. ASSUME NEW f \in Frame, stack[exec] # << >>, Selects(f, TRUE),
             \/ Continue(<< f >>)
             \/ \E f2 \in Frame : f2.op \in Quiet /\ Continue(<< f2, f >>)
             \/ \E f2, f3 \in Frame : f2.op \in Quiet /\ f3.op \in Quiet /\ Continue(<< f2, f3, f >>)
      PROVE  SelectsSoon(stack'[exec'], resched')
  <2>1. CASE Continue(<< f >>)
    BY <1>1, <1>6, <2>1, FramesFacts, SoonFrames, SoonAfter
  <2>2. ASSUME NEW f2 \in Frame, f2.op \in Quiet, Continue(<< f2, f >>)
        PROVE  SelectsSoon(stack'[exec'], resched')
    BY <1>1, <1>6, <2>2, FramesFacts, SoonFrames, SoonAfter
  <2>3. ASSUME NEW f2 \in Frame, NEW f3 \in Frame, f2.op \in Quiet, f3.op \in Quiet,
               Continue(<< f2, f3, f >>)
        PROVE  SelectsSoon(stack'[exec'], resched')
    BY <1>1, <1>6, <2>3, FramesFacts, SoonFrames, SoonAfter
  <2> QED  BY <1>6, <2>1, <2>2, <2>3
<1>7. /\ Call("Reschedule", Null) \in Frame /\ Selects(Call("Reschedule", Null), TRUE)
      /\ \A q \in WaitQueueId :
           Call("WakeupLinked", q) \in Frame /\ Selects(Call("WakeupLinked", q), TRUE)
  BY FrameFacts, SelectsFacts
<1>8. /\ \A op \in {"Propagate", "UnlockAll", "OSWakeupThread"} : \A x : Call(op, x).op \in Quiet
      /\ \A x \in Thread \cup {Null} : Call("Propagate", x) \in Frame
      /\ \A x \in Thread : Call("UnlockAll", x) \in Frame /\ Call("OSWakeupThread", x) \in Frame
  BY FramesFacts, FrameFacts, AddressFacts DEF Quiet
<1>9. CASE OSWakeupThread
  <2>1. Arg \in WaitQueueId /\ stack[exec] # << >>
    BY <1>9, TopFacts, ArgFacts DEF OSWakeupThread, At, Arg
  <2>2. links'.pending = links.pending \/ Continue(<< Call("WakeupLinked", Arg) >>)
    <3>1. CASE Wakeable(Head(links.queue[Arg]))
      BY <1>9, <3>1 DEF OSWakeupThread
    <3>2. CASE ~ Wakeable(Head(links.queue[Arg]))
      <4>1. \/ links' = PopHead(links, Arg)
            \/ links' = ClearPointer(PopHead(links, Arg), Head(links.queue[Arg]))
        BY <1>9, <3>2 DEF OSWakeupThread
      <4> QED  BY <4>1 DEF ClearPointer, PopHead
    <3> QED  BY <3>1, <3>2
  <2>3. prio' = prio
    BY <1>9 DEF OSWakeupThread
  <2> QED  BY <1>5, <1>6, <1>7, <2>1, <2>2, <2>3
<1>10. CASE Propagate
  <2>1. At({"Propagate"}) /\ stack[exec] # << >>
    BY <1>10 DEF Propagate, At
  <2>2. Tail(stack[exec]) # << >> /\ Head(Tail(stack[exec])).op = "Reschedule"
        /\ Tail(stack[exec]) \in Seq(Frame)
    BY <1>2, <2>1, HeadTailProperties DEF PropagateNext
  <2>3. SelectsSoon(Tail(stack[exec]), TRUE)
    <3>1. /\ 1 \in DOMAIN Tail(stack[exec]) /\ Tail(stack[exec])[1] = Head(Tail(stack[exec]))
          /\ \A j \in DOMAIN Tail(stack[exec]) : ~ (j < 1)
      BY <2>2
    <3> QED  BY <2>2, <3>1 DEF SelectsSoon, Selects, Leaves
  <2>4. Arg \in Thread \cup {Null}
    BY <2>1, TopFacts, ArgFacts DEF Arg
  <2>5. NextInChain(Arg) \in Thread \cup {Null} \/ Arg = Null
    <3>1. owner \in [Mutex -> Thread \cup {Null}] /\ blockedOn \in [Thread -> Mutex \cup {Null}]
      BY DEF IInv, TypeOK
    <3> QED  BY <2>4, <3>1 DEF NextInChain, OwnerOf
  <2>6. Return \/ \E x \in Thread \cup {Null} : Continue(<< Call("Propagate", x) >>)
    BY <1>10, <2>5 DEF Propagate
  <2>7. CASE Return
    <3>1. << >> \in Seq(Frame) /\ DOMAIN << >> = {}
      BY FramesFacts
    <3> QED  BY <1>1, <2>1, <2>3, <2>7, <3>1, SoonAfter DEF Return
  <2>8. ASSUME NEW x \in Thread \cup {Null}, Continue(<< Call("Propagate", x) >>)
        PROVE  SelectsSoon(stack'[exec'], resched')
    <3> DEFINE g == << Call("Propagate", x) >>
    <3>1. g \in Seq(Frame) /\ \A i \in DOMAIN g : g[i].op \in Quiet
      BY <1>8, FramesFacts
    <3>2. Continue(g)
      BY <2>8
    <3> HIDE DEF g
    <3> QED  BY <1>1, <2>1, <2>3, <3>1, <3>2, SoonAfter
  <2> QED  BY <2>6, <2>7, <2>8
<1>11. CASE OSSuspendThread \/ OSResumeThread
  <2>1. At({"OSSuspendThread", "OSResumeThread"}) /\ stack[exec] # << >>
    BY <1>11 DEF OSSuspendThread, OSResumeThread, At
  <2>2. Arg \in Thread
    BY <2>1, TopFacts, ArgFacts DEF Arg, ThreadCall
  <2>3. OwnerOf(blockedOn[Arg]) \in Thread \cup {Null}
    <3>1. owner \in [Mutex -> Thread \cup {Null}] /\ blockedOn \in [Thread -> Mutex \cup {Null}]
      BY DEF IInv, TypeOK
    <3> QED  BY <2>2, <3>1 DEF OwnerOf
  <2>4. \/ links' = links /\ prio' = prio
        \/ Continue(<< Call("Reschedule", Null) >>)
        \/ Continue(<< Call("Propagate", OwnerOf(blockedOn[Arg])), Call("Reschedule", Null) >>)
    <3>1. CASE OSSuspendThread
      <4>1. suspend[Arg] # 0 => links' = links /\ prio' = prio
        BY <3>1 DEF OSSuspendThread, OnRunQueue
      <4>2. suspend[Arg] = 0 =>
              \/ Continue(<< Call("Reschedule", Null) >>)
              \/ Continue(<< Call("Propagate", OwnerOf(blockedOn[Arg])), Call("Reschedule", Null) >>)
        BY <3>1 DEF OSSuspendThread
      <4> QED  BY <4>1, <4>2
    <3>2. CASE OSResumeThread
      <4>1. suspend[Arg] # 1 => links' = links /\ prio' = prio
        BY <3>2 DEF OSResumeThread
      <4>2. suspend[Arg] = 1 =>
              \/ Continue(<< Call("Reschedule", Null) >>)
              \/ Continue(<< Call("Propagate", OwnerOf(blockedOn[Arg])), Call("Reschedule", Null) >>)
        BY <3>2 DEF OSResumeThread
      <4> QED  BY <4>1, <4>2
    <3> QED  BY <1>11, <3>1, <3>2
  <2> QED  BY <1>5, <1>6, <1>7, <1>8, <2>1, <2>3, <2>4
<1>12. CASE OSExitThread \/ OSCancelThread
  <2>1. stack[exec] # << >>
    BY <1>12 DEF OSExitThread, OSCancelThread, At
  <2>2. ~ OSExitThread
    <3> SUFFICES ASSUME OSExitThread
                 PROVE  FALSE
      OBVIOUS
    <3>1. Terminate(exec, Call("ExitReschedule", Null))
      BY <1>1, <1>2, AddressFacts DEF OSExitThread
    <3> QED  BY <1>1, <1>2, <3>1 DEF Terminate
  <2>3. Arg \in Thread
    BY <1>12, <2>2, TopFacts, ArgFacts DEF OSCancelThread, Arg, ThreadCall
  <2>4. Terminate(Arg, Call("Reschedule", Null))
    <3>1. prio' = prio
      BY <1>12, <2>2 DEF OSCancelThread
    <3>2. Dead(Arg) => links' = links
      BY <1>12, <2>2 DEF OSCancelThread
    <3>3. ~ Dead(Arg)
      BY <1>5, <3>1, <3>2
    <3> QED  BY <1>12, <2>2, <3>3 DEF OSCancelThread
  <2> DEFINE g == LastRites(Arg, Call("Reschedule", Null))
  <2>5. stack'[exec] = g \o Tail(stack[exec])
    BY <1>2, <2>4 DEF Terminate
  <2>6. g \in Seq(Frame)
    BY <1>7, <1>8, <2>3, FramesFacts DEF LastRites
  <2>7. SelectsSoon(g, TRUE)
    BY <1>7, <1>8, SoonFrames DEF LastRites
  <2> HIDE DEF g
  <2>8. SelectsSoon(stack'[exec], TRUE)
    BY <1>2, <2>1, <2>5, <2>6, <2>7, SoonReplace
  <2> QED  BY <1>1, <2>8 DEF SelectsSoon, Selects, Leaves
<1>13. ~ Promote
  <2> SUFFICES ASSUME Promote
               PROVE  FALSE
    OBVIOUS
  <2>1. Arg \in Thread \cup {Null}
    BY TopFacts, ArgFacts DEF Promote, Arg
  <2>2. ~ UNCHANGED << prio, links >>
    BY <1>5
  <2>3. Arg \in Thread /\ SetPriority(Arg, prio[exec]) /\ ~ (prio[Arg] <= prio[exec])
    BY <2>1, <2>2 DEF Promote
  <2>4. Arg # exec
    BY <1>4, <2>3
  <2>5. prio'[exec] = prio[exec]
    BY <1>2, <2>3, <2>4, SetPriorityOnly
  <2>6. links'.pending \subseteq links.pending \cup {prio[exec]}
    <3>1. CASE state[Arg] = "ready"
      <4>1. links' = InsertByPriority(Unlink(links, Arg), prio[exec], Arg, prio[exec], prio)
        BY <2>3, <3>1 DEF SetPriority
      <4>2. links'.pending \subseteq Unlink(links, Arg).pending \cup {prio[exec]}
        BY <4>1 DEF InsertByPriority
      <4> QED  BY <4>2, UnlinkPending
    <3>2. CASE state[Arg] = "waiting" /\ links.at[Arg] # Null
      <4>1. links' = InsertByPriority(Unlink(links, Arg), links.at[Arg], Arg, prio[exec], prio)
        BY <2>3, <3>2 DEF SetPriority
      <4>2. links.at[Arg] \notin Priority
        BY <2>3, <3>2, LinkedFacts, AddressFacts
      <4>3. links'.pending = Unlink(links, Arg).pending
        BY <4>1, <4>2 DEF InsertByPriority
      <4> QED  BY <4>3, UnlinkPending
    <3>3. CASE state[Arg] # "ready" /\ ~ (state[Arg] = "waiting" /\ links.at[Arg] # Null)
      BY <2>3, <3>3 DEF SetPriority
    <3> QED  BY <3>1, <3>2, <3>3
  <2> QED  BY <1>1, <1>3, <1>4, <2>5, <2>6 DEF Outranked
<1>14. ~ OSUnlockMutex
  <2> SUFFICES ASSUME OSUnlockMutex
               PROVE  FALSE
    OBVIOUS
  <2>1. ~ (prio'[exec] > prio[exec])
    BY <1>1, UnlockRaises
  <2>2. links' = links
    BY DEF OSUnlockMutex
  <2>3. p \in links.pending /\ p < prio[exec]
    BY <1>3, <1>4, <2>1, <2>2
  <2> QED  BY <1>1, <2>3 DEF Outranked
<1>15. ~ OSCreateThread
  <2> SUFFICES ASSUME OSCreateThread
               PROVE  FALSE
    OBVIOUS
  <2>1. At({"OSCreateThread"}) /\ prio' = [prio EXCEPT ![Arg] = BasePriority[Arg]]
        /\ links'.pending = links.pending
    BY DEF OSCreateThread
  <2>2. Arg # exec
    BY <1>1, <2>1 DEF IInv, ControlInv, CreateNext, Dead
  <2> QED  BY <1>2, <1>5, <2>1, <2>2
<1>16. ~ OSSleepThread
  <2> SUFFICES ASSUME OSSleepThread
               PROVE  FALSE
    OBVIOUS
  <2>1. At({"OSSleepThread"})
    BY DEF OSSleepThread
  <2>2. disable = 0
    BY <2>1, BusyTopFacts DEF Quiet, Barrier
  <2>3. state' = [state EXCEPT ![exec] = "waiting"]
    BY <1>1, <1>2, <2>2, AddressFacts DEF OSSleepThread
  <2> QED  BY <1>1, <1>2, <2>3
<1>17. ~ SleepReturn /\ ~ SelectLeaves
  <2>1. SleepReturn => links' = links /\ prio' = prio
    BY <1>1 DEF SleepReturn
  <2>2. SelectLeaves => state'[exec] = "ready"
    BY <1>1, <1>2 DEF SelectLeaves
  <2> QED  BY <1>1, <1>5, <2>1, <2>2
<1>18. ~ (OSSleepTicks \/ ParkReturn \/ SleepTimerDue \/ Reconcile)
  BY <1>5
  DEF OSSleepTicks, ParkReturn, SleepTimerDue, Reconcile, threadVars
<1>19. ~ (SelectThread \/ SelectReturns \/ Reschedule \/ IdleTimers \/ LeaveIdleLoop \/ WakeupDone)
  BY <1>5
  DEF SelectThread, SelectReturns, Reschedule, IdleTimers, LeaveIdleLoop, WakeupDone, threadVars
<1>20. ~ (OSLockMutex \/ LockRetry \/ UnlockAll \/ CallbackStep \/ GuestCall)
  BY <1>5
  DEF OSLockMutex, LockRetry, UnlockAll, CallbackStep, IdleCallback, IdleCallbackReturns,
      BeginCallback, EndCallback, GuestCall, threadVars
<1>21. ~ (ExitReschedule \/ OSJoinThread \/ JoinReturn \/ OSDetachThread)
  BY <1>5 DEF ExitReschedule, OSJoinThread, JoinReturn, OSDetachThread, threadVars
<1> QED
  BY <1>1, <1>9, <1>10, <1>11, <1>12, <1>13, <1>14, <1>15, <1>16, <1>17, <1>18, <1>19, <1>20,
     <1>21, NobodyReturns
  DEF Next, HleStep, SleepStep, SchedulerStep, MutexStep, LifeStep

LEMMA HighestStep ==
  ASSUME IInv, IInv', WaitQueuesSorted, DecidingNext, OwnershipAgrees, SuspendedLast,
         AllJustified, PreemptionKept', HighestInv, CallbackCalls = {}, [Next]_vars
  PROVE  HighestInv'
<1>1. NoCallbacks /\ PropagateNext /\ HighestKept
  BY DEF HighestInv
<1>2. NoCallbacks'
  BY <1>1, NoCallbacksStep
<1>3. PropagateNext'
  BY <1>1, PropagateNextStep
<1>4. CASE UNCHANGED vars
  <2>1. Outranked' => Outranked
    BY <1>4 DEF Outranked, vars, threadVars, fiberVars
  <2>2. RaisesRequest => RaisesRequest'
    BY <1>4 DEF RaisesRequest, Wakeable, Dead, At, Arg, vars, threadVars, fiberVars
  <2>3. stack'[exec'] = stack[exec] /\ resched' = resched
    BY <1>4 DEF vars, fiberVars
  <2> QED  BY <1>1, <1>2, <1>3, <2>1, <2>2, <2>3 DEF HighestInv, HighestKept
<1>5. CASE Next /\ ~ UNCHANGED vars
  <2>1. ASSUME Outranked', ~ RaisesRequest'
        PROVE  SelectsSoon(stack'[exec'], resched')
    <3>1. resched'
      BY <2>1 DEF PreemptionKept
    <3>2. CASE Outranked
      BY <1>1, <1>5, <2>1, <3>1, <3>2, OutrankedGoesOn
    <3>3. CASE ~ Outranked
      BY <1>1, <1>5, <2>1, <3>1, <3>3, OutrankingStep
    <3> QED  BY <3>2, <3>3
  <2> QED  BY <1>2, <1>3, <2>1 DEF HighestInv, HighestKept
<1> QED  BY <1>4, <1>5

\* Where nobody calls back into guest code in the middle of a call, the most
\* urgent thread that is ready executes: every call that readies a thread, lends
\* or gives back a priority, or ends a thread, reaches the scheduler before its
\* caller goes on, along whatever walks, wakeups and timers come in between.
THEOREM TheHighestRuns ==
  ASSUME Disciplined, CallbackCalls = {}
  PROVE  Spec /\ []ReleasesFirst /\ []CancelsNoLockWaiter => []HighestRuns
<1>1. Init => HighestInv
  <2> SUFFICES ASSUME Init
               PROVE  NoCallbacks /\ PropagateNext /\ ~ Outranked
    BY DEF HighestInv, HighestKept
  <2>1. \A u \in Thread : \A ops : stack[u] = << >> /\ ~ Has(stack[u], ops)
    BY DEF Init, Has
  <2>2. exec \in Thread /\ links.pending = {}
    BY ConstantTypes DEF Init, ConstantTypes
  <2> QED  BY <2>1, <2>2 DEF NoCallbacks, PropagateNext, Outranked, At
<1>2. /\ IInv /\ IInv' /\ WaitInv /\ EndInv /\ LendInv /\ PreemptionKept' /\ HighestInv
      /\ [Next]_vars
      => HighestInv'
  BY HighestStep DEF WaitInv, EndInv, LendInv
<1>3. IInv /\ HighestInv => HighestRuns
  <2> SUFFICES ASSUME IInv, HighestInv, InGuestCode, NEW p \in links.pending
               PROVE  prio[exec] <= p
    BY DEF HighestRuns
  <2>1. state[exec] = "running"
    BY GuestFacts DEF IInv
  <2>2. ~ RaisesRequest /\ ~ SelectsSoon(stack[exec], resched)
    BY DEF InGuestCode, RaisesRequest, At, SelectsSoon
  <2>3. ~ (p < prio[exec])
    BY <2>1, <2>2 DEF HighestInv, HighestKept, Outranked
  <2>4. p \in Nat /\ prio[exec] \in Nat
    <3>1. p \in Priority /\ exec \in Thread
      BY DEF IInv, TypeOK
    <3> QED  BY <3>1, PriorityFacts, LinkedFacts
  <2> QED  BY <2>3, <2>4
<1> QED
  BY <1>1, <1>2, <1>3, InvariantHolds, WaitInvariantHolds, EndInvariantHolds,
     LendInvariantHolds, PreemptionKeptHolds, PTL DEF Spec

-----------------------------------------------------------------------------
(* Tick sleeps.  First what a step makes of the chain of the executing     *)
(* fiber.                                                                  *)

Watched == Parks \cup Blocks \cup {"OSSuspendThread"}

\* The next frame is replaced by others, none of which is one of ops; a thread
\* ends; a frame is pushed by guest code, by a callback, or by the host.
Onwards(ops) ==
  /\ stack[exec] # << >> /\ exec' = exec
  /\ \E g \in Seq(Frame) : Continue(g) /\ \A i \in DOMAIN g : g[i].op \notin ops
Ends ==
  /\ exec' = exec
  /\ \E t \in Thread : \E op \in {"ExitReschedule", "Reschedule"} :
       /\ Terminate(t, Call(op, Null))
       /\ \/ OSExitThread /\ t = exec
          \/ OSCancelThread /\ t = Arg
Pushes(ops) ==
  /\ exec' = exec
  /\ \E h \in Frame :
       /\ stack' = [stack EXCEPT ![exec] = << h >> \o @]
       /\ h.op # "ParkReturn"
       /\ stack[exec] = << >> \/ (h.op \notin ops /\ Head(stack[exec]).op \notin ops)

LEMMA OnwardsFacts ==
  ASSUME IInv, stack[exec] # << >>, exec' = exec, NEW ops
  PROVE  /\ Return => Onwards(ops)
         /\ \A f1 \in Frame : f1.op \notin ops /\ Continue(<< f1 >>) => Onwards(ops)
         /\ \A f1, f2 \in Frame :
              f1.op \notin ops /\ f2.op \notin ops /\ Continue(<< f1, f2 >>) => Onwards(ops)
         /\ \A f1, f2, f3 \in Frame :
              f1.op \notin ops /\ f2.op \notin ops /\ f3.op \notin ops
              /\ Continue(<< f1, f2, f3 >>) => Onwards(ops)
         /\ \A g \in Seq(Frame) :
              Continue(g) /\ (\A i \in DOMAIN g : g[i].op \notin ops) => Onwards(ops)
<1>1. \A g \in Seq(Frame) :
        Continue(g) /\ (\A i \in DOMAIN g : g[i].op \notin ops) => Onwards(ops)
  BY DEF Onwards
<1>2. Return => Onwards(ops)
  BY <1>1, FramesFacts DEF Return
<1>3. ASSUME NEW f1 \in Frame, f1.op \notin ops, Continue(<< f1 >>)
      PROVE  Onwards(ops)
  <2> DEFINE g == << f1 >>
  <2>1. g \in Seq(Frame) /\ \A i \in DOMAIN g : g[i].op \notin ops
    BY <1>3, FramesFacts
  <2> HIDE DEF g
  <2>2. Continue(g)
    BY <1>3 DEF g
  <2> QED  BY <1>1, <2>1, <2>2
<1>4. ASSUME NEW f1 \in Frame, NEW f2 \in Frame, f1.op \notin ops, f2.op \notin ops,
             Continue(<< f1, f2 >>)
      PROVE  Onwards(ops)
  <2> DEFINE g == << f1, f2 >>
  <2>1. g \in Seq(Frame) /\ \A i \in DOMAIN g : g[i] \in {f1, f2}
    BY FramesFacts
  <2> HIDE DEF g
  <2>2. Continue(g)
    BY <1>4 DEF g
  <2> QED  BY <1>1, <1>4, <2>1, <2>2
<1>5. ASSUME NEW f1 \in Frame, NEW f2 \in Frame, NEW f3 \in Frame,
             f1.op \notin ops, f2.op \notin ops, f3.op \notin ops,
             Continue(<< f1, f2, f3 >>)
      PROVE  Onwards(ops)
  <2> DEFINE g == << f1, f2, f3 >>
  <2>1. g \in Seq(Frame) /\ \A i \in DOMAIN g : g[i] \in {f1, f2, f3}
    BY FramesFacts
  <2> HIDE DEF g
  <2>2. Continue(g)
    BY <1>5 DEF g
  <2> QED  BY <1>1, <1>5, <2>1, <2>2
<1> QED  BY <1>1, <1>2, <1>3, <1>4, <1>5

\* The frames of the scheduler are not watched.
LEMMA WatchedFacts ==
  /\ Quiet \cap Watched = {}
  /\ {"Select", "SelectForced", "IdleLoop", "Dispatch", "SleepReturn", "JoinReturn",
      "UnlockAll", "ExitReschedule", "Callback", "IdleCallback"} \cap Watched = {}
  /\ Blocks \cap (Parks \cup {"OSSuspendThread"}) = {}
  /\ Deliveries \cap Watched = {}
BY DEF Quiet, Watched, Parks, Blocks, Deliveries

LEMMA PumpOnwards ==
  ASSUME IInv, stack[exec] # << >>, exec' = exec, NEW h \in Frame, Pump(h),
         h.op \in {"Select", "SelectForced", "IdleLoop"}
  PROVE  Onwards(Watched)
<1>1. PICK t \in Seq(Thread) :
        LET g == Each("SleepTimerDue", t) \o << Call("Reconcile", Null), h >>
        IN  /\ Continue(g)
            /\ \A i \in DOMAIN g : g[i].op \in Quiet \/ g[i] = h
            /\ \A request : Leaves(h, request) => Leaving(g, request)
  BY PumpStep
<1> DEFINE g == Each("SleepTimerDue", t) \o << Call("Reconcile", Null), h >>
<1>2. g \in Seq(Frame)
  BY PumpFacts
<1>3. Continue(g) /\ \A i \in DOMAIN g : g[i].op \in Quiet \/ g[i] = h
  BY <1>1
<1> HIDE DEF g
<1>4. \A i \in DOMAIN g : g[i].op \notin Watched
  BY <1>3, WatchedFacts
<1> QED  BY <1>2, <1>3, <1>4, OnwardsFacts

LEMMA SleepOnwards ==
  ASSUME IInv, SleepReturn \/ ParkReturn \/ (OSSleepTicks /\ Return)
  PROVE  Onwards(Watched)
<1>1. stack[exec] # << >> /\ exec' = exec /\ Return
  BY DEF SleepReturn, ParkReturn, OSSleepTicks, At
<1> QED  BY <1>1, OnwardsFacts

LEMMA SchedulerOnwards ==
  ASSUME IInv,
         \/ SelectThread \/ SelectReturns \/ SelectLeaves \/ IdleTimers \/ LeaveIdleLoop
         \/ OSWakeupThread \/ WakeupDone \/ ExitReschedule
  PROVE  (stack' = stack /\ exec' = exec) \/ Onwards(Watched)
<1>1. stack[exec] # << >> /\ exec' = exec
  BY DEF SelectThread, SelectReturns, SelectLeaves, IdleTimers, LeaveIdleLoop, OSWakeupThread,
         WakeupDone, ExitReschedule, Idling, At
<1>2. /\ \A op \in {"Select", "SelectForced", "IdleLoop", "Dispatch", "SelectThread"} :
           Call(op, Null) \in Frame /\ Call(op, Null).op = op /\ op \notin Watched
      /\ \A q \in WaitQueueId : Call("WakeupLinked", q) \in Frame
      /\ \A q : Call("WakeupLinked", q).op = "WakeupLinked" /\ "WakeupLinked" \notin Watched
  BY FrameFacts, FramesFacts, WatchedFacts DEF Quiet
<1>3. CASE SelectThread
  <2>1. \E op \in {"Select", "SelectForced"} : Pump(Call(op, Null))
    BY <1>3 DEF SelectThread
  <2> QED  BY <1>1, <1>2, <2>1, PumpOnwards
<1>4. CASE IdleTimers
  BY <1>1, <1>2, <1>4, PumpOnwards DEF IdleTimers
<1>5. CASE SelectReturns
  BY <1>1, <1>5, OnwardsFacts DEF SelectReturns
<1>6. CASE SelectLeaves
  <2>1. Continue(<< Call("IdleLoop", Null) >>) \/ Continue(<< Call("Dispatch", Null) >>)
    BY <1>6 DEF SelectLeaves
  <2> QED  BY <1>1, <1>2, <2>1, OnwardsFacts
<1>7. CASE LeaveIdleLoop
  BY <1>1, <1>2, <1>7, OnwardsFacts DEF LeaveIdleLoop
<1>8. CASE OSWakeupThread \/ WakeupDone
  <2>1. At({"OSWakeupThread", "WakeupLinked"})
    BY <1>8 DEF OSWakeupThread, WakeupDone
  <2>2. Arg \in WaitQueueId
    BY <2>1, TopFacts, ArgFacts DEF Arg
  <2>3. \/ stack' = stack \/ Return
        \/ Continue(<< Call("WakeupLinked", Arg) >>)
        \/ Continue(<< Call("SelectThread", Null) >>)
    BY <1>8 DEF OSWakeupThread, WakeupDone, Return
  <2> QED  BY <1>1, <1>2, <2>2, <2>3, OnwardsFacts
<1>9. CASE ExitReschedule
  BY <1>1, <1>2, <1>9, OnwardsFacts DEF ExitReschedule
<1> QED  BY <1>3, <1>4, <1>5, <1>6, <1>7, <1>8, <1>9

\* Deciding to wait, and calls that come to nothing.
LEMMA BlockOnwards ==
  ASSUME IInv,
         \/ OSSleepThread \/ Promote \/ OSLockMutex \/ LockRetry \/ OSJoinThread
         \/ (OSExitThread \/ OSCancelThread) /\ Return
  PROVE  At(Blocks) /\ Onwards(Parks \cup {"OSSuspendThread"})
<1> DEFINE Free == Parks \cup {"OSSuspendThread"}
<1>1. stack[exec] # << >> /\ exec' = exec /\ At(Blocks)
  BY DEF OSSleepThread, Promote, OSLockMutex, LockRetry, OSJoinThread, OSExitThread,
         OSCancelThread, At, Blocks
<1>2. /\ \A op \in Blocks \cup {"SelectThread", "SleepReturn", "JoinReturn"} :
           \A x : Call(op, x).op = op /\ op \notin Free
      /\ Call("SelectThread", Null) \in Frame
      /\ \A x \in Thread \cup {Null} : Call("Promote", x) \in Frame
      /\ \A q \in WaitQueueId : Call("OSSleepThread", q) \in Frame /\ Call("SleepReturn", q) \in Frame
      /\ \A m \in Mutex : Call("OSLockMutex", m) \in Frame /\ Call("LockRetry", m) \in Frame
      /\ \A t \in Thread : Call("JoinReturn", t) \in Frame
      /\ Mutex \subseteq WaitQueueId /\ Thread \subseteq WaitQueueId
  BY FrameFacts, FramesFacts, WatchedFacts DEF Parks, Blocks, WaitQueueId
<1>3. owner \in [Mutex -> Thread \cup {Null}] /\ blockedOn \in [Thread -> Mutex \cup {Null}]
  BY DEF IInv, TypeOK
<1>4. Head(stack[exec]) \in Frame
  BY <1>1, TopFacts
<1> SUFFICES Onwards(Free)
  BY <1>1
<1> HIDE DEF Free
<1>5. CASE OSSleepThread
  <2>1. Arg \in WaitQueueId
    BY <1>4, <1>5, ArgFacts DEF OSSleepThread, At, Arg
  <2>2. Return \/ Continue(<< Call("SelectThread", Null), Call("SleepReturn", Arg) >>)
    BY <1>5 DEF OSSleepThread
  <2> QED  BY <1>1, <1>2, <2>1, <2>2, OnwardsFacts
<1>6. CASE Promote
  <2>1. Arg \in Thread \cup {Null}
    BY <1>4, <1>6, ArgFacts DEF Promote, At, Arg
  <2>2. Return \/ (Arg # Null /\ Continue(<< Call("Promote", NextInChain(Arg)) >>))
    BY <1>6 DEF Promote
  <2>3. Arg \in Thread => NextInChain(Arg) \in Thread \cup {Null}
    BY <1>3 DEF NextInChain, OwnerOf
  <2>4. "Promote" \in Blocks
    BY DEF Blocks
  <2> QED  BY <1>1, <1>2, <2>1, <2>2, <2>3, <2>4, OnwardsFacts
<1>7. CASE OSLockMutex
  <2>1. Arg \in Mutex
    BY <1>4, <1>7, ArgFacts DEF OSLockMutex, At, Arg
  <2>2. \/ Return
        \/ Continue(<< Call("Promote", owner[Arg]), Call("OSSleepThread", Arg),
                       Call("LockRetry", Arg) >>)
    BY <1>7 DEF OSLockMutex
  <2> DEFINE f1 == Call("Promote", owner[Arg])
              f2 == Call("OSSleepThread", Arg)
              f3 == Call("LockRetry", Arg)
  <2>3. {"Promote", "OSSleepThread", "LockRetry"} \subseteq Blocks /\ owner[Arg] \in Thread \cup {Null}
    BY <1>3, <2>1 DEF Blocks
  <2>4. /\ f1 \in Frame /\ f2 \in Frame /\ f3 \in Frame
        /\ f1.op \notin Free /\ f2.op \notin Free /\ f3.op \notin Free
    BY <1>2, <2>1, <2>3
  <2> HIDE DEF f1, f2, f3
  <2>5. Return \/ Continue(<< f1, f2, f3 >>)
    BY <2>2 DEF f1, f2, f3
  <2> QED  BY <1>1, <2>4, <2>5, OnwardsFacts
<1>8. CASE LockRetry
  <2>1. Arg \in Mutex
    BY <1>4, <1>8, ArgFacts DEF LockRetry, At, Arg
  <2>2. Continue(<< Call("OSLockMutex", Arg) >>) /\ "OSLockMutex" \in Blocks
    BY <1>8 DEF LockRetry, Blocks
  <2> QED  BY <1>1, <1>2, <2>1, <2>2, OnwardsFacts
<1>9. CASE OSJoinThread
  <2>1. Arg \in Thread
    BY <1>4, <1>9, ArgFacts DEF OSJoinThread, At, Arg, ThreadCall
  <2>2. Return \/ Continue(<< Call("OSSleepThread", Arg), Call("JoinReturn", Arg) >>)
    BY <1>9 DEF OSJoinThread
  <2> DEFINE f1 == Call("OSSleepThread", Arg)
             f2 == Call("JoinReturn", Arg)
  <2>3. f1 \in Frame /\ f2 \in Frame /\ f1.op \notin Free /\ f2.op \notin Free
    <3>1. "OSSleepThread" \in Blocks
      BY DEF Blocks
    <3> QED  BY <1>2, <2>1, <3>1
  <2> HIDE DEF f1, f2
  <2>4. Return \/ Continue(<< f1, f2 >>)
    BY <2>2 DEF f1, f2
  <2> QED  BY <1>1, <2>3, <2>4, OnwardsFacts
<1>10. CASE Return
  BY <1>1, <1>10, OnwardsFacts
<1> QED  BY <1>5, <1>6, <1>7, <1>8, <1>9, <1>10

LEMMA LifeOnwards ==
  ASSUME IInv, OSUnlockMutex \/ OSCreateThread \/ OSSuspendThread \/ JoinReturn \/ OSDetachThread
  PROVE  Onwards(Watched)
<1>1. stack[exec] # << >> /\ exec' = exec
  BY DEF OSUnlockMutex, OSCreateThread, OSSuspendThread, JoinReturn, OSDetachThread, At
<1>2. /\ \A op \in {"OSWakeupThread", "Propagate", "Reschedule"} :
           \A x : Call(op, x).op = op /\ op \notin Watched
      /\ Call("Reschedule", Null) \in Frame
      /\ \A q \in WaitQueueId : Call("OSWakeupThread", q) \in Frame
      /\ \A x \in Thread \cup {Null} : Call("Propagate", x) \in Frame
      /\ Mutex \subseteq WaitQueueId /\ Thread \subseteq WaitQueueId
  BY FrameFacts, FramesFacts, WatchedFacts DEF Quiet, WaitQueueId
<1>3. owner \in [Mutex -> Thread \cup {Null}] /\ blockedOn \in [Thread -> Mutex \cup {Null}]
  BY DEF IInv, TypeOK
<1>4. Head(stack[exec]) \in Frame
  BY <1>1, ChainNow, HeadTailProperties
<1>5. CASE OSUnlockMutex
  <2>1. Arg \in Mutex
    BY <1>4, <1>5, ArgFacts DEF OSUnlockMutex, At, Arg
  <2>2. Return \/ Continue(<< Call("OSWakeupThread", Arg) >>)
    BY <1>5 DEF OSUnlockMutex, Return
  <2> QED  BY <1>1, <1>2, <2>1, <2>2, OnwardsFacts
<1>6. CASE OSCreateThread \/ JoinReturn
  BY <1>1, <1>6, OnwardsFacts DEF OSCreateThread, JoinReturn
<1>7. CASE OSSuspendThread
  <2>1. Arg \in Thread
    BY <1>4, <1>7, ArgFacts DEF OSSuspendThread, At, Arg, ThreadCall
  <2>2. OwnerOf(blockedOn[Arg]) \in Thread \cup {Null}
    BY <1>3, <2>1 DEF OwnerOf
  <2>3. \/ Return \/ Continue(<< Call("Reschedule", Null) >>)
        \/ Continue(<< Call("Propagate", OwnerOf(blockedOn[Arg])), Call("Reschedule", Null) >>)
    BY <1>7 DEF OSSuspendThread, Return
  <2> QED  BY <1>1, <1>2, <2>2, <2>3, OnwardsFacts
<1>8. CASE OSDetachThread
  <2>1. Arg \in Thread
    BY <1>4, <1>8, ArgFacts DEF OSDetachThread, At, Arg, ThreadCall
  <2> QED  BY <1>1, <1>2, <1>8, <2>1, OnwardsFacts DEF OSDetachThread
<1> QED  BY <1>5, <1>6, <1>7, <1>8

LEMMA EndsSteps ==
  ASSUME IInv, OSExitThread \/ OSCancelThread
  PROVE  Ends \/ (At(Blocks) /\ Onwards(Parks \cup {"OSSuspendThread"}))
<1>1. CASE OSExitThread
  <2>1. At({"OSExitThread"}) /\ exec' = exec
    BY <1>1 DEF OSExitThread
  <2>2. running = exec
    BY <2>1, BusyTopFacts DEF Quiet, Barrier
  <2>3. Return \/ Terminate(exec, Call("ExitReschedule", Null))
    BY <1>1, <2>2 DEF OSExitThread
  <2>4. exec \in Thread
    BY ChainNow
  <2>5. Return => At(Blocks) /\ Onwards(Parks \cup {"OSSuspendThread"})
    BY <1>1, BlockOnwards
  <2>6. Terminate(exec, Call("ExitReschedule", Null)) => Ends
    BY <1>1, <2>1, <2>4, Zenon DEF Ends
  <2> QED  BY <2>3, <2>5, <2>6
<1>2. CASE OSCancelThread
  <2>1. At({"OSCancelThread"}) /\ exec' = exec
    BY <1>2 DEF OSCancelThread
  <2>2. Arg \in Thread
    BY <2>1, TopFacts, ArgFacts DEF Arg, ThreadCall
  <2>3. Return \/ Terminate(Arg, Call("Reschedule", Null))
    BY <1>2 DEF OSCancelThread
  <2>4. Return => At(Blocks) /\ Onwards(Parks \cup {"OSSuspendThread"})
    BY <1>2, BlockOnwards
  <2>5. Terminate(Arg, Call("Reschedule", Null)) => Ends
    BY <1>2, <2>1, <2>2, Zenon DEF Ends
  <2> QED  BY <2>3, <2>4, <2>5
<1> QED  BY <1>1, <1>2

LEMMA CallSteps ==
  ASSUME IInv, Disciplined, CallbackStep \/ GuestCall
  PROVE  Onwards(Watched) \/ Pushes(Watched)
<1>1. exec' = exec
  BY DEF CallbackStep, IdleCallback, IdleCallbackReturns, BeginCallback, EndCallback, GuestCall
<1>2. /\ Call("Callback", Null) \in Frame /\ Call("IdleCallback", Null) \in Frame
      /\ Call("Callback", Null).op = "Callback" /\ "Callback" \notin Watched
      /\ Call("IdleCallback", Null).op = "IdleCallback" /\ "IdleCallback" \notin Watched
      /\ Call("Reschedule", Null) \in Frame /\ Call("Reschedule", Null).op = "Reschedule"
      /\ "Reschedule" \notin Watched
  BY FrameFacts, FramesFacts, WatchedFacts DEF Quiet
<1>3. CASE IdleCallback \/ BeginCallback
  <2>1. stack[exec] = << >> \/ Head(stack[exec]).op \notin Watched
    BY <1>3, WatchedFacts DEF IdleCallback, BeginCallback, InGuestCode, Idling, At
  <2>2. "Callback" # "ParkReturn" /\ "IdleCallback" # "ParkReturn"
    OBVIOUS
  <2>3. \/ stack' = [stack EXCEPT ![exec] = << Call("Callback", Null) >> \o @]
        \/ stack' = [stack EXCEPT ![exec] = << Call("IdleCallback", Null) >> \o @]
    BY <1>3 DEF IdleCallback, BeginCallback
  <2> QED  BY <1>1, <1>2, <2>1, <2>2, <2>3 DEF Pushes
<1>4. CASE IdleCallbackReturns \/ EndCallback
  <2>1. stack[exec] # << >>
    BY <1>4 DEF IdleCallbackReturns, EndCallback, At
  <2>2. Return \/ Continue(<< Call("Reschedule", Null) >>)
    BY <1>4 DEF IdleCallbackReturns, EndCallback
  <2> QED  BY <1>1, <1>2, <2>1, <2>2, OnwardsFacts
<1>5. CASE GuestCall
  <2>1. PICK c \in Frame :
          /\ c.op \in IF InGuestCode THEN GuestCalls[exec] ELSE CallbackCalls
          /\ stack' = [stack EXCEPT ![exec] = << c >> \o @]
    BY <1>5 DEF GuestCall
  <2>2. stack[exec] = << >> \/ c.op \in {"OSWakeupThread", "OSResumeThread"}
    BY <2>1 DEF InGuestCode, Disciplined
  <2>3. {"OSWakeupThread", "OSResumeThread"} \cap Watched = {}
    BY WatchedFacts DEF Quiet
  <2>4. stack[exec] = << >> \/ Head(stack[exec]).op \notin Watched
    BY <1>5, WatchedFacts DEF GuestCall, InGuestCode, InCallback, At
  <2>5. c.op \in OSFunction
    BY <2>1, ChainNow, ConstantTypes DEF ConstantTypes
  <2>6. c.op # "ParkReturn"
    BY <2>5 DEF OSFunction, ThreadCall, QueueCall, MutexCall, PlainCall
  <2> QED  BY <1>1, <2>1, <2>2, <2>3, <2>4, <2>6 DEF Pushes
<1> QED  BY <1>3, <1>4, <1>5 DEF CallbackStep

\* Everything that a step can do to the chains.
LEMMA ChainSteps ==
  ASSUME IInv, Disciplined, [Next]_vars
  PROVE  \/ stack' = stack /\ exec' = exec
         \/ Onwards(Watched)
         \/ At(Blocks) /\ Onwards(Parks \cup {"OSSuspendThread"})
         \/ Ends
         \/ OSSleepTicks /\ ~ Return
         \/ Dispatch
         \/ Pushes(Watched)
<1>1. CASE UNCHANGED vars
  BY <1>1 DEF vars, fiberVars
<1>2. ASSUME Next, SleepTimerDue \/ Reconcile \/ OSResumeThread \/ Propagate \/ Reschedule
                   \/ UnlockAll
      PROVE  (stack' = stack /\ exec' = exec) \/ Onwards(Watched)
  <2>1. /\ At(Quiet \ {"Select", "SelectThread", "WakeupLinked"}) /\ stack[exec] # << >>
        /\ exec' = exec
    BY <1>2 DEF SleepTimerDue, Reconcile, OSResumeThread, Propagate, Reschedule, UnlockAll, At,
                Quiet
  <2>2. \/ stack' = stack
        \/ \E g \in Seq(Frame) : Continue(g) /\ \A i \in DOMAIN g : g[i].op \in Quiet
    BY <1>2, <2>1, QuietSteps
  <2>3. ASSUME NEW g \in Seq(Frame), Continue(g), \A i \in DOMAIN g : g[i].op \in Quiet
        PROVE  Onwards(Watched)
    <3>1. \A i \in DOMAIN g : g[i].op \notin Watched
      BY <2>3, WatchedFacts
    <3> QED  BY <2>1, <2>3, <3>1, OnwardsFacts
  <2> QED  BY <2>1, <2>2, <2>3
<1>3. CASE SleepStep
  BY <1>2, <1>3, SleepOnwards, BlockOnwards DEF SleepStep, Next, HleStep
<1>4. CASE SchedulerStep
  BY <1>2, <1>4, SchedulerOnwards DEF SchedulerStep, Next, HleStep
<1>5. CASE MutexStep
  BY <1>2, <1>5, BlockOnwards, LifeOnwards DEF MutexStep, Next, HleStep
<1>6. CASE LifeStep
  BY <1>2, <1>6, BlockOnwards, LifeOnwards, EndsSteps, SchedulerOnwards, NobodyReturns
  DEF LifeStep, Next, HleStep
<1>7. CASE CallbackStep \/ GuestCall
  BY <1>7, CallSteps
<1> QED  BY <1>1, <1>3, <1>4, <1>5, <1>6, <1>7 DEF Next, HleStep

\* What becomes of the frames that are there.
LEMMA ReplaceSets ==
  ASSUME IInv, stack[exec] # << >>, NEW g \in Seq(Frame), stack'[exec] = g \o Tail(stack[exec])
  PROVE  /\ ToSet(stack'[exec]) = ToSet(g) \cup ToSet(Tail(stack[exec]))
         /\ \A ops : Has(stack'[exec], ops) <=> Has(g, ops) \/ Has(Tail(stack[exec]), ops)
<1>1. stack[exec] \in Seq(Frame)
  BY ChainNow
<1>2. Tail(stack[exec]) \in Seq(Frame)
  BY <1>1, HeadTailProperties
<1>3. \A ops : Has(g \o Tail(stack[exec]), ops) <=> Has(g, ops) \/ Has(Tail(stack[exec]), ops)
  BY <1>1, HasReplace
<1> QED  BY <1>2, <1>3, ConcatSets

\* The threads whose chains are dropped by a step that ends somebody.
LEMMA EndsChains ==
  ASSUME IInv, Ends
  PROVE  /\ stack[exec] # << >> /\ At(Blocks)
         /\ \A u \in Thread \ {exec} :
              stack'[u] = stack[u] \/ (stack'[u] = << >> /\ OSCancelThread /\ u = Arg)
         /\ OSCancelThread /\ Arg # exec => stack'[Arg] = << >>
         /\ ToSet(Tail(stack[exec])) \subseteq ToSet(stack'[exec])
         /\ \A ops : ops \subseteq Watched => AddsNone(ops)
<1>1. PICK t \in Thread, op \in {"ExitReschedule", "Reschedule"} :
        /\ Terminate(t, Call(op, Null))
        /\ (OSExitThread /\ t = exec) \/ (OSCancelThread /\ t = Arg)
  BY DEF Ends
<1>2. At(Blocks) /\ stack[exec] # << >>
  BY <1>1 DEF OSExitThread, OSCancelThread, At, Blocks
<1>3. stack[exec] \in Seq(Frame) /\ exec \in Thread /\ stack \in [Thread -> Seq(Frame)]
  BY ChainNow
<1> DEFINE g == LastRites(t, Call(op, Null))
<1>4. /\ Call("UnlockAll", t) \in Frame /\ Call("OSWakeupThread", t) \in Frame
      /\ Call(op, Null) \in Frame /\ t \in WaitQueueId
      /\ Call("UnlockAll", t).op = "UnlockAll" /\ Call("OSWakeupThread", t).op = "OSWakeupThread"
      /\ Call(op, Null).op = op
  BY FrameFacts, FramesFacts DEF WaitQueueId
<1>5. /\ g \in Seq(Frame)
      /\ \A i \in DOMAIN g : g[i] \in {Call("UnlockAll", t), Call("OSWakeupThread", t), Call(op, Null)}
  BY <1>4, FramesFacts DEF LastRites
<1>6. stack'[exec] = g \o Tail(stack[exec])
  BY <1>1, <1>3 DEF Terminate
<1>7. \A u \in Thread \ {exec} : stack'[u] = IF u = t THEN << >> ELSE stack[u]
  BY <1>1 DEF Terminate
<1> HIDE DEF g
<1>8. ToSet(Tail(stack[exec])) \subseteq ToSet(stack'[exec])
  BY <1>2, <1>5, <1>6, ReplaceSets
<1>9. ASSUME NEW ops, ops \subseteq Watched
      PROVE  AddsNone(ops)
  <2>1. {"UnlockAll", "OSWakeupThread", "ExitReschedule", "Reschedule"} \cap Watched = {}
    BY WatchedFacts DEF Quiet
  <2>2. \A i \in DOMAIN g : g[i].op \notin ops
    BY <1>4, <1>5, <1>9, <2>1
  <2>3. ~ Has(g, ops)
    BY <2>2 DEF Has
  <2>4. Has(stack'[exec], ops) <=> Has(g, ops) \/ Has(Tail(stack[exec]), ops)
    BY <1>2, <1>5, <1>6, ReplaceSets
  <2>5. \A u \in Thread \ {exec} : stack'[u] \in {stack[u], << >>}
    BY <1>7
  <2> QED  BY <1>2, <2>3, <2>4, <2>5 DEF AddsNone
<1>10. \A u \in Thread \ {exec} :
         stack'[u] = stack[u] \/ (stack'[u] = << >> /\ OSCancelThread /\ u = Arg)
  BY <1>1, <1>7
<1>11. OSCancelThread /\ Arg # exec => stack'[Arg] = << >>
  <2> SUFFICES ASSUME OSCancelThread, Arg # exec
               PROVE  stack'[Arg] = << >>
    OBVIOUS
  <2>1. ~ OSExitThread
    BY DEF OSExitThread, OSCancelThread, At
  <2> QED  BY <1>1, <1>7, <2>1
<1> QED  BY <1>2, <1>8, <1>9, <1>10, <1>11

LEMMA DispatchChains ==
  ASSUME IInv, Dispatch
  PROVE  /\ stack[exec] # << >> /\ Head(stack[exec]).op = "Dispatch" /\ exec \in Thread
         /\ \A u \in Thread \ {exec} : stack'[u] = stack[u]
         /\ stack'[exec] = IF Dead(exec) THEN << >> ELSE Tail(stack[exec])
         /\ \A ops : AddsNone(ops)
<1>1. stack[exec] # << >> /\ Head(stack[exec]).op = "Dispatch"
  BY DEF Dispatch, At
<1>2. stack[exec] \in Seq(Frame) /\ exec \in Thread /\ stack \in [Thread -> Seq(Frame)]
  BY ChainNow
<1>3. stack' = [stack EXCEPT ![exec] = IF Dead(exec) THEN << >> ELSE Tail(@)]
  BY DispatchHead
<1>4. stack'[exec] = IF Dead(exec) THEN << >> ELSE Tail(stack[exec])
  BY <1>2, <1>3
<1>5. \A u \in Thread \ {exec} : stack'[u] = stack[u]
  BY <1>2, <1>3
<1>6. \A ops : ~ Has(<< >>, ops)
  BY FramesFacts DEF Has
<1> QED  BY <1>1, <1>2, <1>4, <1>5, <1>6 DEF AddsNone

LEMMA OnwardsChains ==
  ASSUME IInv, NEW ops, Onwards(ops)
  PROVE  /\ stack[exec] # << >>
         /\ \A u \in Thread \ {exec} : stack'[u] = stack[u]
         /\ ToSet(Tail(stack[exec])) \subseteq ToSet(stack'[exec])
         /\ \A some : some \subseteq ops => AddsNone(some)
<1>1. PICK g \in Seq(Frame) : Continue(g) /\ \A i \in DOMAIN g : g[i].op \notin ops
  BY DEF Onwards
<1>2. stack[exec] # << >>
  BY DEF Onwards
<1>3. /\ ToSet(stack'[exec]) = ToSet(g) \cup ToSet(Tail(stack[exec]))
      /\ \A u \in Thread \ {exec} : stack'[u] = stack[u]
  BY <1>1, <1>2, ContinueSets
<1>4. ASSUME NEW some, some \subseteq ops
      PROVE  AddsNone(some)
  BY <1>1, <1>2, <1>4, ContinueAdds
<1> QED  BY <1>2, <1>3, <1>4

LEMMA PushChains ==
  ASSUME IInv, NEW ops, Pushes(ops)
  PROVE  /\ \A u \in Thread \ {exec} : stack'[u] = stack[u]
         /\ ToSet(stack[exec]) \subseteq ToSet(stack'[exec])
         /\ Has(stack'[exec], {"ParkReturn"}) => Has(stack[exec], {"ParkReturn"})
         /\ stack[exec] = << >> =>
              /\ stack'[exec] # << >> /\ Tail(stack'[exec]) = << >>
              /\ \A some : Has(stack'[exec], some) => Head(stack'[exec]).op \in some
         /\ stack[exec] # << >> => \A some : some \subseteq ops => AddsNone(some)
<1>1. PICK h \in Frame :
        /\ stack' = [stack EXCEPT ![exec] = << h >> \o @]
        /\ h.op # "ParkReturn"
        /\ stack[exec] = << >> \/ (h.op \notin ops /\ Head(stack[exec]).op \notin ops)
  BY DEF Pushes
<1>2. stack[exec] \in Seq(Frame) /\ exec \in Thread /\ stack \in [Thread -> Seq(Frame)]
  BY ChainNow
<1>3. stack'[exec] = << h >> \o stack[exec] /\ \A u \in Thread \ {exec} : stack'[u] = stack[u]
  BY <1>1, <1>2
<1>4. /\ stack'[exec] # << >> /\ Head(stack'[exec]) = h /\ Tail(stack'[exec]) = stack[exec]
      /\ \A some : Has(stack'[exec], some) <=> h.op \in some \/ Has(stack[exec], some)
  BY <1>2, <1>3, OnTopFacts
<1>5. ToSet(stack'[exec]) = {h} \cup ToSet(stack[exec])
  BY <1>2, <1>3, OnTopSets
<1>6. \A some : ~ Has(<< >>, some)
  BY FramesFacts DEF Has
<1>7. ASSUME stack[exec] # << >>, NEW some, some \subseteq ops
      PROVE  AddsNone(some)
  BY <1>1, <1>7, PushAdds
<1> QED  BY <1>1, <1>3, <1>4, <1>5, <1>6, <1>7

\* The chain of a thread that goes to sleep.
LEMMA SleepTicksChains ==
  ASSUME IInv, OSSleepTicks, ~ Return
  PROVE  /\ stack[exec] # << >> /\ Head(stack[exec]).op = "OSSleepTicks" /\ exec' = exec
         /\ exec \in Thread
         /\ state[exec] = "running" /\ suspend[exec] = 0
         /\ state' = state /\ suspend' = suspend
         /\ outstanding' = outstanding \cup {exec} /\ timers' = timers \cup {exec}
         /\ \A u \in Thread \ {exec} : stack'[u] = stack[u]
         /\ ToSet(Tail(stack[exec])) \subseteq ToSet(stack'[exec])
         /\ stack'[exec] # << >> /\ Head(stack'[exec]) = Call("OSSuspendThread", exec)
         /\ \A ops : Has(Tail(stack'[exec]), ops) <=>
              "ParkReturn" \in ops \/ Has(Tail(stack[exec]), ops)
<1>1. At({"OSSleepTicks"}) /\ stack[exec] # << >> /\ Head(stack[exec]).op = "OSSleepTicks"
  BY DEF OSSleepTicks, At
<1>2. state[exec] = "running" /\ suspend[exec] = 0
  BY <1>1, BusyTopFacts DEF Quiet, Barrier
<1>3. stack[exec] \in Seq(Frame) /\ exec \in Thread /\ stack \in [Thread -> Seq(Frame)]
  BY ChainNow
<1> DEFINE f1 == Call("OSSuspendThread", exec)
           f2 == Call("ParkReturn", Null)
<1>4. f1 \in Frame /\ f2 \in Frame /\ f2.op = "ParkReturn"
  BY <1>3, FrameFacts, FramesFacts DEF ThreadCall
<1>5. /\ Continue(<< f1, f2 >>) /\ exec' = exec /\ state' = state /\ suspend' = suspend
      /\ outstanding' = outstanding \cup {exec} /\ timers' = timers \cup {exec}
  BY DEF OSSleepTicks, threadVars
<1> DEFINE s == Tail(stack[exec])
<1>6. s \in Seq(Frame)
  BY <1>1, <1>3, HeadTailProperties
<1>7. stack'[exec] = << f1, f2 >> \o s /\ \A u \in Thread \ {exec} : stack'[u] = stack[u]
  BY <1>3, <1>5 DEF Continue
<1> HIDE DEF f1, f2, s
<1>8. stack'[exec] = << f1 >> \o (<< f2 >> \o s)
  BY <1>4, <1>6, <1>7, OnTopTwo
<1>9. /\ << f2 >> \o s \in Seq(Frame) /\ \A ops : Has(<< f2 >> \o s, ops) <=> f2.op \in ops \/ Has(s, ops)
      /\ ToSet(<< f2 >> \o s) = {f2} \cup ToSet(s)
  BY <1>4, <1>6, OnTopFacts, OnTopSets
<1>10. /\ stack'[exec] # << >> /\ Head(stack'[exec]) = f1 /\ Tail(stack'[exec]) = << f2 >> \o s
       /\ ToSet(stack'[exec]) = {f1} \cup ToSet(<< f2 >> \o s)
  BY <1>4, <1>8, <1>9, OnTopFacts, OnTopSets
<1>11. ToSet(s) \subseteq ToSet(stack'[exec])
  BY <1>9, <1>10
<1>12. \A ops : Has(Tail(stack'[exec]), ops) <=> "ParkReturn" \in ops \/ Has(s, ops)
  BY <1>4, <1>9, <1>10
<1> QED  BY <1>1, <1>2, <1>3, <1>5, <1>7, <1>10, <1>11, <1>12 DEF f1, s

\* Steps that put no frame of ops into a chain.
LEMMA AddsNoneFacts ==
  ASSUME IInv, IInv', NEW ops, AddsNone(ops)
  PROVE  \A u \in Thread : Has(stack'[u], ops) =>
           Has(stack[u], ops) /\ (u = exec => stack[exec] # << >> /\ Has(Tail(stack[exec]), ops))
<1>1. \A some : ~ Has(<< >>, some)
  BY FramesFacts DEF Has
<1>2. stack[exec] # << >> => (Has(Tail(stack[exec]), ops) => Has(stack[exec], ops))
  BY BelowTop
<1> QED  BY <1>1, <1>2 DEF AddsNone

LEMMA ParksAloneStep ==
  ASSUME IInv, IInv', Disciplined, ParksAlone, [Next]_vars
  PROVE  ParksAlone'
<1>1. stack[exec] \in Seq(Frame) /\ exec \in Thread /\ stack \in [Thread -> Seq(Frame)]
  BY ChainNow
<1>2. Parks \subseteq Watched /\ Blocks \subseteq Watched
      /\ Parks \subseteq Parks \cup {"OSSuspendThread"} /\ Parks \cap Blocks = {}
  BY WatchedFacts DEF Watched
<1>3. ASSUME AddsNone(Parks), AddsNone(Blocks)
      PROVE  ParksAlone'
  BY <1>3, AddsNoneFacts DEF ParksAlone
<1>4. CASE stack' = stack
  BY <1>4 DEF ParksAlone
<1>5. CASE Onwards(Watched) \/ Ends \/ Dispatch
  BY <1>2, <1>3, <1>5, OnwardsChains, EndsChains, DispatchChains
<1>6. CASE At(Blocks) /\ Onwards(Parks \cup {"OSSuspendThread"})
  <2>1. Has(stack[exec], Blocks)
    BY <1>6, BelowTop DEF At
  <2>2. ~ Has(stack[exec], Parks)
    BY <1>1, <2>1 DEF ParksAlone
  <2>3. AddsNone(Parks) /\ \A u \in Thread \ {exec} : stack'[u] = stack[u]
    BY <1>2, <1>6, OnwardsChains
  <2>4. ~ Has(stack'[exec], Parks)
    BY <1>1, <2>2, <2>3, AddsNoneFacts
  <2> QED  BY <1>1, <2>3, <2>4 DEF ParksAlone
<1>7. CASE OSSleepTicks /\ ~ Return
  <2>1. "OSSleepTicks" \in Parks /\ "ParkReturn" \notin Blocks /\ "OSSuspendThread" \notin Blocks
    BY DEF Parks, Blocks
  <2>2. Has(stack[exec], Parks)
    BY <1>7, <2>1, SleepTicksChains, BelowTop
  <2>3. ~ Has(stack[exec], Blocks)
    BY <1>1, <2>2 DEF ParksAlone
  <2>4. ~ Has(Tail(stack[exec]), Blocks)
    BY <1>7, <2>3, SleepTicksChains, BelowTop
  <2>5. ~ Has(Tail(stack'[exec]), Blocks) /\ Head(stack'[exec]).op = "OSSuspendThread"
    BY <1>7, <2>1, <2>4, SleepTicksChains, FramesFacts
  <2>6. stack'[exec] \in Seq(Frame) /\ stack'[exec] # << >>
    BY <1>1, <1>7, SleepTicksChains DEF IInv, TypeOK
  <2>7. ~ Has(stack'[exec], Blocks)
    BY <2>1, <2>5, <2>6, FramesFacts, HasReplace
  <2> QED  BY <1>7, <2>7, SleepTicksChains DEF ParksAlone
<1>8. CASE Pushes(Watched)
  <2>1. CASE stack[exec] # << >>
    BY <1>2, <1>3, <1>8, <2>1, PushChains
  <2>2. CASE stack[exec] = << >>
    <3>1. ~ (Has(stack'[exec], Parks) /\ Has(stack'[exec], Blocks))
      BY <1>2, <1>8, <2>2, PushChains
    <3>2. \A u \in Thread \ {exec} : stack'[u] = stack[u]
      BY <1>8, PushChains
    <3> QED  BY <3>1, <3>2 DEF ParksAlone
  <2> QED  BY <2>1, <2>2
<1> QED  BY <1>4, <1>5, <1>6, <1>7, <1>8, ChainSteps

\* At a suspension nothing else can happen.
LEMMA SuspendOnly ==
  ASSUME IInv, At({"OSSuspendThread"}), [Next]_vars
  PROVE  OSSuspendThread \/ UNCHANGED vars
<1>1. ~ SleepStep
  BY DEF SleepStep, OSSleepThread, SleepReturn, OSSleepTicks, ParkReturn, SleepTimerDue,
         Reconcile, At
<1>2. ~ SchedulerStep
  BY DEF SchedulerStep, SelectThread, SelectReturns, SelectLeaves, Dispatch, Reschedule,
         IdleTimers, LeaveIdleLoop, OSWakeupThread, WakeupDone, Idling, At
<1>3. ~ MutexStep
  BY DEF MutexStep, Promote, Propagate, OSLockMutex, LockRetry, OSUnlockMutex, UnlockAll, At
<1>4. LifeStep => OSSuspendThread
  BY NobodyReturns
  DEF LifeStep, OSCreateThread, OSResumeThread, OSExitThread, ExitReschedule, OSCancelThread,
      OSJoinThread, JoinReturn, OSDetachThread, At
<1>5. ~ CallbackStep /\ ~ GuestCall
  BY DEF CallbackStep, IdleCallback, IdleCallbackReturns, BeginCallback, EndCallback,
         GuestCall, InGuestCode, InCallback, Idling, At
<1> QED  BY <1>1, <1>2, <1>3, <1>4, <1>5 DEF Next, HleStep

LEMMA SuspendNextStep ==
  ASSUME IInv, IInv', Disciplined, SuspendNext, [Next]_vars
  PROVE  SuspendNext'
<1> DEFINE S == {"OSSuspendThread"}
<1>1. /\ stack[exec] \in Seq(Frame) /\ exec \in Thread /\ stack \in [Thread -> Seq(Frame)]
      /\ stack' \in [Thread -> Seq(Frame)] /\ exec' \in Thread
  BY ChainNow DEF IInv, TypeOK
<1>2. S \subseteq Watched /\ S \subseteq Parks \cup S
  BY DEF Watched
<1>3. ASSUME \A u \in Thread : ~ Has(stack'[u], S)
      PROVE  SuspendNext'
  <2>1. stack'[exec'] # << >> =>
          /\ ~ Has(Tail(stack'[exec']), S) /\ Head(stack'[exec']).op \notin S
    BY <1>1, <1>3, HasReplace, FramesFacts
  <2> QED  BY <1>3, <2>1 DEF SuspendNext, At
<1>4. ASSUME AddsNone(S), stack[exec] # << >>
      PROVE  SuspendNext'
  BY <1>3, <1>4, AddsNoneFacts DEF SuspendNext
<1>5. CASE stack' = stack /\ exec' = exec
  <2>1. CASE At(S)
    <3>1. OSSuspendThread \/ UNCHANGED vars
      BY <2>1, SuspendOnly
    <3>2. outstanding' = outstanding
      BY <3>1 DEF OSSuspendThread, vars, timerVars
    <3> QED  BY <1>5, <3>2 DEF SuspendNext, At, Arg
  <2>2. CASE ~ At(S)
    BY <1>5, <2>2 DEF SuspendNext, At
  <2> QED  BY <2>1, <2>2
<1>6. CASE Onwards(Watched) \/ Ends \/ Dispatch
  BY <1>2, <1>4, <1>6, OnwardsChains, EndsChains, DispatchChains
<1>7. CASE At(Blocks) /\ Onwards(Parks \cup S)
  BY <1>2, <1>4, <1>7, OnwardsChains
<1>8. CASE OSSleepTicks /\ ~ Return
  <2>1. ~ Has(Tail(stack[exec]), S)
    BY <1>8, SleepTicksChains DEF SuspendNext
  <2>2. /\ ~ Has(Tail(stack'[exec]), S) /\ exec' = exec
        /\ Head(stack'[exec]) = Call("OSSuspendThread", exec) /\ exec \in outstanding'
    BY <1>8, <2>1, SleepTicksChains
  <2>3. \A u \in Thread \ {exec} : ~ Has(stack'[u], S)
    BY <1>8, SleepTicksChains DEF SuspendNext
  <2> QED  BY <2>2, <2>3, FramesFacts DEF SuspendNext, At, Arg
<1>9. CASE Pushes(Watched)
  <2>1. CASE stack[exec] # << >>
    BY <1>2, <1>4, <1>9, <2>1, PushChains
  <2>2. CASE stack[exec] = << >>
    <3>1. /\ Tail(stack'[exec]) = << >> /\ exec' = exec
          /\ \A u \in Thread \ {exec} : stack'[u] = stack[u]
      BY <1>9, <2>2, PushChains DEF Pushes
    <3>2. ~ Has(<< >>, S)
      BY FramesFacts DEF Has
    <3> QED  BY <3>1, <3>2 DEF SuspendNext, At
  <2> QED  BY <2>1, <2>2
<1> QED  BY <1>5, <1>6, <1>7, <1>8, <1>9, ChainSteps

\* Who comes to wait or to an end, and who is suspended once more.
LEMMA StandSteps ==
  ASSUME IInv, [Next]_vars, NEW u \in Thread
  PROVE  /\ state[u] \in {"ready", "running"} =>
              \/ state'[u] \in {"ready", "running"}
              \/ OSSleepThread /\ u = exec
              \/ OSExitThread /\ u = exec
              \/ OSCancelThread /\ u = Arg
         /\ suspend'[u] <= suspend[u] \/ (OSSuspendThread /\ u = Arg)
            \/ (OSCreateThread /\ u = Arg)
<1>1. /\ state \in [Thread -> {"none", "ready", "running", "waiting", "moribund"}]
      /\ suspend \in [Thread -> Nat] /\ links.queue \in [QueueId -> Seq(Thread)]
      /\ exec \in Thread /\ running \in Thread \cup {Null}
  BY DEF IInv, TypeOK
<1>2. Null \notin Thread
  BY AddressFacts
<1>3. suspend' = suspend => suspend'[u] <= suspend[u]
  BY <1>1
<1>4. CASE UNCHANGED vars
  BY <1>3, <1>4 DEF vars, threadVars
<1>5. ASSUME UNCHANGED << state, suspend >>
      PROVE  state'[u] = state[u] /\ suspend'[u] <= suspend[u]
  BY <1>3, <1>5
<1>6. CASE SleepStep
  <2>1. CASE OSSleepThread
    <3>1. running = exec
      BY <2>1, BusyTopFacts DEF OSSleepThread, Quiet, Barrier
    <3>2. state' = state \/ state' = [state EXCEPT ![exec] = "waiting"]
      BY <1>1, <1>2, <2>1, <3>1 DEF OSSleepThread
    <3>3. suspend' = suspend
      BY <2>1 DEF OSSleepThread
    <3> QED  BY <1>1, <1>3, <2>1, <3>2, <3>3
  <2>2. CASE SleepReturn
    <3>1. state' = state \/ state' = [state EXCEPT ![exec] = "running"]
      BY <2>2 DEF SleepReturn
    <3> QED  BY <1>1, <1>3, <2>2, <3>1 DEF SleepReturn
  <2>3. CASE ParkReturn
    <3>1. state' = state \/ state' = [state EXCEPT ![exec] = "running"]
      BY <2>3 DEF ParkReturn
    <3>2. suspend' = suspend \/ suspend' = [suspend EXCEPT ![exec] = @ - 1]
      BY <2>3 DEF ParkReturn
    <3> QED  BY <1>1, <3>1, <3>2
  <2>4. CASE OSSleepTicks \/ SleepTimerDue \/ Reconcile
    BY <1>5, <2>4 DEF OSSleepTicks, SleepTimerDue, Reconcile, threadVars
  <2> QED  BY <1>6, <2>1, <2>2, <2>3, <2>4 DEF SleepStep
<1>7. CASE SchedulerStep
  <2>1. CASE SelectLeaves
    <3>1. state' = state \/ state' = [state EXCEPT ![running] = "ready"]
      BY <2>1 DEF SelectLeaves
    <3> QED  BY <1>1, <1>3, <2>1, <3>1 DEF SelectLeaves
  <2>2. CASE Dispatch
    <3>1. \E t \in Thread : state' = [state EXCEPT ![t] = "running"] /\ suspend' = suspend
      BY <2>2, DispatchHead
    <3> QED  BY <1>1, <1>3, <3>1
  <2>3. CASE OSWakeupThread
    <3>1. Arg \in WaitQueueId
      BY <2>3, TopFacts, ArgFacts DEF OSWakeupThread, Arg
    <3>2. links.queue[Arg] # << >> /\ links.queue[Arg] \in Seq(Thread)
      BY <1>1, <2>3, <3>1 DEF OSWakeupThread, QueueId
    <3>3. Head(links.queue[Arg]) \in Thread
      BY <3>2, HeadTailProperties
    <3>4. PICK t \in Thread : t = Head(links.queue[Arg])
      BY <3>3
    <3>5. state' = IF Dead(t) THEN state ELSE [state EXCEPT ![t] = "ready"]
      BY <2>3, <3>4 DEF OSWakeupThread
    <3> QED  BY <1>1, <1>3, <2>3, <3>5 DEF OSWakeupThread
  <2>4. CASE SelectThread \/ SelectReturns \/ Reschedule \/ IdleTimers \/ LeaveIdleLoop \/ WakeupDone
    BY <1>5, <2>4
    DEF SelectThread, SelectReturns, Reschedule, IdleTimers, LeaveIdleLoop, WakeupDone, threadVars
  <2> QED  BY <1>7, <2>1, <2>2, <2>3, <2>4 DEF SchedulerStep
<1>8. CASE MutexStep
  BY <1>5, <1>8
  DEF MutexStep, Promote, Propagate, OSLockMutex, LockRetry, OSUnlockMutex, UnlockAll, threadVars
<1>9. CASE LifeStep
  <2>1. CASE OSCreateThread
    <3>1. state' = [state EXCEPT ![Arg] = "ready"] /\ suspend' = [suspend EXCEPT ![Arg] = 1]
      BY <2>1 DEF OSCreateThread
    <3> QED  BY <1>1, <2>1, <3>1
  <2>2. CASE OSSuspendThread
    <3>1. state' = state \/ state' = [state EXCEPT ![Arg] = "ready"]
      BY <2>2 DEF OSSuspendThread
    <3>2. suspend' = [suspend EXCEPT ![Arg] = @ + 1]
      BY <2>2 DEF OSSuspendThread
    <3> QED  BY <1>1, <2>2, <3>1, <3>2
  <2>3. CASE OSResumeThread
    <3>1. state' = state \/ state' = [state EXCEPT ![Arg] = "ready"]
      BY <2>3 DEF OSResumeThread
    <3>2. suspend' = [suspend EXCEPT ![Arg] = Resumed(@)]
      BY <2>3 DEF OSResumeThread
    <3>3. suspend'[u] = suspend[u] \/ suspend'[u] = Resumed(suspend[u])
      BY <1>1, <3>2
    <3>4. suspend[u] \in Nat /\ Resumed(suspend[u]) <= suspend[u]
      BY <1>1 DEF Resumed
    <3> QED  BY <1>1, <3>1, <3>3, <3>4
  <2>4. CASE OSExitThread
    <3>1. running = exec /\ suspend' = suspend
      BY <2>4, BusyTopFacts DEF OSExitThread, Quiet, Barrier
    <3>2. state' = state \/ (\E x : state' = [state EXCEPT ![exec] = x])
      BY <2>4, <3>1 DEF OSExitThread, Terminate
    <3> QED  BY <1>1, <1>3, <2>4, <3>1, <3>2
  <2>5. CASE OSCancelThread
    <3>1. state' = state \/ (\E x : state' = [state EXCEPT ![Arg] = x])
      BY <2>5 DEF OSCancelThread, Terminate
    <3>2. suspend' = suspend
      BY <2>5 DEF OSCancelThread
    <3> QED  BY <1>1, <1>3, <2>5, <3>1, <3>2
  <2>6. CASE OSJoinThread \/ JoinReturn \/ OSDetachThread
    <3>1. \/ state' = state
          \/ state[Arg] = "moribund" /\ state' = [state EXCEPT ![Arg] = "none"]
      BY <2>6 DEF OSJoinThread, JoinReturn, OSDetachThread, Reap
    <3>2. suspend' = suspend
      BY <2>6 DEF OSJoinThread, JoinReturn, OSDetachThread
    <3> QED  BY <1>1, <1>3, <3>1, <3>2
  <2>7. CASE ExitReschedule
    BY <1>5, <2>7 DEF ExitReschedule, threadVars
  <2> QED  BY <1>9, <2>1, <2>2, <2>3, <2>4, <2>5, <2>6, <2>7, NobodyReturns DEF LifeStep
<1>10. CASE CallbackStep \/ GuestCall
  BY <1>5, <1>10
  DEF CallbackStep, IdleCallback, IdleCallbackReturns, BeginCallback, EndCallback, GuestCall,
      threadVars
<1> QED  BY <1>4, <1>6, <1>7, <1>8, <1>9, <1>10 DEF Next, HleStep

\* Whoever is in a tick sleep now has been in one before, or goes to sleep.
LEMMA SleepersBefore ==
  ASSUME IInv, IInv', Disciplined, [Next]_vars, NEW u \in Thread, Has(stack'[u], {"ParkReturn"})
  PROVE  \/ Has(stack[u], {"ParkReturn"}) /\ ~ (OSSleepTicks /\ ~ Return /\ u = exec)
         \/ OSSleepTicks /\ ~ Return /\ u = exec
<1>1. {"ParkReturn"} \subseteq Watched /\ {"ParkReturn"} \subseteq Parks \cup {"OSSuspendThread"}
  BY DEF Watched, Parks
<1>2. AddsNone({"ParkReturn"}) => Has(stack[u], {"ParkReturn"})
  BY AddsNoneFacts
<1>3. CASE stack' = stack
  BY <1>3
<1>4. CASE Onwards(Watched) \/ Ends \/ Dispatch
  BY <1>1, <1>2, <1>4, OnwardsChains, EndsChains, DispatchChains
<1>5. CASE At(Blocks) /\ Onwards(Parks \cup {"OSSuspendThread"})
  BY <1>1, <1>2, <1>5, OnwardsChains
<1>6. CASE OSSleepTicks /\ ~ Return
  BY <1>6, SleepTicksChains
<1>7. CASE Pushes(Watched)
  BY <1>7, PushChains
<1> QED  BY <1>3, <1>4, <1>5, <1>6, <1>7, ChainSteps

LEMMA ParkedOnceStep ==
  ASSUME IInv, IInv', Disciplined, SuspendsNoSleeper, ParksAlone, SuspendNext, ParkedOnce,
         [Next]_vars
  PROVE  ParkedOnce'
<1> SUFFICES ASSUME NEW u \in Thread, Has(stack'[u], {"ParkReturn"})
             PROVE  state'[u] \in {"ready", "running"} /\ suspend'[u] <= 1
  BY DEF ParkedOnce
<1>1. CASE OSSleepTicks /\ ~ Return /\ u = exec
  BY <1>1, SleepTicksChains
<1>2. CASE Has(stack[u], {"ParkReturn"})
  <2>1. state[u] \in {"ready", "running"} /\ suspend[u] <= 1
    BY <1>2 DEF ParkedOnce
  <2>2. ~ Has(stack[u], Blocks)
    <3>1. Has(stack[u], Parks)
      BY <1>2 DEF Has, Parks
    <3> QED  BY <3>1 DEF ParksAlone
  <2>3. u = exec => ~ At(Blocks)
    BY <2>2, BelowTop DEF At
  <2>4. ~ (OSSleepThread /\ u = exec) /\ ~ (OSExitThread /\ u = exec)
    BY <2>3 DEF OSSleepThread, OSExitThread, At, Blocks
  <2>5. OSCancelThread /\ u = Arg => state'[u] = state[u]
    <3> SUFFICES ASSUME OSCancelThread, u = Arg
                 PROVE  state'[u] = state[u]
      OBVIOUS
    <3>1. u # exec
      BY <2>3 DEF OSCancelThread, At, Blocks
    <3>2. ~ Dead(Arg)
      BY <2>1 DEF Dead
    <3>3. Terminate(Arg, Call("Reschedule", Null))
      BY <3>2 DEF OSCancelThread
    <3>4. stack'[u] = << >>
      BY <3>1, <3>3 DEF Terminate
    <3>5. ~ Has(<< >>, {"ParkReturn"})
      BY FramesFacts DEF Has
    <3> QED  BY <3>4, <3>5
  <2>6. state'[u] \in {"ready", "running"}
    BY <2>1, <2>4, <2>5, StandSteps
  <2>7. suspend \in [Thread -> Nat] /\ suspend' \in [Thread -> Nat]
    BY DEF IInv, TypeOK
  <2>8. CASE OSSuspendThread /\ u = Arg
    <3>1. At({"OSSuspendThread"})
      BY <2>8 DEF OSSuspendThread
    <3>2. u = exec
      BY <1>2, <2>8, <3>1 DEF SuspendsNoSleeper, SuspendNext
    <3>3. suspend[exec] = 0
      BY <3>1, BusyTopFacts DEF Quiet, Barrier
    <3>4. suspend' = [suspend EXCEPT ![Arg] = @ + 1]
      BY <2>8 DEF OSSuspendThread
    <3> QED  BY <2>6, <2>7, <2>8, <3>2, <3>3, <3>4
  <2>9. ~ (OSCreateThread /\ u = Arg)
    <3>1. OSCreateThread => Dead(Arg)
      BY DEF OSCreateThread, IInv, ControlInv, CreateNext
    <3> QED  BY <2>1, <3>1 DEF Dead
  <2>10. CASE suspend'[u] <= suspend[u]
    BY <2>1, <2>6, <2>7, <2>10
  <2> QED  BY <2>8, <2>9, <2>10, StandSteps
<1> QED  BY <1>1, <1>2, SleepersBefore

\* A tick sleep, in terms of Has.
LEMMA ParkFrames ==
  ASSUME NEW s \in Seq(Frame)
  PROVE  Call("ParkReturn", Null) \in ToSet(s) <=> Has(s, {"ParkReturn"})
<1>1. ToSet(s) \subseteq Frame
  BY DEF ToSet
<1>2. ASSUME NEW f \in Frame, f.op = "ParkReturn"
      PROVE  f = Call("ParkReturn", Null)
  BY <1>2 DEF Frame, Call, ThreadCall, QueueCall, MutexCall, PlainCall
<1>3. Call("ParkReturn", Null).op = "ParkReturn"
  BY FramesFacts
<1> QED  BY <1>1, <1>2, <1>3, HasSets

LEMMA InTickSleepHas ==
  ASSUME IInv, IInv'
  PROVE  \A t \in Thread :
           /\ InTickSleep(t) <=> Has(stack[t], {"ParkReturn"}) /\ suspend[t] > 0
           /\ InTickSleep(t)' <=> Has(stack'[t], {"ParkReturn"}) /\ suspend'[t] > 0
<1>1. \A t \in Thread : stack[t] \in Seq(Frame) /\ stack'[t] \in Seq(Frame)
  BY DEF IInv, TypeOK
<1> QED  BY <1>1, ParkFrames DEF InTickSleep

LEMMA EachHas ==
  ASSUME NEW s \in Seq(Thread), NEW t \in ToSet(s), NEW op
  PROVE  Call(op, t) \in ToSet(Each(op, s))
<1>1. PICK i \in 1 .. Len(s) : s[i] = t
  BY DEF ToSet
<1>2. DOMAIN Each(op, s) = 1 .. Len(s) /\ Each(op, s)[i] = Call(op, t)
  BY <1>1 DEF Each
<1> QED  BY <1>2 DEF ToSet

\* A delivery that is next is performed next.
LEMMA DeliverOnly ==
  ASSUME IInv, At(Deliveries), Next
  PROVE  SleepTimerDue \/ OSResumeThread
<1>1. SleepStep => SleepTimerDue
  BY DEF SleepStep, OSSleepThread, SleepReturn, OSSleepTicks, ParkReturn, Reconcile, At, Deliveries
<1>2. ~ SchedulerStep
  BY DEF SchedulerStep, SelectThread, SelectReturns, SelectLeaves, Dispatch, Reschedule,
         IdleTimers, LeaveIdleLoop, OSWakeupThread, WakeupDone, Idling, At, Deliveries
<1>3. ~ MutexStep
  BY DEF MutexStep, Promote, Propagate, OSLockMutex, LockRetry, OSUnlockMutex, UnlockAll, At,
         Deliveries
<1>4. LifeStep => OSResumeThread
  BY NobodyReturns
  DEF LifeStep, OSCreateThread, OSSuspendThread, OSExitThread, ExitReschedule, OSCancelThread,
      OSJoinThread, JoinReturn, OSDetachThread, At, Deliveries
<1>5. ~ CallbackStep /\ ~ GuestCall
  BY DEF CallbackStep, IdleCallback, IdleCallbackReturns, BeginCallback, EndCallback,
         GuestCall, InGuestCode, InCallback, Idling, At, Deliveries
<1> QED  BY <1>1, <1>2, <1>3, <1>4, <1>5 DEF Next, HleStep

\* A delivery that is under way remains so, unless it is performed.
LEMMA DeliveriesStay ==
  ASSUME IInv, IInv', Disciplined, DeliversFirst, [Next]_vars,
         NEW f \in Frame, f.op \in Deliveries, Pending(f)
  PROVE  Pending(f)' \/ (stack[exec] # << >> /\ Head(stack[exec]) = f)
<1> SUFFICES ASSUME ~ (stack[exec] # << >> /\ Head(stack[exec]) = f)
             PROVE  Pending(f)'
  OBVIOUS
<1>1. stack[exec] \in Seq(Frame) /\ exec \in Thread /\ stack \in [Thread -> Seq(Frame)]
  BY ChainNow
<1>2. PICK u \in Thread : f \in ToSet(stack[u])
  BY DEF Pending
<1>3. Has(stack[u], Deliveries)
  BY <1>2 DEF Has, ToSet
<1>4. ToSet(<< >>) = {}
  BY DEF ToSet
<1>5. u = exec => stack[exec] # << >> /\ f \in ToSet(Tail(stack[exec]))
  BY <1>1, <1>2, <1>4, ChainSets
<1>6. (\E v \in Thread : f \in ToSet(stack'[v])) => Pending(f)'
  BY DEF Pending
<1>7. CASE stack' = stack
  BY <1>2, <1>6, <1>7
<1>8. CASE \E ops : Onwards(ops)
  BY <1>2, <1>5, <1>6, <1>8, OnwardsChains
<1>9. CASE Ends
  <2>1. CASE u = exec
    BY <1>2, <1>5, <1>6, <1>9, <2>1, EndsChains
  <2>2. CASE u # exec
    <3>1. ~ (OSCancelThread /\ u = Arg)
      <4>1. OSCancelThread => At({"OSCancelThread"})
        BY DEF OSCancelThread
      <4> QED  BY <1>3, <2>2, <4>1 DEF DeliversFirst
    <3> QED  BY <1>2, <1>6, <1>9, <2>2, <3>1, EndsChains
  <2> QED  BY <2>1, <2>2
<1>10. CASE OSSleepTicks /\ ~ Return
  BY <1>2, <1>5, <1>6, <1>10, SleepTicksChains
<1>11. CASE Dispatch
  <2>1. CASE u = exec
    <3>1. ~ Dead(exec)
      BY <1>3, <1>11, <2>1, DispatchChains DEF DeliversFirst, At
    <3> QED  BY <1>2, <1>5, <1>6, <1>11, <2>1, <3>1, DispatchChains
  <2>2. CASE u # exec
    BY <1>2, <1>6, <1>11, <2>2, DispatchChains
  <2> QED  BY <2>1, <2>2
<1>12. CASE Pushes(Watched)
  BY <1>2, <1>6, <1>12, PushChains
<1> QED  BY <1>7, <1>8, <1>9, <1>10, <1>11, <1>12, ChainSteps

\* Who touches the tables of the sleep timers.
LEMMA TableSteps ==
  ASSUME IInv, [Next]_vars
  PROVE  \/ UNCHANGED << timers, outstanding >>
         \/ OSSleepTicks \/ ParkReturn \/ SleepTimerDue \/ Reconcile \/ OSResumeThread
         \/ /\ outstanding' = outstanding /\ stack[exec] # << >>
            /\ \E op \in {"Select", "SelectForced", "IdleLoop"} : Pump(Call(op, Null))
<1>1. CASE UNCHANGED vars
  BY <1>1 DEF vars, timerVars
<1>2. CASE SleepStep
  BY <1>2 DEF SleepStep, OSSleepThread, SleepReturn, timerVars
<1>3. CASE SchedulerStep
  <2>1. CASE SelectThread \/ IdleTimers
    BY <2>1 DEF SelectThread, IdleTimers, Idling, At
  <2> QED
    BY <1>3, <2>1
    DEF SchedulerStep, SelectReturns, SelectLeaves, Dispatch, Reschedule, LeaveIdleLoop,
        OSWakeupThread, WakeupDone, timerVars
<1>4. CASE MutexStep
  BY <1>4
  DEF MutexStep, Promote, Propagate, OSLockMutex, LockRetry, OSUnlockMutex, UnlockAll, timerVars
<1>5. CASE LifeStep
  BY <1>5, NobodyReturns
  DEF LifeStep, OSCreateThread, OSSuspendThread, OSExitThread, ExitReschedule, OSCancelThread,
      OSJoinThread, JoinReturn, OSDetachThread, timerVars
<1>6. CASE CallbackStep \/ GuestCall
  BY <1>6
  DEF CallbackStep, IdleCallback, IdleCallbackReturns, BeginCallback, EndCallback, GuestCall,
      timerVars
<1> QED  BY <1>1, <1>2, <1>3, <1>4, <1>5, <1>6 DEF Next, HleStep

\* A sleeper has been one before the step and had a wake source then, or the
\* suspension of its tick sleep is only now being executed.
WakeSource(t) ==
  \/ t \in timers \cup outstanding
  \/ Pending(Call("SleepTimerDue", t))
  \/ Pending(Call("OSResumeThread", t))

LEMMA SleepersHadSource ==
  ASSUME IInv, IInv', Disciplined, SuspendsNoSleeper, ParksAlone, SuspendNext, ParkedOnce,
         ParkHasWakeSource, [Next]_vars, NEW t \in Thread, InTickSleep(t)'
  PROVE  \/ WakeSource(t)'
         \/ Parked(t) /\ suspend[t] = 1 /\ WakeSource(t)
<1>1. Has(stack'[t], {"ParkReturn"}) /\ suspend'[t] > 0
  BY InTickSleepHas
<1>2. suspend \in [Thread -> Nat] /\ suspend' \in [Thread -> Nat] /\ exec \in Thread
  BY DEF IInv, TypeOK
<1>3. CASE OSSleepTicks /\ ~ Return /\ t = exec
  <2>1. t \in outstanding'
    BY <1>3, SleepTicksChains
  <2> QED  BY <2>1 DEF WakeSource
<1>4. CASE Has(stack[t], {"ParkReturn"})
  <2>1. CASE OSSuspendThread /\ t = Arg
    <3>1. At({"OSSuspendThread"})
      BY <2>1 DEF OSSuspendThread
    <3>2. t = exec /\ exec \in outstanding
      BY <1>4, <2>1, <3>1 DEF SuspendsNoSleeper, SuspendNext
    <3>3. outstanding' = outstanding
      BY <2>1 DEF OSSuspendThread, timerVars
    <3>4. t \in outstanding'
      BY <3>2, <3>3
    <3> QED  BY <3>4 DEF WakeSource
  <2>2. ~ (OSCreateThread /\ t = Arg)
    <3>1. OSCreateThread => Dead(Arg)
      BY DEF OSCreateThread, IInv, ControlInv, CreateNext
    <3> QED  BY <1>4, <3>1 DEF ParkedOnce, Dead
  <2>3. CASE suspend'[t] <= suspend[t]
    <3>1. suspend[t] = 1 /\ state[t] \in {"ready", "running"}
      BY <1>1, <1>2, <1>4, <2>3 DEF ParkedOnce
    <3>2. Placed(t)
      BY DEF IInv, QueueInv
    <3>3. Parked(t)
      BY <3>1, <3>2 DEF Placed, Parked
    <3>4. InTickSleep(t)
      BY <1>4, <3>1, InTickSleepHas
    <3> QED  BY <3>1, <3>3, <3>4 DEF ParkHasWakeSource, WakeSource
  <2> QED  BY <2>1, <2>2, <2>3, StandSteps
<1> QED  BY <1>1, <1>3, <1>4, SleepersBefore

LEMMA WakeSourceStep ==
  ASSUME IInv, IInv', Disciplined, SuspendsNoSleeper, DeliversFirst, ParksAlone, SuspendNext,
         ParkedOnce, ParkHasWakeSource, [Next]_vars
  PROVE  ParkHasWakeSource'
<1> SUFFICES ASSUME NEW t \in Thread, InTickSleep(t)'
             PROVE  WakeSource(t)'
  BY DEF ParkHasWakeSource, WakeSource
<1> SUFFICES ASSUME Parked(t), suspend[t] = 1, WakeSource(t)
             PROVE  WakeSource(t)'
  BY SleepersHadSource
<1>1. suspend'[t] > 0
  BY DEF InTickSleep
<1>2. /\ suspend \in [Thread -> Nat] /\ stack \in [Thread -> Seq(Frame)] /\ exec \in Thread
      /\ stack[exec] \in Seq(Frame) /\ state[t] = "ready"
  BY ChainNow DEF IInv, TypeOK, Parked
<1>3. Call("SleepTimerDue", t) \in Frame /\ Call("OSResumeThread", t) \in Frame
      /\ Call("SleepTimerDue", t).op = "SleepTimerDue" /\ Call("SleepTimerDue", t).arg = t
      /\ Call("OSResumeThread", t).op = "OSResumeThread" /\ Call("OSResumeThread", t).arg = t
  BY FrameFacts, FramesFacts DEF ThreadCall
<1>4. /\ t \in timers' \/ t \in outstanding' => WakeSource(t)'
      /\ \A u \in Thread :
           Call("SleepTimerDue", t) \in ToSet(stack'[u]) \/ Call("OSResumeThread", t) \in ToSet(stack'[u])
             => WakeSource(t)'
  BY DEF WakeSource, Pending
\* A resumption ends the sleep.
<1>5. ~ (OSResumeThread /\ Arg = t)
  <2> SUFFICES ASSUME OSResumeThread, Arg = t
               PROVE  FALSE
    OBVIOUS
  <2>1. suspend' = [suspend EXCEPT ![t] = Resumed(@)]
    BY DEF OSResumeThread
  <2>2. suspend'[t] = Resumed(suspend[t])
    BY <1>2, <2>1
  <2>3. Resumed(suspend[t]) = 0
    BY DEF Resumed
  <2> QED  BY <1>1, <2>2, <2>3
\* A due timer leads to one.
<1>6. ASSUME SleepTimerDue, Arg = t
      PROVE  WakeSource(t)'
  <2>1. Continue(<< Call("OSResumeThread", t) >>) /\ stack[exec] # << >>
    BY <1>6 DEF SleepTimerDue, At
  <2> DEFINE f == Call("OSResumeThread", t)
  <2>2. << f >> \in Seq(Frame) /\ f \in ToSet(<< f >>)
    BY <1>3, FramesFacts DEF ToSet
  <2>3. ToSet(stack'[exec]) = ToSet(<< f >>) \cup ToSet(Tail(stack[exec]))
    BY <2>1, <2>2, ContinueSets
  <2> QED  BY <1>2, <1>4, <2>2, <2>3
<1>7. CASE Pending(Call("SleepTimerDue", t)) \/ Pending(Call("OSResumeThread", t))
  <2>1. PICK f \in {Call("SleepTimerDue", t), Call("OSResumeThread", t)} : Pending(f)
    BY <1>7
  <2>2. f \in Frame /\ f.op \in Deliveries
    BY <1>3, <2>1 DEF Deliveries
  <2>3. CASE Pending(f)'
    <3>1. \E u \in Thread : f \in ToSet(stack'[u])
      BY <2>3 DEF Pending
    <3> QED  BY <1>4, <2>1, <3>1
  <2>4. CASE stack[exec] # << >> /\ Head(stack[exec]) = f
    <3>1. At({f.op}) /\ Arg = t
      BY <1>3, <2>1, <2>4 DEF At, Arg
    <3>2. CASE UNCHANGED vars
      <4>1. stack' = stack
        BY <3>2 DEF vars, fiberVars
      <4>2. f \in ToSet(stack[exec])
        BY <1>2, <2>4, ChainSets
      <4> QED  BY <1>2, <1>4, <2>1, <4>1, <4>2
    <3>3. CASE Next
      <4>1. At(Deliveries)
        BY <2>2, <3>1 DEF At
      <4>2. SleepTimerDue \/ OSResumeThread
        BY <3>3, <4>1, DeliverOnly
      <4> QED  BY <1>5, <1>6, <3>1, <4>2
    <3> QED  BY <3>2, <3>3
  <2> QED  BY <2>1, <2>2, <2>3, <2>4, DeliveriesStay
<1>8. CASE t \in timers \cup outstanding
  <2>1. CASE UNCHANGED << timers, outstanding >>
    BY <1>4, <1>8, <2>1
  <2>2. CASE OSSleepTicks
    <3>1. timers \subseteq timers' /\ outstanding \subseteq outstanding'
      BY <2>2 DEF OSSleepTicks
    <3> QED  BY <1>4, <1>8, <3>1
  <2>3. CASE ParkReturn
    <3>1. CASE t = exec
      <4>1. suspend' = [suspend EXCEPT ![exec] = @ - 1]
        BY <2>3, <3>1 DEF ParkReturn
      <4> QED  BY <1>1, <1>2, <3>1, <4>1
    <3>2. CASE t # exec
      <4>1. timers \ {exec} \subseteq timers' /\ outstanding \ {exec} \subseteq outstanding'
        BY <2>3 DEF ParkReturn
      <4> QED  BY <1>4, <1>8, <3>2, <4>1
    <3> QED  BY <3>1, <3>2
  <2>4. CASE SleepTimerDue
    <3>1. Arg # t => t \in timers' \cup outstanding'
      BY <1>8, <2>4 DEF SleepTimerDue
    <3> QED  BY <1>4, <1>6, <2>4, <3>1
  <2>5. CASE OSResumeThread
    <3>1. Arg # t
      BY <1>5, <2>5
    <3>2. timers \ {Arg} \subseteq timers' /\ outstanding \ {Arg} \subseteq outstanding'
      BY <2>5 DEF OSResumeThread
    <3> QED  BY <1>4, <1>8, <3>1, <3>2
  <2>6. CASE Reconcile
    <3>1. CASE t \in timers \/ outstanding' = outstanding
      <4>1. timers' = timers
        BY <2>6 DEF Reconcile
      <4> QED  BY <1>4, <1>8, <3>1, <4>1
    <3>2. CASE t \notin timers /\ outstanding' # outstanding
      <4> DEFINE stranded == {v \in outstanding \ timers : Parked(v)}
                 S == IF Deep THEN {} ELSE stranded \cap firstSeen
      <4>1. PICK heal \in Orderings(S) :
              /\ outstanding' = (outstanding \ ((outstanding \ timers) \ stranded)) \ ToSet(heal)
              /\ Continue(Each("OSResumeThread", heal))
        BY <2>6, <3>2 DEF Reconcile
      <4>2. S \in SUBSET Thread /\ IsFiniteSet(Thread)
        BY ConstantTypes DEF ConstantTypes, IInv, TypeOK
      <4>3. t \in stranded
        BY <1>8, <3>2
      <4> HIDE DEF S, stranded
      <4>4. heal \in Seq(Thread)
        BY <4>1, <4>2, OrderingFacts
      <4>5. CASE t \in ToSet(heal)
        <5> DEFINE g == Each("OSResumeThread", heal)
        <5>1. g \in Seq(Frame) /\ Call("OSResumeThread", t) \in ToSet(g)
          BY <4>4, <4>5, EachFacts, EachHas
        <5>2. Continue(g) /\ stack[exec] # << >>
          BY <2>6, <4>1 DEF Reconcile, At
        <5> HIDE DEF g
        <5>3. ToSet(stack'[exec]) = ToSet(g) \cup ToSet(Tail(stack[exec]))
          BY <5>1, <5>2, ContinueSets
        <5> QED  BY <1>2, <1>4, <5>1, <5>3
      <4>6. CASE t \notin ToSet(heal)
        <5>1. t \in outstanding'
          BY <1>8, <3>2, <4>1, <4>3, <4>6
        <5> QED  BY <1>4, <5>1
      <4> QED  BY <4>5, <4>6
    <3> QED  BY <3>1, <3>2
  <2>7. ASSUME outstanding' = outstanding, stack[exec] # << >>,
               NEW op \in {"Select", "SelectForced", "IdleLoop"}, Pump(Call(op, Null))
        PROVE  WakeSource(t)'
    <3> DEFINE S == IF Deep THEN {} ELSE timers
    <3>1. PICK due \in Orderings(S) :
            /\ timers' = timers \ ToSet(due)
            /\ Continue(Each("SleepTimerDue", due) \o << Call("Reconcile", Null), Call(op, Null) >>)
      BY <2>7 DEF Pump
    <3>2. S \in SUBSET Thread /\ IsFiniteSet(Thread)
      BY ConstantTypes DEF ConstantTypes, IInv, TypeOK
    <3> HIDE DEF S
    <3>3. due \in Seq(Thread)
      BY <3>1, <3>2, OrderingFacts
    <3>4. CASE t \in ToSet(due)
      <4> DEFINE e == Each("SleepTimerDue", due)
                 r == << Call("Reconcile", Null), Call(op, Null) >>
      <4>1. e \in Seq(Frame) /\ Call("SleepTimerDue", t) \in ToSet(e)
        BY <3>3, <3>4, EachFacts, EachHas
      <4>2. r \in Seq(Frame)
        BY FrameFacts, FramesFacts
      <4> HIDE DEF e, r
      <4>3. e \o r \in Seq(Frame) /\ ToSet(e \o r) = ToSet(e) \cup ToSet(r)
        BY <4>1, <4>2, ConcatSets, ConcatProperties
      <4>4. Continue(e \o r)
        BY <3>1 DEF e, r
      <4>5. ToSet(stack'[exec]) = ToSet(e \o r) \cup ToSet(Tail(stack[exec]))
        BY <2>7, <4>3, <4>4, ContinueSets
      <4> QED  BY <1>2, <1>4, <4>1, <4>3, <4>5
    <3>5. CASE t \notin ToSet(due)
      BY <1>4, <1>8, <2>7, <3>1, <3>5
    <3> QED  BY <3>4, <3>5
  <2> QED  BY <2>1, <2>2, <2>3, <2>4, <2>5, <2>6, <2>7, TableSteps
<1> QED  BY <1>7, <1>8 DEF WakeSource

LEMMA InitParks ==
  ASSUME Init
  PROVE  ParkInv
<1>1. \A u \in Thread : stack[u] = << >>
  BY DEF Init
<1>2. \A ops : ~ Has(<< >>, ops)
  BY FramesFacts DEF Has
<1>3. exec \in Thread /\ \A u \in Thread : suspend[u] = 0
  BY ConstantTypes DEF Init, ConstantTypes
<1>4. ParksAlone /\ SuspendNext /\ ParkedOnce
  BY <1>1, <1>2, <1>3 DEF ParksAlone, SuspendNext, ParkedOnce, At
<1>5. ParkHasWakeSource
  BY <1>3 DEF ParkHasWakeSource, InTickSleep
<1> QED  BY <1>4, <1>5 DEF ParkInv

\* The invariant of tick sleeps, for disciplined guest code that suspends no
\* thread in a tick sleep, as long as no fiber is dropped that is delivering.
THEOREM ParkInvariantHolds ==
  ASSUME Disciplined
  PROVE  Spec /\ []SuspendsNoSleeper /\ []DeliversFirst => []ParkInv
<1>1. Init => ParkInv
  BY InitParks
<1>2. ParkInv /\ IInv /\ IInv' /\ SuspendsNoSleeper /\ DeliversFirst /\ [Next]_vars => ParkInv'
  BY ParksAloneStep, SuspendNextStep, ParkedOnceStep, WakeSourceStep DEF ParkInv
<1>3. Spec => []IInv
  BY InvariantHolds
<1> QED  BY <1>1, <1>2, <1>3, PTL DEF Spec

\* Nobody sleeps for ever: a thread in a tick sleep has a timer, or is known to
\* the reconciler, or its resumption is under way.
THEOREM SleepersHaveWakeSource ==
  ASSUME Disciplined
  PROVE  Spec /\ []SuspendsNoSleeper /\ []DeliversFirst => []ParkHasWakeSource
<1>1. ParkInv => ParkHasWakeSource
  BY DEF ParkInv
<1> QED  BY <1>1, ParkInvariantHolds, PTL
=============================================================================
