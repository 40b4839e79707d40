---------------------------- MODULE CallbackPump ----------------------------
(***************************************************************************)
(* The pump that takes the place of the guest's interrupts: due alarms,    *)
(* finished network operations and the completion callbacks of             *)
(* asynchronous NAND calls are delivered by ProcessAlarmQueue, which guest *)
(* code reaches through RFLiIsWorking and PPCMtdec, the graphics code      *)
(* through OS_HLE_ProcessAlarmsDeferred, and the scheduler from its idle   *)
(* loop; VI retraces are delivered by AdvanceRetrace.  The guards of these *)
(* functions are shared by all fibers, and some of the guest code they run *)
(* may switch fibers while a guard is held.                                *)
(*                                                                         *)
(* Of every fiber the model keeps the host frames of the pump that are on  *)
(* its stack, the innermost first; a step is one of the fiber that         *)
(* executes.  The scheduler is the one of OSScheduler, with the order      *)
(* inside a run queue left open.                                           *)
(***************************************************************************)
EXTENDS Integers, SequencesExt

CONSTANTS
  Thread,       (* OSThread blocks, and their fibers                       *)
  Main,         (* the thread that executes first                          *)
  Prio,         (* the priority of each thread, 0 the most urgent          *)
  Alarm,        (* OSAlarm blocks                                          *)
  Delay,        (* how long after it is set an alarm fires                 *)
  Periodic,     (* the alarms that fire again, each time after their delay *)
  Callback,     (* completion callbacks of calls that are outstanding      *)
  Null,         (* no thread, no callback                                  *)
  MaxToProcess, (* the limit ProcessAlarmQueue is called with              *)
  MaxCallbacks, (* the limit of NandProcessPendingCallbacks                *)
  MaxTime       (* bound: the clock stops here                             *)

ASSUME PumpConstants ==
  /\ Main \in Thread
  /\ Prio \in [Thread -> Nat]
  /\ Delay \in [Alarm -> Nat \ {0}]
  /\ Periodic \subseteq Alarm
  /\ MaxToProcess \in Nat \ {0}
  /\ MaxCallbacks \in Nat \ {0}
  /\ MaxTime \in Nat
  /\ Null \notin Thread \cup Callback

VARIABLES
  state,        (* OSThread.state                                          *)
  running,      (* kOSRunningContextAddr; Null in the idle loop, where the *)
                (* current context is the idle one                         *)
  exec,         (* the thread whose fiber executes                         *)
  resched,      (* kSchedulerReschedCounterAddr # 0                        *)
  disable,      (* the OSDisableScheduler nesting count                    *)
  retracing,    (* s_inAdvanceRetrace                                      *)
  alarmDepth,   (* g_alarmProcessDepth                                     *)
  drainDepth,   (* g_nandCallbackDrainDepth                                *)
  stack,        (* the frames of the pump on the stack of each fiber       *)
  now,          (* the time base                                           *)
  armed,        (* the alarm queue: alarms and when they fire              *)
  pending       (* g_pendingNandCallbacks                                  *)

schedVars == << state, running, exec, resched >>
guardVars == << disable, retracing, alarmDepth, drainDepth >>
alarmVars == << now, armed >>
vars == << schedVars, guardVars, stack, alarmVars, pending >>

-----------------------------------------------------------------------------
(* Frames.  "Alarms" and "Callbacks" are the loops inside their guards,    *)
(* with how many rounds are left; "Handler", "Callback" and "Retrace" are  *)
(* guest code they run.  "Finish" is the end of ProcessAlarmQueue, with    *)
(* whether a completion was delivered.                                     *)

Frame ==
  [op : {"Alarms", "Callbacks", "Finish"}, arg : Nat] \cup
  [op : {"Callback"}, arg : Callback] \cup
  [op : {"Idle", "Pump", "Complete", "Handler", "Retrace", "Deferred"}, arg : {Null}]

Do(op, arg) == << [op |-> op, arg |-> arg] >>

At(ops) == stack[exec] # << >> /\ Head(stack[exec]).op \in ops
Arg == Head(stack[exec]).arg
Rest == Tail(stack[exec])

\* The fiber that executes goes on with these frames.
GoesOn(frames) == stack' = [stack EXCEPT ![exec] = frames]

InThread == stack[exec] = << >>
InGuestCode == InThread \/ At({"Handler", "Callback", "Retrace"})

-----------------------------------------------------------------------------
(* SelectThread, called with the threads in the states st by a caller that *)
(* goes on with the frames `rest`.                                         *)

ReadyIn(st) == {t \in Thread : st[t] = "ready"}

\* Nobody of a strictly higher priority is ready.
KeepsRunning(st) ==
  /\ st[running] = "running"
  /\ \A t \in ReadyIn(st) : Prio[running] <= Prio[t]

SwitchAway(st, rest) ==
  \E t \in ReadyIn(st) :
    /\ \A u \in ReadyIn(st) : Prio[t] <= Prio[u]
    /\ state' = [st EXCEPT ![t] = "running"]
    /\ running' = t
    /\ exec' = t
    /\ resched' = FALSE
    /\ GoesOn(rest)

Stays(st, rest) ==
  /\ state' = st
  /\ GoesOn(rest)
  /\ UNCHANGED << running, exec >>

SelectThread(st, rest) ==
  LET left == IF st[running] = "running" THEN [st EXCEPT ![running] = "ready"] ELSE st
  IN  IF disable' # 0 \/ running = Null \/ KeepsRunning(st)
      THEN Stays(st, rest) /\ resched' = (resched \/ st # state)
      ELSE IF ReadyIn(left) # {}
      THEN SwitchAway(left, rest)
      ELSE /\ state' = left
           /\ running' = Null
           /\ resched' = TRUE
           /\ GoesOn(Do("Idle", Null) \o rest)
           /\ UNCHANGED exec

\* Mutant: a retrace does not keep the switch back.
RescheduleInRetrace(rest) ==
  IF resched THEN SelectThread(state, rest)
             ELSE Stays(state, rest) /\ UNCHANGED resched

RunDeferredReschedule(rest) ==
  IF resched /\ ~ retracing
  THEN SelectThread(state, rest)
  ELSE Stays(state, rest) /\ UNCHANGED resched

\* Threads that wait for something become ready.
Waiting == {t \in Thread : state[t] = "waiting"}
Woken(W) == [t \in Thread |-> IF t \in W THEN "ready" ELSE state[t]]

OSWakeupThread ==
  /\ UNCHANGED << guardVars, alarmVars, pending >>
  /\ InGuestCode
  /\ \E t \in Waiting :
       IF retracing
       THEN Stays(Woken({t}), stack[exec]) /\ resched' = TRUE
       ELSE SelectThread(Woken({t}), stack[exec])

\* A thread that was suspended becomes ready, or nobody does and an earlier
\* request is still open.  Unlike OSWakeupThread it switches in a retrace, too.
OSResumeThread ==
  /\ UNCHANGED << guardVars, alarmVars, pending >>
  /\ InGuestCode
  /\ \E st \in {state} \cup {Woken({t}) : t \in Waiting} :
       /\ resched \/ st # state
       /\ SelectThread(st, stack[exec])

\* Only threads block: on the console callbacks execute in an interrupt.
OSSleepThread ==
  /\ UNCHANGED << guardVars, alarmVars, pending >>
  /\ InThread
  /\ SelectThread([state EXCEPT ![exec] = "waiting"], << >>)

-----------------------------------------------------------------------------
(* The alarm queue.                                                        *)

Tick ==
  /\ now < MaxTime
  /\ now' = now + 1
  /\ UNCHANGED << schedVars, guardVars, stack, armed, pending >>

Entry(al, time) == [alarm |-> al, fire |-> time]
Set == {armed[i].alarm : i \in DOMAIN armed}

\* Mutant: an alarm goes to the end of the queue.
InsertLast(queue, e) == Append(queue, e)

\* In front of the first alarm that fires later.
InsertAlarm(queue, e) ==
  LET earlier == {i \in DOMAIN queue : \A j \in 1 .. i : queue[j].fire <= e.fire}
  IN  InsertAt(queue, Cardinality(earlier) + 1, e)

\* OSSetAlarm and OSSetPeriodicAlarm, for an alarm that is not set.
OSSetAlarm ==
  /\ InGuestCode
  /\ \E al \in Alarm \ Set : armed' = InsertAlarm(armed, Entry(al, now + Delay[al]))
  /\ UNCHANGED << schedVars, guardVars, stack, now, pending >>

\* A function of the guest, which the HLE does not replace.
OSCancelAlarm ==
  /\ InGuestCode
  /\ \E i \in DOMAIN armed : armed' = RemoveAt(armed, i)
  /\ UNCHANGED << schedVars, guardVars, stack, now, pending >>

HeadIsDue == armed # << >> /\ Head(armed).fire <= now

\* The first of the times of a periodic alarm that is to come.
NextTime(e) == e.fire + Delay[e.alarm] * ((now - e.fire) \div Delay[e.alarm] + 1)

\* The queue once its head has fired: a periodic alarm is inserted again.
HeadFired ==
  LET e == Head(armed)
  IN  IF e.alarm \in Periodic
      THEN InsertAlarm(Tail(armed), Entry(e.alarm, NextTime(e)))
      ELSE Tail(armed)

-----------------------------------------------------------------------------
(* ProcessAlarmQueue.                                                      *)

\* From RFLiIsWorking or PPCMtdec; while an alarm is being processed it does
\* nothing.
ProcessAlarmQueue ==
  /\ InGuestCode
  /\ alarmDepth = 0
  /\ alarmDepth' = alarmDepth + 1
  /\ GoesOn(Do("Alarms", MaxToProcess) \o stack[exec])
  /\ UNCHANGED << schedVars, disable, retracing, drainDepth, alarmVars, pending >>

\* OS_HLE_ProcessAlarmsDeferred, out of the graphics code of a thread.
ProcessAlarmsDeferred ==
  /\ InThread
  /\ disable' = disable + 1
  /\ GoesOn(Do("Pump", Null) \o Do("Deferred", Null))
  /\ UNCHANGED << schedVars, retracing, alarmDepth, drainDepth, alarmVars, pending >>

\* The call that idle loop and graphics code make.
Pump ==
  /\ At({"Pump"})
  /\ IF alarmDepth = 0
     THEN /\ alarmDepth' = alarmDepth + 1
          /\ GoesOn(Do("Alarms", MaxToProcess) \o Rest)
     ELSE /\ GoesOn(Rest)
          /\ UNCHANGED alarmDepth
  /\ UNCHANGED << schedVars, disable, retracing, drainDepth, alarmVars, pending >>

\* The handler executes with the scheduler disabled.
FireAlarm ==
  /\ At({"Alarms"})
  /\ Arg > 0 /\ HeadIsDue
  /\ armed' = HeadFired
  /\ disable' = disable + 1
  /\ GoesOn(Do("Handler", Null) \o Do("Alarms", Arg - 1) \o Rest)
  /\ UNCHANGED << schedVars, retracing, alarmDepth, drainDepth, now, pending >>

\* The reschedule comes while the guard is still held.
HandlerReturns ==
  /\ At({"Handler"})
  /\ disable' = disable - 1
  /\ RunDeferredReschedule(Rest)
  /\ UNCHANGED << retracing, alarmDepth, drainDepth, alarmVars, pending >>

\* Mutant: the guard is not released.
LeaveAlarmsGuarded ==
  /\ At({"Alarms"})
  /\ Arg = 0 \/ ~ HeadIsDue
  /\ GoesOn(Do("Complete", Null) \o Rest)
  /\ UNCHANGED << schedVars, guardVars, alarmVars, pending >>

LeaveAlarms ==
  /\ At({"Alarms"})
  /\ Arg = 0 \/ ~ HeadIsDue
  /\ alarmDepth' = alarmDepth - 1
  /\ GoesOn(Do("Complete", Null) \o Rest)
  /\ UNCHANGED << schedVars, disable, retracing, drainDepth, alarmVars, pending >>

\* Mutant: no guard.
AlwaysDrains == TRUE

MayDrain == drainDepth = 0

\* The callbacks of calls in flight; at most one call per callback.
Outstanding ==
  {c \in Callback : /\ c \notin ToSet(pending)
                    /\ \A t \in Thread : \A i \in DOMAIN stack[t] :
                         stack[t][i].op = "Callback" => stack[t][i].arg # c}

\* Network_HLE_ProcessCompletions: the waiters of synchronous requests become
\* ready, the callbacks of asynchronous ones are queued.  Then the callbacks
\* are drained, unless that is being done already.
ProcessCompletions ==
  /\ At({"Complete"})
  /\ \E W \in SUBSET Waiting : \E cs \in {<< >>} \cup {<< c >> : c \in Outstanding} :
       /\ state' = Woken(W)
       /\ resched' = (resched \/ W # {})
       /\ pending' = pending \o cs
       /\ LET finish == Do("Finish", IF W # {} \/ cs # << >> THEN 1 ELSE 0) \o Rest
          IN  GoesOn(IF MayDrain THEN Do("Callbacks", MaxCallbacks) \o finish ELSE finish)
  /\ drainDepth' = IF MayDrain THEN drainDepth + 1 ELSE drainDepth
  /\ UNCHANGED << running, exec, disable, retracing, alarmDepth, alarmVars >>

\* NandProcessPendingCallbacks; callbacks may be preempted.
DispatchNandCallback ==
  /\ At({"Callbacks"})
  /\ Arg > 0 /\ pending # << >>
  /\ pending' = Tail(pending)
  /\ GoesOn(Do("Callback", Head(pending)) \o Do("Callbacks", Arg - 1)
            \o Do("Finish", 1) \o Tail(Rest))
  /\ UNCHANGED << schedVars, guardVars, alarmVars >>

CallbackReturns ==
  /\ At({"Callback"})
  /\ GoesOn(Rest)
  /\ UNCHANGED << schedVars, guardVars, alarmVars, pending >>

\* Mutant: the guard is not released.
LeaveCallbacksGuarded ==
  /\ At({"Callbacks"})
  /\ Arg = 0 \/ pending = << >>
  /\ GoesOn(Rest)
  /\ UNCHANGED << schedVars, guardVars, alarmVars, pending >>

LeaveCallbacks ==
  /\ At({"Callbacks"})
  /\ Arg = 0 \/ pending = << >>
  /\ drainDepth' = drainDepth - 1
  /\ GoesOn(Rest)
  /\ UNCHANGED << schedVars, disable, retracing, alarmDepth, alarmVars, pending >>

Finish ==
  /\ UNCHANGED << guardVars, alarmVars, pending >>
  /\ At({"Finish"})
  /\ IF Arg = 1 THEN RunDeferredReschedule(Rest)
     ELSE Stays(state, Rest) /\ UNCHANGED resched

DeferredReturns ==
  /\ At({"Deferred"})
  /\ disable' = disable - 1
  /\ GoesOn(Rest)
  /\ UNCHANGED << schedVars, retracing, alarmDepth, drainDepth, alarmVars, pending >>

\* InvokeNandCallback, the end of every asynchronous NAND call.
InvokeNandCallback ==
  /\ InGuestCode
  /\ \E c \in Outstanding : pending' = Append(pending, c)
  /\ UNCHANGED << schedVars, guardVars, stack, alarmVars >>

-----------------------------------------------------------------------------
(* AdvanceRetrace and the idle loop.                                       *)

\* The retrace wakes the threads of its queue without switching to them, then
\* calls back.  Guest code gets here through VI_HLE_PollRetrace, and through
\* VI_HLE_ProcessRetracesDeferred with the scheduler disabled as well.
AdvanceRetrace(frames) ==
  /\ ~ retracing
  /\ retracing' = TRUE
  /\ \E W \in SUBSET Waiting :
       /\ state' = Woken(W)
       /\ resched' = (resched \/ W # {})
  /\ GoesOn(Do("Retrace", Null) \o frames)
  /\ UNCHANGED << running, exec, alarmDepth, drainDepth, alarmVars, pending >>

PollRetrace ==
  /\ InGuestCode
  /\ AdvanceRetrace(stack[exec])
  /\ UNCHANGED disable

ProcessRetracesDeferred ==
  /\ InThread
  /\ AdvanceRetrace(Do("Deferred", Null))
  /\ disable' = disable + 1

RetraceReturns ==
  /\ At({"Retrace"})
  /\ retracing' = FALSE
  /\ GoesOn(Rest)
  /\ UNCHANGED << schedVars, disable, alarmDepth, drainDepth, alarmVars, pending >>

\* A round of the idle loop: the retrace if it is due, then the pump.
IdleRound ==
  /\ At({"Idle"})
  /\ ReadyIn(state) = {}
  /\ \/ AdvanceRetrace(Do("Pump", Null) \o stack[exec])
     \/ /\ GoesOn(Do("Pump", Null) \o stack[exec])
        /\ UNCHANGED << schedVars, retracing, alarmDepth, drainDepth, alarmVars, pending >>
  /\ UNCHANGED disable

LeaveIdleLoop ==
  /\ At({"Idle"})
  /\ SwitchAway(state, Rest)
  /\ UNCHANGED << guardVars, alarmVars, pending >>

-----------------------------------------------------------------------------
Init ==
  /\ state = [t \in Thread |-> IF t = Main THEN "running" ELSE "waiting"]
  /\ running = Main
  /\ exec = Main
  /\ resched = FALSE
  /\ disable = 0
  /\ retracing = FALSE
  /\ alarmDepth = 0
  /\ drainDepth = 0
  /\ stack = [t \in Thread |-> << >>]
  /\ now = 0
  /\ armed = << >>
  /\ pending = << >>

\* What guest code chooses to do, and what the host does.
GuestStep ==
  \/ OSWakeupThread \/ OSResumeThread \/ OSSleepThread \/ OSSetAlarm \/ OSCancelAlarm
  \/ InvokeNandCallback \/ ProcessAlarmQueue \/ ProcessAlarmsDeferred
  \/ PollRetrace \/ ProcessRetracesDeferred

HostStep ==
  \/ Pump \/ FireAlarm \/ LeaveAlarms \/ ProcessCompletions \/ DispatchNandCallback
  \/ LeaveCallbacks \/ Finish \/ DeferredReturns \/ IdleRound \/ LeaveIdleLoop

GuestReturns == HandlerReturns \/ CallbackReturns \/ RetraceReturns

Next == Tick \/ GuestStep \/ HostStep \/ GuestReturns

Spec == Init /\ [][Next]_vars

-----------------------------------------------------------------------------
(* Fairness.  One host thread executes whatever frame is innermost on the  *)
(* executing fiber.  Guest code is that of a game: what it runs in a       *)
(* callback ends, threads block again and again, and they poll again and   *)
(* again.  Nothing is assumed of a particular thread.                      *)

FairSpec ==
  /\ Spec
  /\ WF_vars(HostStep)
  /\ SF_vars(HandlerReturns)
  /\ SF_vars(CallbackReturns)
  /\ SF_vars(RetraceReturns)
  /\ SF_vars(OSSleepThread)
  /\ SF_vars(InThread /\ ProcessAlarmQueue)

-----------------------------------------------------------------------------
(* Properties.                                                             *)

OnStack(f, ops) == \E i \in DOMAIN stack[f] : stack[f][i].op \in ops

\* The types.
TypeOK ==
  /\ state \in [Thread -> {"ready", "running", "waiting"}]
  /\ running \in Thread \cup {Null}
  /\ exec \in Thread
  /\ resched \in BOOLEAN
  /\ disable \in Nat
  /\ retracing \in BOOLEAN
  /\ alarmDepth \in Nat
  /\ drainDepth \in Nat
  /\ stack \in [Thread -> Seq(Frame)]
  /\ now \in Nat
  /\ armed \in Seq([alarm : Alarm, fire : Nat])
  /\ pending \in Seq(Callback)

\* What an interrupt handler of the console would do in one go is not left half
\* done: no step leaves a fiber in an alarm handler or in the callbacks delivered
\* out of the graphics code, and the only one that leaves a fiber in a retrace is
\* a resumption, which enters the scheduler without a look at s_inAdvanceRetrace.
LeftIn(ops) == \E i \in DOMAIN stack'[exec] : stack'[exec][i].op \in ops
InterruptsRunToEnd ==
  [][exec' # exec => /\ ~ LeftIn({"Handler", "Deferred"})
                     /\ LeftIn({"Retrace"}) => OSResumeThread]_vars

\* The callback that executes, on whatever fiber.
InService == {c \in Callback : \E t \in Thread : \E i \in DOMAIN stack[t] :
                                 stack[t][i].op = "Callback" /\ stack[t][i].arg = c}
Serving == IF InService = {} THEN Null ELSE CHOOSE c \in InService : TRUE

Server == INSTANCE CallbackServer WITH queue <- pending, serving <- Serving

\* Completion callbacks are delivered in order, once each, and never inside
\* one another, although they pump and are preempted by threads that pump.
ImplementsServer == Server!Spec

\* An alarm fires when it is due, and none that is due earlier is left behind.
AlarmsInOrder ==
  [][FireAlarm => \A e \in ToSet(armed) :
       Head(armed).fire <= now /\ Head(armed).fire <= e.fire]_vars

\* Every callback that is queued is delivered, although a pump that finds a
\* guard held, on whatever fiber, delivers nothing.
CallbacksDelivered == \A c \in Callback : (c \in ToSet(pending)) ~> (Serving = c)

\* Every alarm that is due fires or is cancelled.
AlarmIsDue(al) == \E e \in ToSet(armed) : e.alarm = al /\ e.fire <= now
AlarmsFire == \A al \in Alarm : AlarmIsDue(al) ~> ~ AlarmIsDue(al)

\* src/wiicompiled/runtime/src/hle/os/os_alarm.cpp:164-167: the guard of the
\* alarm loop is not carried across a switch of fibers.
AlarmGuardStaysHome == \A f \in Thread \ {exec} : ~ OnStack(f, {"Alarms"})

\* src/wiicompiled/runtime/src/hle/os/os_alarm.cpp:79-83: no other guest work
\* executes under the guard of a retrace.
RetraceGuardStaysHome == \A f \in Thread \ {exec} : ~ OnStack(f, {"Retrace"})
=============================================================================
