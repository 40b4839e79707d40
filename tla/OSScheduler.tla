----------------------------- MODULE OSScheduler -----------------------------
(***************************************************************************)
(* os_scheduler.cpp and the switch of fiber_manager.cpp: SelectThread, its *)
(* idle loop, OSWakeupThread, and the callbacks that the HLE runs in the   *)
(* idle loop or in the middle of a thread.                                 *)
(***************************************************************************)
EXTENDS OSSleep

-----------------------------------------------------------------------------
(* SelectThread.                                                           *)

\* Every call first delivers the sleep timers that are due.  OSYieldThread is
\* the call that insists on a switch.
SelectThread ==
  /\ At({"SelectThread", "OSYieldThread"})
  /\ Pump(Call(IF At({"SelectThread"}) THEN "Select" ELSE "SelectForced", Null))
  /\ UNCHANGED << threadVars, lifeVars, links, resched, schedVars, mutexVars, outstanding,
                  firstSeen, exec >>

\* The scheduler is disabled, or the caller is not in its thread's context.
SelectRefused == disable # 0 \/ running = Null \/ current # running

\* Mutant: a thread that has been suspended goes on.
KeepsAnyRunning ==
  /\ running # Null
  /\ At({"Select"})
  /\ \A p \in links.pending : prio[running] <= p

\* Mutant: off by one.
KeepsRunningBelow ==
  /\ running # Null
  /\ state[running] = "running"
  /\ At({"Select"})
  /\ \A p \in links.pending : prio[running] <= p + 1

\* Nobody of a strictly higher priority is ready.
KeepsRunning ==
  /\ running # Null
  /\ state[running] = "running"
  /\ At({"Select"})
  /\ \A p \in links.pending : prio[running] <= p

\* Mutant: the request is taken back by a call that does not switch.
SelectReturnsCleared ==
  /\ At({"Select", "SelectForced"})
  /\ SelectRefused \/ KeepsRunning
  /\ Return
  /\ resched' = FALSE
  /\ UNCHANGED << threadVars, lifeVars, links, schedVars, mutexVars, timerVars, exec >>

\* SelectThread returns to a caller that goes on executing.
SelectReturns ==
  /\ At({"Select", "SelectForced"})
  /\ SelectRefused \/ KeepsRunning
  /\ Return
  /\ UNCHANGED << threadVars, lifeVars, links, resched, schedVars, mutexVars, timerVars,
                  exec >>

\* A running thread goes to the tail of its run queue; then there is somebody
\* to dispatch or the fiber goes into the idle loop.
SelectLeaves ==
  /\ At({"Select", "SelectForced"})
  /\ ~ SelectRefused /\ ~ KeepsRunning
  /\ LET preempted == state[running] = "running"
     IN  /\ links' = IF preempted THEN LinkOnRunQueue(links, running, prio[running])
                                  ELSE links
         /\ state' = IF preempted THEN [state EXCEPT ![running] = "ready"] ELSE state
         /\ resched' = (preempted \/ resched)
  /\ IF links'.pending = {}
     THEN /\ running' = Null
          /\ current' = IdleContext
          /\ Continue(<< Call("IdleLoop", Null) >>)
     ELSE /\ Continue(<< Call("Dispatch", Null) >>)
          /\ UNCHANGED << running, current >>
  /\ UNCHANGED << suspend, prio, lifeVars, disable, mutexVars, timerVars, exec >>

\* Take the head of the first non-empty run queue and switch to its fiber.
\* The loop drops a pending bit whose queue is empty and a dead head.  The
\* fiber of a dead thread never executes again.
Dispatch ==
  /\ At({"Dispatch"})
  /\ resched' = FALSE
  /\ LET p    == CHOOSE q \in links.pending : \A r \in links.pending : q <= r
         head == Head(links.queue[p])
         popped == UpdatePending(PopHead(links, p), p)
     IN  IF links.pending = {}
         THEN /\ Return
              /\ UNCHANGED << links, state, running, current, exec >>
         ELSE IF links.queue[p] = << >> \/ Dead(head)
         THEN /\ links' = IF links.queue[p] = << >>
                          THEN [links EXCEPT !.pending = @ \ {p}]
                          ELSE Unlink(links, head)
              /\ UNCHANGED << state, running, current, exec, stack >>
         ELSE /\ links' = ClearPointer(popped, head)
              /\ state' = [state EXCEPT ![head] = "running"]
              /\ running' = head
              /\ current' = head
              /\ exec' = head
              /\ stack' = [stack EXCEPT ![exec] = IF Dead(exec) THEN << >> ELSE Tail(@)]
  /\ UNCHANGED << suspend, prio, lifeVars, disable, mutexVars, timerVars >>

\* `if (resched) SelectThread(0)`, the tail of many calls.
Reschedule ==
  /\ At({"Reschedule"})
  /\ Continue(IF resched THEN << Call("SelectThread", Null) >> ELSE << >>)
  /\ UNCHANGED << threadVars, lifeVars, links, resched, schedVars, mutexVars, timerVars,
                  exec >>

-----------------------------------------------------------------------------
(* The idle loop, on the fiber of the last thread that ran.                *)

Idling == At({"IdleLoop"}) /\ links.pending = {}

\* A round of the loop in which some timer is due or a park is stranded; a
\* round that finds nothing to do changes nothing.
IdleTimers ==
  /\ Idling
  /\ timers # {} \/ outstanding # {}
  /\ Pump(Call("IdleLoop", Null))
  /\ UNCHANGED << threadVars, lifeVars, links, resched, schedVars, mutexVars, outstanding,
                  firstSeen, exec >>

\* Audio, VI retrace, alarm, network and NAND work of the loop that calls back
\* into guest code, without the scheduler being disabled around it.
IdleCallback ==
  /\ Idling
  /\ CallbackCalls # {}
  /\ stack' = [stack EXCEPT ![exec] = << Call("IdleCallback", Null) >> \o @]
  /\ UNCHANGED << threadVars, lifeVars, links, resched, schedVars, mutexVars, timerVars,
                  exec >>

IdleCallbackReturns ==
  /\ At({"IdleCallback"})
  /\ Return
  /\ UNCHANGED << threadVars, lifeVars, links, resched, schedVars, mutexVars, timerVars,
                  exec >>

LeaveIdleLoop ==
  /\ At({"IdleLoop"})
  /\ links.pending # {}
  /\ Continue(<< Call("Dispatch", Null) >>)
  /\ UNCHANGED << threadVars, lifeVars, links, resched, schedVars, mutexVars, timerVars,
                  exec >>

-----------------------------------------------------------------------------
(* Callbacks that interrupt a thread or the idle loop with the scheduler   *)
(* disabled around them: alarm handlers, and the deferred VI and audio     *)
(* batches.                                                                *)

BeginCallback ==
  /\ InGuestCode \/ Idling
  /\ CallbackCalls # {}
  /\ disable' = disable + 1
  /\ stack' = [stack EXCEPT ![exec] = << Call("Callback", Null) >> \o @]
  /\ UNCHANGED << threadVars, lifeVars, links, resched, running, current, mutexVars,
                  timerVars, exec >>

\* An alarm handler is followed by RunDeferredReschedule, a deferred batch is
\* not.
EndCallback ==
  /\ At({"Callback"})
  /\ disable' = disable - 1
  /\ Return \/ Continue(<< Call("Reschedule", Null) >>)
  /\ UNCHANGED << threadVars, lifeVars, links, resched, running, current, mutexVars,
                  timerVars, exec >>

-----------------------------------------------------------------------------
(* OSWakeupThread: the loop pops the waiters one by one; a waiter that is  *)
(* suspended too becomes ready without being linked.                       *)

OSWakeupThread ==
  /\ At({"OSWakeupThread", "WakeupLinked"})
  /\ links.queue[Arg] # << >>
  /\ LET t == Head(links.queue[Arg])
         popped == PopHead(links, Arg)
         p == IF prio[t] \in Priority THEN prio[t] ELSE LowestPriority
     IN  IF ~ Wakeable(t)
         THEN /\ links' = IF Dead(t) THEN ClearPointer(popped, t) ELSE popped
              /\ UNCHANGED << resched, stack >>
         ELSE /\ links' = LinkOnRunQueue(popped, t, p)
              /\ resched' = TRUE
              /\ Continue(<< Call("WakeupLinked", Arg) >>)
  /\ LET t == Head(links.queue[Arg])
     IN  state' = IF Dead(t) THEN state ELSE [state EXCEPT ![t] = "ready"]
  /\ UNCHANGED << suspend, prio, lifeVars, schedVars, mutexVars, timerVars, exec >>

\* Mutant: only the first waiter is woken.
WakeupOneDone ==
  /\ At({"OSWakeupThread", "WakeupLinked"})
  /\ links.queue[Arg] = << >> \/ At({"WakeupLinked"})
  /\ Continue(IF At({"WakeupLinked"}) THEN << Call("SelectThread", Null) >> ELSE << >>)
  /\ UNCHANGED << threadVars, lifeVars, links, resched, schedVars, mutexVars, timerVars,
                  exec >>

\* The queue is drained; if a thread was linked, SelectThread may switch to it
\* before the caller goes on.
WakeupDone ==
  /\ At({"OSWakeupThread", "WakeupLinked"})
  /\ links.queue[Arg] = << >>
  /\ Continue(IF At({"WakeupLinked"}) THEN << Call("SelectThread", Null) >> ELSE << >>)
  /\ UNCHANGED << threadVars, lifeVars, links, resched, schedVars, mutexVars, timerVars,
                  exec >>
=============================================================================
