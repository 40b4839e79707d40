----------------------------- MODULE GuestFibers -----------------------------
(***************************************************************************)
(* FiberProc of fiber_manager.cpp: what a guest fiber does when the entry  *)
(* function of its thread returns.  The way out of the fiber is a switch   *)
(* to the fiber the host started on, which is that of the default thread,  *)
(* whatever the scheduler thinks of the default thread.                    *)
(***************************************************************************)
EXTENDS OSKernel

\* The entry function has returned: unlink the thread and mark its end.  Its
\* mutexes stay locked and it stays in the list of threads.
ThreadReturns ==
  /\ At({"ThreadReturns"})
  /\ links' = Unlink(links, exec)
  /\ state' = [state EXCEPT ![exec] = IF detached[exec] THEN "none" ELSE "moribund"]
  /\ Continue(<< Call("WakeNoSwitch", exec), Call("LeaveFiber", Null) >>)
  /\ UNCHANGED << suspend, prio, lifeVars, resched, schedVars, mutexVars, timerVars, exec >>

\* WakeGuestThreadsOnQueueNoSwitch, on the join queue of the thread.  Unlike
\* OSWakeupThread it forgets the queue of a waiter that is suspended too.
WakeNoSwitch ==
  /\ At({"WakeNoSwitch"})
  /\ IF links.queue[Arg] = << >>
     THEN Return /\ UNCHANGED << state, links, resched >>
     ELSE LET t == Head(links.queue[Arg])
              unlinked == ClearPointer(PopHead(links, Arg), t)
              wakes == Wakeable(t)
              p == IF prio[t] \in Priority THEN prio[t] ELSE LowestPriority
          IN  /\ state' = IF Dead(t) THEN state ELSE [state EXCEPT ![t] = "ready"]
              /\ links' = IF wakes THEN LinkOnRunQueue(unlinked, t, p) ELSE unlinked
              /\ resched' = (wakes \/ resched)
              /\ UNCHANGED stack
  /\ UNCHANGED << suspend, prio, lifeVars, schedVars, mutexVars, timerVars, exec >>

\* Nobody runs now, and the default thread's fiber continues where it left.
LeaveFiber ==
  /\ At({"LeaveFiber"})
  /\ running' = IF running = exec THEN Null ELSE running
  /\ current' = IF current = exec THEN Null ELSE current
  /\ resched' = TRUE
  /\ exec' = Main
  /\ stack' = [stack EXCEPT ![exec] = << >>]
  /\ UNCHANGED << threadVars, lifeVars, links, disable, mutexVars, timerVars >>
=============================================================================
