----------------------------- MODULE OSThreadLife -----------------------------
(***************************************************************************)
(* os_thread.cpp: creation, suspension, resumption and the three ways in   *)
(* which the HLE ends a thread.                                            *)
(***************************************************************************)
EXTENDS OSKernel

-----------------------------------------------------------------------------
(* Create, suspend, resume.                                                *)

\* The thread starts ready, suspended once, with a fresh fiber that will begin
\* in guest code.  The queue pointer of the block is left as it was found.
OSCreateThread ==
  /\ At({"OSCreateThread"})
  /\ LET t == Arg
     IN  /\ state' = [state EXCEPT ![t] = "ready"]
         /\ suspend' = [suspend EXCEPT ![t] = 1]
         /\ prio' = [prio EXCEPT ![t] = BasePriority[t]]
         /\ detached' = [detached EXCEPT ![t] = (t \in Detached)]
         /\ blockedOn' = [blockedOn EXCEPT ![t] = Null]
         /\ held' = [held EXCEPT ![t] = << >>]
         /\ links' = [queue   |-> [links.queue EXCEPT ![t] = << >>],
                     at      |-> links.at,
                     pending |-> links.pending]
         /\ listed' = listed \cup {t}
  /\ Return
  /\ UNCHANGED << resched, schedVars, owner, count, timerVars, exec >>

\* The first suspension takes the thread off its run queue, marks a running
\* thread as ready without linking it, or moves a waiter behind the others.
OSSuspendThread ==
  /\ At({"OSSuspendThread"})
  /\ LET t == Arg
         first == suspend[t] = 0
         waits == first /\ state[t] = "waiting"
     IN  /\ suspend' = [suspend EXCEPT ![t] = @ + 1]
         /\ state' = IF first /\ state[t] = "running"
                     THEN [state EXCEPT ![t] = "ready"] ELSE state
         /\ resched' = (resched \/ (first /\ state[t] = "running"))
         /\ prio' = IF waits THEN [prio EXCEPT ![t] = SuspendedWaitPriority] ELSE prio
         /\ links' = CASE OnRunQueue(t) -> Unlink(links, t)
                       [] waits /\ links.at[t] # Null ->
                            InsertByPriority(Unlink(links, t), links.at[t], t,
                                             SuspendedWaitPriority, prio)
                       [] OTHER -> links
         /\ Continue(IF ~ first THEN << >>
                     ELSE IF waits
                     THEN << Call("Propagate", OwnerOf(blockedOn[t])),
                             Call("Reschedule", Null) >>
                     ELSE << Call("Reschedule", Null) >>)
  /\ UNCHANGED << lifeVars, schedVars, mutexVars, timerVars, exec >>

\* Mutant: a thread that is not suspended is resumed below zero.
ResumedUnclamped(n) == n - 1

Resumed(n) == IF n = 0 THEN 0 ELSE n - 1

\* The last resumption cancels a tick sleep and puts the thread back where its
\* state says: into its wait queue at its own priority, or on a run queue.
OSResumeThread ==
  /\ At({"OSResumeThread"})
  /\ LET t == Arg
         last == suspend[t] = 1
         p == EffectivePriority(t)
         waits == last /\ state[t] = "waiting"
         runs == last /\ state[t] \in {"ready", "running"}
     IN  /\ suspend' = [suspend EXCEPT ![t] = Resumed(@)]
         /\ timers' = IF last THEN timers \ {t} ELSE timers
         /\ outstanding' = IF last THEN outstanding \ {t} ELSE outstanding
         /\ prio' = IF waits \/ runs THEN [prio EXCEPT ![t] = p] ELSE prio
         /\ state' = IF runs THEN [state EXCEPT ![t] = "ready"] ELSE state
         /\ resched' = (resched \/ runs)
         /\ links' = CASE runs -> InsertByPriority(links, p, t, p, prio)
                       [] waits /\ links.at[t] # Null ->
                            InsertByPriority(Unlink(links, t), links.at[t], t, p, prio)
                       [] OTHER -> links
         /\ Continue(IF ~ last THEN << >>
                     ELSE IF waits
                     THEN << Call("Propagate", OwnerOf(blockedOn[t])),
                             Call("Reschedule", Null) >>
                     ELSE << Call("Reschedule", Null) >>)
  /\ UNCHANGED << lifeVars, schedVars, mutexVars, firstSeen, exec >>

-----------------------------------------------------------------------------
(* Exit, cancel, join, detach.                                             *)

\* Mutant: nobody is told that the thread has ended.
JoinersForgotten(t, then) == << Call("UnlockAll", t), then >>

\* Mutant: the mutexes stay locked.
MutexesForgotten(t, then) == << Call("OSWakeupThread", t), then >>

\* What is left to do for a thread that has ended.
LastRites(t, then) == << Call("UnlockAll", t), Call("OSWakeupThread", t), then >>

\* TerminateThreadCommon, up to its calls into the scheduler: the thread is
\* delisted if it is detached, and its fiber is destroyed unless it is the one
\* that executes.  `then` is what its caller does after the joiners are woken.
Terminate(t, then) ==
  /\ listed' = IF detached[t] THEN listed \ {t} ELSE listed
  /\ state' = [state EXCEPT ![t] = IF detached[t] THEN "none" ELSE "moribund"]
  /\ stack' = [u \in Thread |->
                 IF u = exec
                 THEN LastRites(t, then) \o Tail(stack[u])
                 ELSE IF u = t THEN << >> ELSE stack[u]]

OSExitThread ==
  /\ At({"OSExitThread"})
  /\ IF running = Null
     THEN Return /\ UNCHANGED << state, listed >>
     ELSE Terminate(running, Call("ExitReschedule", Null))
  /\ UNCHANGED << suspend, prio, detached, links, resched, schedVars, mutexVars,
                  timerVars, exec >>

ExitReschedule ==
  /\ At({"ExitReschedule"})
  /\ resched' = TRUE
  /\ Continue(<< Call("SelectThread", Null) >>)
  /\ UNCHANGED << threadVars, lifeVars, links, schedVars, mutexVars, timerVars, exec >>

OSCancelThread ==
  /\ At({"OSCancelThread"})
  /\ LET t == Arg
         linked == state[t] = "waiting" \/ OnRunQueue(t)
     IN  IF Dead(t)
         THEN Return /\ UNCHANGED << state, listed, links, resched >>
         ELSE /\ links' = IF linked THEN Unlink(links, t) ELSE links
              /\ resched' = (resched \/ state[t] = "running")
              /\ Terminate(t, Call("Reschedule", Null))
  /\ UNCHANGED << suspend, prio, detached, schedVars, mutexVars, timerVars, exec >>

\* Reap a thread that has ended.
Reap(t) ==
  /\ listed' = listed \ {t}
  /\ state' = [state EXCEPT ![t] = "none"]

\* One thread may wait for the end of a thread that is not detached.
OSJoinThread ==
  /\ At({"OSJoinThread"})
  /\ LET t == Arg
     IN  IF ~ detached[t] /\ state[t] # "moribund" /\ links.queue[t] = << >>
         THEN /\ Continue(<< Call("OSSleepThread", t), Call("JoinReturn", t) >>)
              /\ UNCHANGED << state, listed >>
         ELSE /\ IF state[t] = "moribund" THEN Reap(t) ELSE UNCHANGED << state, listed >>
              /\ Return
  /\ UNCHANGED << suspend, prio, detached, links, resched, schedVars, mutexVars,
                  timerVars, exec >>

JoinReturn ==
  /\ At({"JoinReturn"})
  /\ IF state[Arg] = "moribund" THEN Reap(Arg) ELSE UNCHANGED << state, listed >>
  /\ Return
  /\ UNCHANGED << suspend, prio, detached, links, resched, schedVars, mutexVars,
                  timerVars, exec >>

OSDetachThread ==
  /\ At({"OSDetachThread"})
  /\ detached' = [detached EXCEPT ![Arg] = TRUE]
  /\ IF state[Arg] = "moribund" THEN Reap(Arg) ELSE UNCHANGED << state, listed >>
  /\ Continue(<< Call("OSWakeupThread", Arg) >>)
  /\ UNCHANGED << suspend, prio, links, resched, schedVars, mutexVars, timerVars, exec >>
=============================================================================
