------------------------------- MODULE OSSleep -------------------------------
(***************************************************************************)
(* os_sleep.cpp: OSSleepThread, OSSleepTicks and the host-side table of    *)
(* sleep timers that ends a tick sleep.                                    *)
(*                                                                         *)
(* Time is abstracted to what can be observed of it: at every pump any     *)
(* set of armed timers may be due, the reconciler's 50 ms may or may not   *)
(* have passed, and 100 ms may or may not have passed since it first saw a *)
(* park without a timer.                                                   *)
(***************************************************************************)
EXTENDS OSKernel

-----------------------------------------------------------------------------
(* OSSleepThread.                                                          *)

\* Block the running thread on a wait queue.  With no running thread the
\* default thread is taken for it.  A disabled scheduler refuses the park.
OSSleepThread ==
  /\ At({"OSSleepThread"})
  /\ LET t == IF running = Null THEN Main ELSE running
     IN  /\ running' = t
         /\ current' = IF running = Null THEN Main ELSE current
         /\ IF disable # 0
            THEN /\ Return
                 /\ UNCHANGED << state, links, resched >>
            ELSE /\ state' = [state EXCEPT ![t] = "waiting"]
                 /\ links' = InsertByPriority(links, Arg, t, prio[t], prio)
                 /\ resched' = TRUE
                 /\ Continue(<< Call("SelectThread", Null), Call("SleepReturn", Arg) >>)
  /\ UNCHANGED << suspend, prio, lifeVars, disable, mutexVars, timerVars, exec >>

\* Mutant: the thread stays in the wait queue.
SleepReturnLinked ==
  /\ At({"SleepReturn"})
  /\ state' = [state EXCEPT ![exec] = "running"]
  /\ Return
  /\ UNCHANGED << suspend, prio, lifeVars, links, resched, schedVars, mutexVars, timerVars,
                  exec >>

\* SelectThread has returned.  A park that did not switch away is undone, for the
\* thread that was parked: the fiber that executes, since guest code that may sleep
\* executes as the running thread (OpenRunsItself of OSThreadsInductive).
SleepReturn ==
  /\ At({"SleepReturn"})
  /\ IF state[exec] = "waiting" /\ links.at[exec] = Arg
     THEN /\ links' = [links EXCEPT !.queue[Arg] = RemoveFirst(@, exec),
                                    !.at[exec] = Null]
          /\ state' = [state EXCEPT ![exec] = "running"]
     ELSE UNCHANGED << links, state >>
  /\ Return
  /\ UNCHANGED << suspend, prio, lifeVars, resched, schedVars, mutexVars, timerVars,
                  exec >>

-----------------------------------------------------------------------------
(* OSSleepTicks.                                                           *)

\* Arm a timer and suspend the calling thread, unless it could not be switched
\* away from.
OSSleepTicks ==
  /\ At({"OSSleepTicks"})
  /\ IF disable # 0 \/ current # exec
     THEN Return /\ UNCHANGED << timers, outstanding >>
     ELSE /\ timers' = timers \cup {exec}
          /\ outstanding' = outstanding \cup {exec}
          /\ Continue(<< Call("OSSuspendThread", exec), Call("ParkReturn", Null) >>)
  /\ UNCHANGED << threadVars, lifeVars, links, resched, schedVars, mutexVars, firstSeen,
                  exec >>

\* The thread executes again.  If it is still suspended it was never switched
\* away from, and the park is undone.
ParkReturn ==
  /\ At({"ParkReturn"})
  /\ IF suspend[exec] > 0
     THEN /\ timers' = timers \ {exec}
          /\ outstanding' = outstanding \ {exec}
          /\ suspend' = [suspend EXCEPT ![exec] = @ - 1]
          /\ state' = IF suspend[exec] = 1 /\ state[exec] = "ready" /\ links.at[exec] = Null
                      THEN [state EXCEPT ![exec] = "running"]
                      ELSE state
     ELSE UNCHANGED << timers, outstanding, suspend, state >>
  /\ Return
  /\ UNCHANGED << prio, lifeVars, links, resched, schedVars, mutexVars, firstSeen, exec >>

-----------------------------------------------------------------------------
(* ProcessSleepTimers.                                                     *)

\* Take the due timers off the table into a local vector, to be delivered one
\* by one, then reconcile, then go on with `then`.
Pump(then) ==
  \E due \in Orderings(IF Deep THEN {} ELSE timers) :
    /\ timers' = timers \ ToSet(due)
    /\ Continue(Each("SleepTimerDue", due) \o << Call("Reconcile", Null), then >>)

\* Mutant: the suspension of the park itself is not counted.
ParkedTwice(t) == state[t] = "ready" /\ suspend[t] > 1

\* The shape of a thread in a tick sleep.
Parked(t) == state[t] = "ready" /\ suspend[t] >= 1

\* One due timer.  A running thread is in the middle of its park: try again
\* later.  A thread that is not parked any more has no use for the timer.
SleepTimerDue ==
  /\ At({"SleepTimerDue"})
  /\ LET t == Arg
     IN  /\ timers' = IF state[t] = "running" THEN timers \cup {t} ELSE timers
         /\ outstanding' = IF state[t] = "running" THEN outstanding ELSE outstanding \ {t}
         /\ Continue(IF Parked(t) THEN << Call("OSResumeThread", t) >> ELSE << >>)
  /\ UNCHANGED << threadVars, lifeVars, links, resched, schedVars, mutexVars, firstSeen,
                  exec >>

\* The stranded-sleeper reconciler.  Parks that have no timer and are still
\* park-shaped are resumed when they are found in that shape a second time.
Reconcile ==
  /\ At({"Reconcile"})
  /\ LET untimed  == outstanding \ timers
         stranded == {t \in untimed : Parked(t)}
     IN  \/ /\ Return
            /\ UNCHANGED << outstanding, firstSeen >>
         \/ \E heal \in Orderings(IF Deep THEN {} ELSE stranded \cap firstSeen) :
              /\ outstanding' = (outstanding \ (untimed \ stranded)) \ ToSet(heal)
              /\ firstSeen' = stranded \ ToSet(heal)
              /\ Continue(Each("OSResumeThread", heal))
  /\ UNCHANGED << threadVars, lifeVars, links, resched, schedVars, mutexVars, timers, exec >>
=============================================================================
