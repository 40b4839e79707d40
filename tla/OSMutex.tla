------------------------------- MODULE OSMutex -------------------------------
(***************************************************************************)
(* OSLockMutex and OSUnlockMutex of os_scheduler.cpp, and the priority     *)
(* inheritance that they and suspension (os_thread.cpp) carry along chains *)
(* of owners.  Every round of a chain walk is a step of its own; the fiber *)
(* is not switched away from between two of them.                          *)
(***************************************************************************)
EXTENDS OSKernel

-----------------------------------------------------------------------------
(* SetThreadEffectivePriority, as the new values of the state it changes.  *)

\* A ready thread moves to the run queue of the new priority, a waiting one to
\* its new place in the wait queue.
SetPriority(t, p) ==
  /\ prio' = IF state[t] \in {"ready", "running", "waiting"}
             THEN [prio EXCEPT ![t] = p] ELSE prio
  /\ resched' = (resched \/ state[t] \in {"ready", "running"})
  /\ links' = CASE state[t] = "ready" ->
                     InsertByPriority(Unlink(links, t), p, t, p, prio)
                [] state[t] = "waiting" /\ links.at[t] # Null ->
                     InsertByPriority(Unlink(links, t), links.at[t], t, p, prio)
                [] OTHER -> links

\* Mutant: only the owner itself is promoted.
NoChain(t) == Null

\* The thread the walk goes on with, Null when it ends.
NextInChain(t) == IF state[t] = "waiting" THEN OwnerOf(blockedOn[t]) ELSE Null

-----------------------------------------------------------------------------
(* Chain walks.                                                            *)

\* PromoteThreadPriority: lend the locking thread's priority to the owner.
Promote ==
  /\ At({"Promote"})
  /\ LET t == Arg
         p == prio[exec]
     IN  IF t = Null \/ suspend[t] > 0 \/ prio[t] <= p
         THEN Return /\ UNCHANGED << prio, resched, links >>
         ELSE /\ SetPriority(t, p)
              /\ Continue(<< Call("Promote", NextInChain(t)) >>)
  /\ UNCHANGED << state, suspend, lifeVars, schedVars, mutexVars, timerVars, exec >>

\* PropagateMutexOwnerPriority: recompute the owner's priority after one of
\* its waiters changed.
Propagate ==
  /\ At({"Propagate"})
  /\ LET t == Arg
     IN  IF t = Null \/ suspend[t] > 0 \/ prio[t] = EffectivePriority(t)
         THEN Return /\ UNCHANGED << prio, resched, links >>
         ELSE /\ SetPriority(t, EffectivePriority(t))
              /\ Continue(<< Call("Propagate", NextInChain(t)) >>)
  /\ UNCHANGED << state, suspend, lifeVars, schedVars, mutexVars, timerVars, exec >>

-----------------------------------------------------------------------------
(* Lock and unlock.                                                        *)

\* One round of the lock loop: take the mutex, take it once more, or lend the
\* owner a priority and wait.  Without a running thread the call does nothing.
OSLockMutex ==
  /\ At({"OSLockMutex"})
  /\ LET m == Arg
     IN  IF running = Null
         THEN Return /\ UNCHANGED << blockedOn, held, owner, count >>
         ELSE IF owner[m] \in {Null, exec}
         THEN /\ owner' = [owner EXCEPT ![m] = exec]
              /\ count' = [count EXCEPT ![m] = @ + 1]
              /\ held' = IF owner[m] = Null THEN [held EXCEPT ![exec] = Append(@, m)]
                                            ELSE held
              /\ Return
              /\ UNCHANGED blockedOn
         ELSE /\ blockedOn' = [blockedOn EXCEPT ![exec] = m]
              /\ Continue(<< Call("Promote", owner[m]), Call("OSSleepThread", m),
                             Call("LockRetry", m) >>)
              /\ UNCHANGED << held, owner, count >>
  /\ UNCHANGED << threadVars, lifeVars, links, resched, schedVars, timerVars, exec >>

LockRetry ==
  /\ At({"LockRetry"})
  /\ blockedOn' = [blockedOn EXCEPT ![exec] = Null]
  /\ Continue(<< Call("OSLockMutex", Arg) >>)
  /\ UNCHANGED << threadVars, lifeVars, links, resched, schedVars, held, owner, count,
                  timerVars, exec >>

\* Mutant: nested locks are not counted.
AnyUnlock(m) == TRUE

LastUnlock(m) == count[m] = 1

\* Only the owner unlocks.  The last unlock gives back an inherited priority
\* and wakes every waiter.
OSUnlockMutex ==
  /\ At({"OSUnlockMutex"})
  /\ LET m == Arg
         last == LastUnlock(m)
         rest == RemoveFirst(held[exec], m)
     IN  IF running = Null \/ owner[m] # running
         THEN Return /\ UNCHANGED << prio, held, owner, count >>
         ELSE /\ count' = [count EXCEPT ![m] = @ - 1]
              /\ held' = IF last THEN [held EXCEPT ![exec] = rest] ELSE held
              /\ owner' = IF last THEN [owner EXCEPT ![m] = Null] ELSE owner
              /\ prio' = IF last /\ prio[exec] < BasePriority[exec]
                         THEN [prio EXCEPT ![exec] = InheritedPriority(exec, rest)]
                         ELSE prio
              /\ Continue(IF last THEN << Call("OSWakeupThread", m) >> ELSE << >>)
  /\ UNCHANGED << state, suspend, lifeVars, links, resched, schedVars, blockedOn,
                  timerVars, exec >>

\* __OSUnlockAllMutex, guest code outside the HLE: release the mutexes of a
\* terminated thread one by one, waking the waiters of each.
UnlockAll ==
  /\ At({"UnlockAll"})
  /\ LET t == Arg
         m == Head(held[t])
     IN  IF held[t] = << >>
         THEN Return /\ UNCHANGED << held, owner, count >>
         ELSE /\ held' = [held EXCEPT ![t] = Tail(@)]
              /\ owner' = [owner EXCEPT ![m] = Null]
              /\ count' = [count EXCEPT ![m] = 0]
              /\ Continue(<< Call("OSWakeupThread", m), Call("UnlockAll", t) >>)
  /\ UNCHANGED << threadVars, lifeVars, links, resched, schedVars, blockedOn, timerVars,
                  exec >>
=============================================================================
