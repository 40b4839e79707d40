------------------------------ MODULE MCThreads ------------------------------
(***************************************************************************)
(* Instances of OSThreads for TLC: the default thread and two or three     *)
(* others, and what the code of each of them calls.                        *)
(***************************************************************************)
EXTENDS OSThreadsInductive

CONSTANTS a, b, c

Three == {Main, a, b}
Four == {Main, a, b, c}

\* Priorities: 0 is the most urgent.
OneHigher == (Main :> 1) @@ (a :> 0) @@ (b :> 1)
AllDifferent == (Main :> 2) @@ (a :> 0) @@ (b :> 1)
MainHighest == (Main :> 0) @@ (a :> 1) @@ (b :> 1)
TwoHigher == OneHigher @@ (c :> 1) @@ (b :> 0)

Start == {"OSCreateThread", "OSResumeThread"}

\* Wait queues, suspension and yields, and one thread that sleeps for a time.
SchedulerCalls ==
  [t \in Three |->
     IF t = a THEN {"OSSleepTicks", "OSSuspendThread"}
     ELSE Start \cup {"OSSuspendThread", "OSSleepThread", "OSWakeupThread", "OSYieldThread"}]

\* Everybody sleeps for a time; all but the default thread join others and
\* end by returning.
TimerCalls ==
  [t \in Three |->
     {"OSSleepTicks"} \cup IF t = Main THEN Start ELSE {"OSJoinThread", "ThreadReturns"}]

\* Locks, unlocks and suspensions by everybody.
MutexCalls ==
  [t \in Three |-> Start \cup {"OSSuspendThread", "OSLockMutex", "OSUnlockMutex"}]

\* Threads end by exiting and by being cancelled; the one that can exit never
\* owns a mutex.
LifeCalls ==
  [t \in Three |->
     CASE t = Main -> Start \cup {"OSCancelThread", "OSJoinThread", "OSDetachThread",
                                  "OSLockMutex", "OSUnlockMutex"}
       [] t = a -> {"OSLockMutex", "OSUnlockMutex", "OSJoinThread", "OSCancelThread"}
       [] t = b -> {"OSExitThread", "OSJoinThread", "OSDetachThread", "OSCancelThread"}]

\* Threads end by returning, while the default thread sleeps.
ReturnCalls ==
  [t \in Three |-> IF t = Main THEN Start \cup {"OSSleepThread"}
                   ELSE {"OSWakeupThread", "OSJoinThread", "ThreadReturns"}]

\* Exits of sleepers.
SleeperCalls ==
  [t \in Four |-> CASE t = Main -> Start \cup {"OSSleepTicks"}
                    [] t = c -> {"OSSleepTicks"}
                    [] OTHER -> {"OSSleepTicks", "OSExitThread"}]

\* Exits of owners.
OwnerExitCalls ==
  [t \in Three |-> Start \cup {"OSExitThread", "OSJoinThread", "OSLockMutex",
                               "OSUnlockMutex"}]

\* A tick sleeper that others resume and that suspends itself.
StaleTimerCalls ==
  [t \in Three |-> Start \cup {"OSSleepTicks", "OSSuspendThread"}]
=============================================================================
