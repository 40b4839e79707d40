# A verification project for the WiiCompiled runtime

WiiCompiled recompiles a Wii game's PowerPC code to C++ and runs it on a PC or an
Xbox. What the game expected of the console's operating system is replaced by
high-level emulation (HLE) in `src/wiicompiled/runtime`. This directory holds TLA+
modules of the parts of that system that are hard to test:

* who executes when: guest threads, their scheduler, sleeping, mutexes, the life of a
  thread, and message queues on top of them;
* the pump that stands in for interrupts: alarms, completion callbacks, retraces;
* network requests that host threads answer while guest stacks are reused;
* the replacement of saved files, across failures and crashes of the host;
* of the translator, the analysis that decides which registers a native call passes.

With them come the TLC configurations that check them on small instances and proofs
that TLAPS checks for instances of every size. `PROJECT.json` lists the components, the
runs, the source lines of every definition, the hazards and the theorems.

Paths below are relative to `src/wiicompiled/runtime/src` unless they begin with `src/`.

## 1. Inventory

### The parts of the runtime, and what they share

| part | source | state it keeps | operations |
|---|---|---|---|
| thread queues | `hle/os/os_thread.cpp`, `os_scheduler.cpp`, `os_internal.h` | head/tail pairs in guest memory, links and a queue pointer in each OSThread, the pending mask | insert by priority, append, pop, unlink |
| scheduler | `hle/os/os_scheduler.cpp` | pending mask, reschedule request, disable count, running and current context | SelectThread, OSYieldThread, OSWakeupThread, the idle loop |
| sleep | `hle/os/os_sleep.cpp` | host table of sleep timers, outstanding parks, first sightings of stranded parks | OSSleepThread, OSSleepTicks, ProcessSleepTimers |
| mutexes | `hle/os/os_scheduler.cpp`, `os_thread.cpp` | owner, count, each thread's list of mutexes, inherited priorities | OSLockMutex, OSUnlockMutex, promotion and recomputation |
| thread lifecycle | `hle/os/os_thread.cpp` | thread state, suspend count, active list, join queues | create, suspend, resume, exit, cancel, join, detach |
| fibers | `fiber_manager.cpp`, `host_context.cpp` | one host stack per guest thread, which one executes, stacks to delete | switch, FiberProc, purge |
| alarms, interrupts | `hle/os/os_alarm.cpp`, `os_interrupt.cpp` | the guest's alarm queue, depth guard | set, cancel, process, deferred batches |
| message queues | `hle/os/os_message.cpp` | ring buffer in guest memory, a send and a receive queue | initialise, send, jam, receive |
| deferred network | `hle/net/network_deferred.cpp`, the socket table of `network_core.cpp` | DNS completions, pending polls and connects, results by token; descriptors with generations | start, worker, pump, take result, abort; open, close, reconnect |
| NAND callbacks and safe files | `hle/storage/nand_async.cpp`, `nand_api.cpp`, `nand_isfs.cpp` | callback queue, open handles with a shadow file, files and scratch files on the host | queue, drain; open, safe open, write, commit, discard, create, delete, rename |
| video | `hle/vi.cpp` | retrace count, flush state, re-entry guards | advance the retrace, present |
| audio | `hle/audio`, `audio_backend.cpp` | AI DMA registers, accumulated time, output queue | tick, mix, push |
| translator, analysis of calls | `src/wiicompiled/translator/src`, `Translator.Core/Analysis`, `Translator.Cli/Program.cs` | a contract per function, the worklist; at run time, the registers each native frame holds | analyse, round, choose interfaces; call, return |
| everything else | input, graphics, memory, DVD, host application; the rest of the translator, `Launcher`, `aurora-main` | see `PROJECT.json` | not modelled |

All guest threads share one host thread. A guest thread has a host fiber, one fiber
executes, and control moves to another in one place, `SwitchToThread` called by
SelectThread. This makes the HLE free of data races but not of interleavings:
almost every OS function may call SelectThread, and is then left half done on its
fiber while other threads change what it has read. SelectThread first delivers
sleep timers, which resume threads, which calls SelectThread again. When nobody is
ready it loops, **on the fiber of the thread that ran last**, and calls the pumps of
audio, video, alarms, network and NAND, which call back into guest code. Alarm
handlers and deferred batches interrupt a thread with the scheduler disabled.

### What is hard here

* A call continues after an arbitrary interleaving of others (sleep, lock, join,
  wakeup, exit), on state that has changed.
* Control information is kept twice: pending mask and queues; thread state, running
  context, current context and executing fiber; suspend count and queue membership;
  timer table and outstanding parks; owner, count and the lists of held mutexes.
* Timers race with resumption, suspension and the end of a thread, and a pump can be
  preempted between taking a timer off the table and delivering it.
* A thread that has ended executes its own last calls, on a fiber that is never
  entered again once it has been switched away from.
* The guards of the pumps are global and the fibers that hold them can be switched away
  from; whoever finds a guard held delivers nothing and must be able to rely on the holder.
* A network answer comes from another host thread for a wait queue in a guest stack frame
  that may be gone, with another request at the same address, or a socket that is
  another one under the same descriptor.
* A file is replaced in several host calls, each of which may fail, and the host may crash
  between any two; the same file is reachable by two libraries and several handles.
* The analysis of registers is a fixed point over a call graph with cycles, computed by a
  worklist that omits most functions in most rounds; its result is used to drop values.

### What makes each part correct

* queues: the mask is exact, nobody is linked twice, pointers are only followed into
  lists that contain the thread, wait queues are sorted by current priority;
* scheduler: a fiber is only entered by a dispatch, what executes is the running and
  unsuspended thread of the highest priority, no request to reschedule is lost, every
  call ends;
* sleep: a sleeper always has somebody who will wake it, a refused sleep leaves no
  trace, a timer only ends the sleep it was armed for;
* mutexes: owner, count and lists agree, a waiter waits for an owner or is being woken,
  an owner has at least the priority of its waiters;
* lifecycle: an ended thread is linked nowhere, owns nothing, and its joiners wake;
* message queues: a bounded FIFO with jam, and nobody is blocked without need;
* pumps: callbacks once, in order and never nested; alarms in order; no switch leaves an alarm
  handler or a deferred batch half done, and only one kind of switch a retrace; what is due is
  delivered in the end;
* network: a woken thread has the answer to its own request, nothing is written for a thread
  that does not wait, a connect is recorded on its own socket, every request ends that can;
* saved files: a file is replaced as a whole or not at all, whatever fails and whenever the
  host crashes, and the close says which;
* translator: contracts are true of what functions do, and no instruction reads a register
  that no interface has kept up to date.

## 2. Modules

    ThreadQueues            operators on queues, pointers and the pending mask
      OSKernel              constants, variables, frames of unfinished calls, helpers
        OSSleep             os_sleep.cpp
          OSScheduler       os_scheduler.cpp, callbacks
        OSMutex             mutexes and priority inheritance
        OSThreadLife        os_thread.cpp
        GuestFibers         the end of a fiber, fiber_manager.cpp
          OSThreads         all of them, guest code, Spec, the properties
            OSThreadsInductive      the inductive invariants
              MCThreads             instances for TLC
            OSMessage       os_message.cpp on these threads; implements BoundedQueue
              MCMessages
    CallbackPump            os_alarm.cpp, the callbacks of nand_async.cpp, vi.cpp;
                            implements CallbackServer              MCPump
    DeferredNetwork         network_deferred.cpp and its sockets    MCNetwork
    NandFiles               nand_api.cpp, nand_async.cpp, nand_isfs.cpp;
                            implements SaveFiles                   MCNand
    GuestAbiContracts       the analyses of the translator
      StateFreeCalls        the interfaces of calls and programs that run under them
                                                                   MCStateFree
    Proofs: OSStepProofs, OSThreadsProofs, OSPreemptionProofs, OSMessageProofs,
    NandFilesProofs, CallbackPumpProofs, DeferredNetworkProofs, StateFreeProofs

`BoundedQueue`, `CallbackServer` and `SaveFiles` are abstract: what a game may rely on, in terms
that do not mention rings, guards or scratch files. Each is a PROPERTY of the detailed module,
by INSTANCE ... WITH a refinement mapping, and all three refinements are proved.

### Threads: how state corresponds to the code

`state`, `suspend`, `prio`, `detached`, `blockedOn` are the OSThread fields at 0x2C8,
0x2CC, 0x2D0, 0x2CA and 0x2F0; `held` is the mutex list of the thread, `listed` the
active thread list. `links` holds every queue as a sequence, with the queue pointers
(0x2DC) and the pending mask, which the code keeps apart and the model too. `resched`,
`disable`, `running`, `current` are the words of low memory and small data that the
scheduler reads. `timers`, `outstanding`, `firstSeen` are `gSleepTimers`,
`gOutstandingParks` and `strandFirstSeen`. `exec` is the thread whose fiber executes.

`stack` is the host stack of every fiber, reduced to the calls that are not finished:
a sequence of frames, the next to execute first. An HLE function is cut into actions
only where the code can be left and re-entered (a call that reaches SelectThread) or
goes round a loop; everything between two such points is one action. A function that
calls another with work left to do pushes two frames: OSSleepThread leaves
`SelectThread, SleepReturn`, TerminateThreadCommon leaves `UnlockAll, OSWakeupThread,
ExitReschedule`. So the order of calls is the code's, and a fiber switch in
the middle leaves the rest on the stack of the fiber that was left. A local vector
that is walked (the due timers, the threads to heal) is that many frames on the
stack. An empty stack is guest code, and `GuestCall` is a call that guest code makes.

Stacks may also hold the frames of a message call, `MsgQueueWait` for a blocking one and
`MsgQueueTry` for one that only tries; their arguments are the constant `MessageCall`, which
is the set of requests in OSMessage and empty where no message queue is modelled. No
action of OSThreads executes such a frame.

An action's guard is `At(op)`, the function at the top of the executing stack, and
the conditions of the branch of the code it stands for.

### Threads: abstractions

* Time. Any set of armed timers may be due at a pump, in any order; the reconciler's
  50 ms and 100 ms have passed or not. The table of timers is a set of threads.
* Guest memory accesses succeed; registers, stacks, exit values, contexts and
  logging are left out, as are the thread switch callback, the limit of 256 wakeups per call,
  and the interrupt-enable flag, which matters only to the alarm code.
* While the video code advances a retrace, a wakeup does not reschedule, but a resumption does.
  Both are in `CallbackPump`; the callbacks of OSScheduler wake and resume threads in the idle
  loop and reschedule.
* `__OSUnlockAllMutex` and `__OSThreadInit` are translated guest code, modelled from how
  the HLE uses them (marked external), as is guest code itself.
* The fiber manager's `terminated` flag is the thread state: the two are set together.
  The default thread's fiber is registered from the start. After a thread has returned
  from its entry function `current` is null, which is what the code's cleared context and
  guest-thread variable come to.
* The loop that defers a thread of the game's engine until its heap is ready
  (`EGG::Thread::start`) is not modelled.
* `Legal` says what guest code may ask for: it creates a thread in a block that is
  free, names threads that exist, does not join itself, does not end the default
  thread, and does not call OSSleepThread or OSWakeupThread on the queue of a mutex.
* `SleepReturn` undoes the park of the fiber that executes; the code undoes that of the thread
  it has parked. They are the same wherever guest code may sleep (`OpenRunsItself`, proved as a part of `IInv`);
  callbacks sleep in `RefusedSleep.cfg` only, whose counterexample comes before any `SleepReturn`.
* The base priority and the attributes a thread is created with are constants
  (`BasePriority`, `Detached`): no function of the HLE changes a base priority, and what
  translated guest code does to it (OSSetThreadPriority) is not modelled.
* The operators on queues are those of well-formed lists. A double link in guest
  memory would corrupt both lists, in the model the thread is then in two sequences:
  `LinkedOnce` is the condition under which the representation is faithful, and it is
  checked by the runs `Scheduler` and `Lifecycle` and proved.

### OSMessage

`array`, `first`, `used` are the ring, `inbox` the word each receiver points at. The three
calls share the loop `MsgQueueOp`; one round of it is a step (the test, the change of
the ring and the frames of the wakeup, or the frames of the sleep and of the next
round), so everything else may happen between two rounds. The wakeups and sleeps
are those of OSThreads, whose Next is part of the specification. A queue has at least one
place and is set up while nobody waits for it.

### CallbackPump

The stack of a fiber keeps only the frames of the pump. The scheduler is that of
OSScheduler with one simplification: the order inside a run queue is left open. `alarmDepth`,
`drainDepth`, `retracing` and `disable` are the guards, one of each for all fibers. In the idle
loop SelectThread returns at once, so no pump is switched away from there. Left out:
alarms that are set in the past, interrupt masks, the sanity check of the queue, and when a
retrace is due (a poll finds one due or not).

Guest code makes threads ready by OSWakeupThread, which during a retrace only asks for a reschedule, and by
OSResumeThread, which enters SelectThread all the same; it may do so in a handler, a callback and a
retrace as well as between pumps. Not modelled: callbacks that block, yield, suspend, cancel or end a thread
(each of which enters SelectThread, too, without asking for a retrace), and the sleep timers
that SelectThread and the idle loop deliver, whose effect on the threads is that of a resumption.

### DeferredNetwork

A request is a record whose token is its place in time; `cookie` is the word beside the wait
queue in the stack of each thread, which nobody clears when the thread is cancelled. Workers
run concurrently with everything. A settled request goes through `ProcessCompletions`, which
handles one completion per step. The network answers or not; a timeout may pass at any time.
An asynchronous request is completed without looking at anybody, as in the code. The result of
a thread cancelled after it was woken stays in `results`; no property forbids that.

### NandFiles

Names refer to inodes, handles keep theirs. An inode has contents as programs see them (`cache`)
and as a crash would leave them (`disk`), which agree after a flush. Every host call that
may fail may fail. Assumed: a change of a directory is atomic and durable; one NAND call
is one step; guest code does
not open an open NANDFileInfo again, nor a file for writing through NANDSafeOpen while
a shadow of it exists. A copy that can neither be opened nor removed stays behind under its scratch
name (`ScratchLeft`). One step per call loses no crash: between the flush of the shadow and
the rename the disk is as before `Publish` with the shadow written back, which the system may do at any
time (`Writeback`). The failure of the flush of the directory is ignored, as in the code. The
check of the game's own save and the seeding of resources are left out.

### GuestAbiContracts, StateFreeCalls

A function is a list of instructions with registers used and defined, a callee, and where
control goes. A contract, and the liveness at a call, are computed as the code does, the inner fixed
points as least fixed points. `Round` is a round of the worklist. Then the program
runs: a frame knows for which registers it holds the architectural value (`good`), and every
call is made under any of the interfaces the code may choose for it. All operations
on register masks are bitwise, so one register shows what any number would. Left out: the
link register as additional input of tail calls, contracts of hand-written native functions, the
flags of a boundary, and which functions are eligible and how they are grouped, which decides
between interfaces and is a nondeterministic choice here. In one place the code differs from
what is modelled, for GQR registers only: Program.cs:1285 puts the GPR part of the live set into
the GQR part of an input mask, in addition to the refined mask.

## 3. Runs

In the runs of `MCThreads`, `MaxSuspend`, `MaxLock` bound how deep guest code nests
suspensions and locks; `MaxFrames` is the stack depth beyond which no further timer is
taken to be due, which bounds the recursion of timers into the scheduler: 3 lets a
timer be delivered inside a delivery that is inside a sleep call.

| run | instance | states | what it shows |
|---|---|---|---|
| `Scheduler` | 3 threads, 2 priorities, 1 wait queue, callbacks that wake and resume, suspension 2 deep | 164,218 | types, queues, states, dispatch, no lost preemption, tick sleeps end |
| `Timers` | 3 threads that sleep for a time and join, 2 priorities, two of them end by returning, one is detached | 1,228,503 | no sleeper without a source of wakeups; the highest priority executes; the mask survives the switch behind the scheduler's back |
| `Mutexes` | 3 threads, 3 priorities, 2 mutexes locked 2 deep, suspension | 142,628 | ownership, inheritance, sorted queues, wakeups; every call ends |
| `Lifecycle` | 3 threads, one created detached, 1 mutex; exit, cancel, join, detach, re-creation | 24,963 | an ended thread is linked nowhere, owns nothing, its joiners wake |
| `Messages` | 3 threads, 2 priorities, 2 messages, capacity 2; blocking sends, jams and receives, callbacks that send, cancellation and re-creation | 120,458 | the ring implements a bounded FIFO; no lost wakeup; every call ends |
| `Pump` | 2 threads, 2 priorities, a periodic and a single alarm, 2 callbacks, 1 callback per drain, the clock up to 2 | 95,199 | callbacks once, in order, not nested; no step leaves a fiber in an alarm handler or a deferred batch, and only a resumption leaves one in a retrace; whatever is due is delivered |
| `Network` | 2 threads, 1 descriptor, 2 requests, 2 sockets | 139,475 | answers go to those who asked and wait; connects to their own socket; requests end |
| `Nand` | 2 files, 2 handles, 3 inodes, contents of 2 values | 95,259 | files are replaced as a whole across failures and crashes |
| `StateFree` | 3,632 programs of 3 functions of the shapes listed in `MCStateFree`: one calls a second, both may call a third; branches, joins, loops, blocks that are fallen into and jumped to, calls of itself, and of the caller after the register was used or written; 4 frames | 199,709 | contracts are exact and true, no stale register is read, the rounds end |
| `OwnerExit`, `AlarmGuard`, `ContractReads` | as `Lifecycle`, `Pump`; one program | | violations, section 4 |

Why these are enough to be of interest: two threads and the default thread are what
it takes for one to execute, one to be preempted in the middle of a call and a third
to act in between; two mutexes and three threads make a chain of owners and a
deadlock of guest code; two levels of priority make preemption, three make
inheritance through a middle thread; suspension twice deep meets the test for the
last resumption; and two sleepers that may both be due make a pump preempted between
two deliveries. `Lifecycle` keeps exits away from owners of mutexes, because of the
violation that `OwnerExit` shows; a cancelled owner is in it.

`Messages` has a receiver that preempts senders and a thread that is on both sides, so that a
woken thread may find the message taken. `Pump` needs two alarms for order and a
limit, two callbacks for nesting, and a second thread that is preempting and pumping; its limit of
1 callback per drain makes a drain end with callbacks left. With 2 (146,969
states) it was checked by hand as well. In `Network` two requests are enough for one
to outlive its thread while the next one lies at the same address, and two generations for a
descriptor to be reused under a connect; one thread with three requests was checked
by hand (516,220 states). `Nand` needs an inode beyond the two files for one shadow while
the other file's is in use. It identifies states that differ by a permutation of paths,
handles or inodes (no property names one) and views the contents of those inodes only that
something refers to: no action reads others. `StateFree` has the shapes of
control flow that tell the analyses apart, recursion, and calls on one of two paths. Of the bodies of these
shapes `JoinsAgree` keeps those in which the edges that the contract analysis misses make no
difference, since the others are what `ContractReads` shows; that these are enough is
checked by hand (`Counted`). Of mutual recursion it has the cycles that settle: two functions whose reads do
not are what `RoundsEnd.cfg` shows, so the run's `RoundsEnd` says nothing of those.

Deadlock checking is on in `Pump`, and off elsewhere: guest code may wait for ever with nothing armed, and the
code then stays in its idle loop, where a round that finds nothing to do changes nothing;
the clock, tokens and generations of the bounded models run out; and a finished analysis
of a program that cannot call deeper is done.

`StateSaysWhere` and `LinkedOnce` speak of every interleaving, also in the
middle of calls. `PendingMaskExact` holds at every step because a step contains the
whole of a link or unlink, as in the code, which is not interrupted there.

### Fairness

`FairSpec` assumes that the host thread executes HLE code without stopping
(`WF_vars(HleStep)`), that a callback returns (strong fairness of its end, as it may
keep making calls), and that a fiber which stays in the idle loop sees every armed
timer come due (strong fairness of a pump that empties the table: timers have finite
deadlines, and the loop polls). Of guest code nothing is assumed: it may stop calling, or call for
ever. `TickSleepsEnd` is therefore stated of an idle system, and `CallsEnd` of HLE
calls only. `FairMessageSpec` assumes the same, a round of a message call being HLE code.

`Pump`: the host thread executes what is innermost (weak fairness); the guest code run in
an alarm handler, a callback or a retrace returns, although it may wake, pump and set alarms
before it does (strong fairness of its return); and the game blocks and polls again and again
(strong fairness of both): without polls nothing would be pumped but in the idle loop. Nothing is
assumed of a particular thread, so `AlarmsFire` and `CallbacksDelivered` say that a
guard held by a fiber that is not executing does not stop delivery for good.

`Network`: workers end, timeouts pass, and the pump runs when it has work, as the scheduler
and the pumps of guest code call it for ever. That the network answers is not assumed:
`RequestsEnd` leaves out a poll without a timeout, and a request whose worker could publish
neither result nor failure, for which the code has no remedy.

`StateFree`: the translator goes on until it is done.

## 4. What the violations show

Each of these runs checks one property that a comment of the code claims, and TLC
finds an execution against it. The full quotations are under `findings`.

* `OwnerExit` — a dying thread releases its mutexes before it wakes its joiners; the
  release switches to the new owner and the fiber never comes back.
* `AlarmGuard` — the guard of the alarm loop is held while the reschedule after a handler
  switches to another fiber, which the comment on the guard says must not be. The pumps of the
  other fibers deliver nothing until the first fiber executes again; if its thread is suspended
  or cancelled, that is never. `AlarmsFire` holds in `Pump` because there no thread is.
* `ContractReads` — the analysis of contracts does not know that a block without a terminator falls
  into the next one. A loop that is only fallen into, and jumps back to itself, looks as
  if its own update of a register came before its first read.

Seven more configurations are kept for runs by hand. All but the last refute properties that the runs
above check in other instances, or that are of one path only:

| configuration | property | what happens |
|---|---|---|
| `LostSleeper` | `ParkHasWakeSource` | the reconciler clears the outstanding marks of all stranded sleepers before it resumes them one by one, on a fiber that may be that of a thread which has ended; the rest of the list is lost with it |
| `RefusedSleep` | `RefusedSleepLeavesRunning` | OSSleepThread, called from a callback in the idle loop, makes the default thread the running one before it refuses |
| `FiberReturn` | `DispatchedOnSwitch` | a thread that returns from its entry function switches to the fiber of the default thread, which may be waiting |
| `StaleTimer` | `TimersEndTickSleeps` | a due timer held by a preempted pump later undoes a suspension by OSSuspendThread, which has the same shape as a tick sleep |
| `RoundsEnd` (module `MCStateFree`) | `RoundsEnd` | two functions that call each other undo each other's contracts in every round: what each of them reads goes back and forth |
| `RetraceGuard` (module `MCPump`) | `RetraceGuardStaysHome` | a retrace callback, polled from a running thread, resumes a more urgent one: OSResumeThread does not look at `s_inAdvanceRetrace`, and unrelated guest work executes under the live guard, which os_alarm.cpp:79-83 gives as the reason why RunDeferredReschedule and OSWakeupThread wait |
| `Counted` (module `MCStateFree`) | `Counted` | holds: in the programs of `StateFree` the missed edges make no difference on any path |

## 5. Proofs

### Threads

The theorems of OSThreadsProofs are about `Spec` for any finite set of threads, any priorities, wait
queues and mutexes, and any bounds. They assume `AddressesDistinct` and `ConstantTypes`
(OSKernel), which TLC evaluates in every run, and

    Disciplined ==
      /\ no thread returns from its entry function
      /\ callbacks call nothing but OSWakeupThread and OSResumeThread

The first conjunct excludes the switch that `FiberReturn` shows to be wrong, the
second the refused sleep of `RefusedSleep`; what callbacks of the game do in practice
(wake and resume) is allowed. The runs `Scheduler`, `Mutexes` and `Lifecycle`
are disciplined; in `Timers` threads return from their entry functions.

### Threads: the inductive invariant

`IInv` (OSThreadsInductive) has four parts.

* `TypeOK`.
* `QueueInv`: the mask is exact, nobody is linked twice, and for every thread `Placed`:
  a linked thread is in the state its queue stands for, a ready and unsuspended one is
  linked on the run queue of its priority, a waiter has a queue pointer into a wait queue, and only
  the executing thread is running. None of these is inductive alone: unlinking keeps the
  mask exact only if the thread is in the queue its pointer names, and that a thread about
  to be inserted is not linked yet follows from its state.
* `ControlInv`: what the executing fiber's stack says of the scheduler's globals. A
  thread that is not in state running is on its way into the scheduler (`Leaving`): under quiet
  frames there is a scheduler call, or a reschedule whose request is set. The disable count
  is 1 exactly under a callback; nobody runs in the idle loop; Dispatch is always the next thing
  to happen, and there is somebody to dispatch; a fiber that does not execute
  has no callback and no idle loop on its stack. Without this part nothing connects `running`
  with `exec`, and the thread that SelectThread puts back on a run queue
  could be any.
* `MutexInv`: an owned mutex is locked at least once, which keeps the count from
  going below zero.

The proof is layered. The first part of `OSStepProofs` has a lemma for each operator on the queues:
under which condition it keeps the mask exact and threads linked once, and
whose membership it changes. The rest has the same for stacks (what `Continue` with given
frames does to `Leaving`, to the shape and to the barriers) and proves for every
action that it preserves the queue and the control part; `OSThreadsProofs`
puts them together to `InvariantHolds` and derives the properties:

| theorem | states |
|---|---|
| `InvariantHolds` | `[]IInv` |
| `TypesHold` | `[]TypeOK` |
| `PendingMaskIsExact` | `[]PendingMaskExact` |
| `ThreadsLinkedOnce` | `[]LinkedOnce` |
| `GuestCodeRunsUnsuspended` | `[]GuestRunsUnsuspended` |
| `StateSaysWhereLinked` | `[]LinkedByState`, which is `StateSaysWhere` without "a waiting thread is linked" |
| `SwitchesAreDispatches` | `DispatchedOnSwitch` |

What is left out of `LinkedByState`, that a waiting thread is in the queue it points
to, needs that the join queue of a block that is created anew is empty; it
is not, in the situation that `OwnerExit` leads to (`OSCreateThread` clears the queue).
It is proved below, under a hypothesis that excludes that situation.

### Threads: who waits where, and for whom

`WaitInv` is inductive relative to `IInv`, for disciplined guest code:

* every wait queue is sorted by the priorities of now (`WaitQueuesSorted`);
* whoever waits is linked where its pointer says, except in the join queue of a block that was
  created anew (`WaitersLinked`);
* between the decision to wait and the wait nobody else executes (`DecidingNext`): the frames
  `OSJoinThread`, `Promote` and `OSSleepThread` are only ever the next ones of the executing fiber;
* so the mutex somebody is about to sleep on is still owned (`SleepsOnOwned`);
* whoever is linked at a mutex is blocked on it, and a mutex without an owner
  has waiters only while they are being woken (`LockWaiters`).

Queues stay sorted although priorities change under them, because the only change of a waiter's
priority, `SetPriority`, unlinks and links it again. The proof follows `LinkStep`, which
says for every action what it does to order, membership and pointers.

| theorem | states |
|---|---|
| `WaitInvariantHolds` | `[]WaitInv` |
| `QueuesStaySorted` | `[]WaitQueuesSorted` |
| `LockWaitersAreWoken` | `[]MutexWaitersWoken` |

### Threads: the end of threads, ownership and inheritance

The remaining invariant is about guest code that also satisfies

    ReleasesFirst ==
      /\ At({"OSExitThread"}) => held[exec] = << >>
      /\ At({"OSCancelThread"}) => held[Arg] = << >>

at every step: a thread lets go of its mutexes before it exits or is cancelled. The theorems are of the form
`Spec /\ []ReleasesFirst => ...`. The hypothesis cannot be dropped: the release of the
mutexes of a dying thread runs on a fiber that can be left for good half way (`OwnerExit`), after which
`OSCreateThread` in the same block clears the list of mutexes and the queue of joiners. With two mutexes
and three threads TLC then finds `OwnershipAgrees` and `PriorityInherited` violated as well.

`EndInv` has these parts: the last rites are performed at once (`RitesNext`); all waiters are linked,
join queues included (`AllWaitersLinked`); lists and owners agree (`OwnershipAgrees`); the
dead hold nothing; only existing threads are listed, joined, and slept for; when a
thread has ended, the wakeup of its joiners is the next thing to happen (`JoinersNext`); and an owner
has at least the priority of each waiter, unless it is suspended or the walk along the
owners is at that owner (`Inherited`). The last is the heart of the matter: it says where a walk has to be
while the inequality is broken, so each step of `Promote` and `Propagate` hands the gap on to the
next owner, and `OSResumeThread` of a suspended owner closes it from `EffectivePriority`.

| theorem | states, given `[]ReleasesFirst` |
|---|---|
| `EndInvariantHolds` | `[]EndInv` |
| `OwnersAgree` | `[]OwnershipAgrees` |
| `TheDeadOwnNothing` | `[]DeadOwnNothing` |
| `OwnersInherit` | `[]PriorityInherited` |
| `JoinersAreWoken` | `[]JoinersWoken` |
| `StatesSayWhere` | `[]StateSaysWhere` |
| `OnlyTheLinkedAreUnlinked` | `UnlinksOnlyLinked` |

Before they were proved TLC checked `WaitInv` and `EndInv` on an instance with three threads, three
priorities and a mutex, whose guest code suspends, locks, joins, exits, cancels and creates again
(358,314 states, with `ReleasesFirst` as a constraint).

### Threads: preemption

`OSPreemptionProofs` goes on from there, for guest code that besides satisfies

    CancelsNoLockWaiter ==
      At({"OSCancelThread"}) => ~ (state[Arg] = "waiting" /\ links.at[Arg] \in Mutex)

OSCancelThread unlinks a thread that waits for a mutex without a new look at the priority
of the owner (os_thread.cpp:429-469). The owner keeps what it inherited until it unlocks; the unlock
then finds nobody to wake, lowers the priority and does not reschedule, and a thread that is
ready by then stays outranked.

The invariant `LendInv` bounds inherited priorities from the other side: if a thread is more urgent than its
base priority, somebody at least as urgent waits for one of its mutexes or is about to
(`AllJustified`), unless the walk along the owners has just come to the thread. For that the waiters
of an unlocked mutex must all have left its queue before somebody takes it (`WakesNext`), a thread
waits for one mutex at a time and comes back from that wait before it waits elsewhere
(`RetriesLock`, `WaitsForOne`, `BlockedThere`), and one that is suspended in a wait lends nothing
(`SuspendedLast`). An unlock then lowers a priority only if it has waiters to wake.

`PreemptionKept` says that whenever somebody more urgent than the running thread is ready, the request to
reschedule stands or the wakeup that comes next will raise it: a step that readies a thread, raises another's priority
or lowers the running thread's own also raises the request or is followed by the wakeup that does.
`HighestInv` adds what no callback can spoil where there are none: of the frames under the
executing one, the first that is not quiet calls the scheduler (`SelectsSoon`), so the
request is served before guest code goes on.

| theorem | states, given `[]ReleasesFirst /\ []CancelsNoLockWaiter` |
|---|---|
| `LendInvariantHolds` | `[]LendInv` |
| `PreemptionKeptHolds` | `[]PreemptionKept` |
| `PreemptionIsNotLost` | `[]PreemptionNotLost` |
| `TheHighestRuns` | `[]HighestRuns`, if `CallbackCalls = {}` |

### Threads: tick sleeps

`ParkInv` rests on `IInv` only. It assumes of every step

    SuspendsNoSleeper ==   \* no thread in a tick sleep is suspended, but by its own sleep
      At({"OSSuspendThread"}) /\ Has(stack[Arg], {"ParkReturn"}) =>
        /\ Tail(stack[exec]) # << >>
        /\ Head(Tail(stack[exec])).op = "ParkReturn"

    DeliversFirst ==       \* no fiber ends with a due timer or a healed sleeper in hand
      /\ At({"OSCancelThread"}) /\ Arg # exec => ~ Has(stack[Arg], Deliveries)
      /\ At({"Dispatch"}) /\ Dead(exec) => ~ Has(stack[exec], Deliveries)

Both exclude what the code does get wrong, in `StaleTimer` and in `LostSleeper`: a suspension from outside
has the same shape as a tick sleep, and a delivery left on the fiber of a dead thread is lost.
The invariant: in a chain of calls with a tick sleep there is nothing in which a thread could wait or
end (`ParksAlone`), the suspension of a sleep is executed at once (`SuspendNext`), a sleeper is suspended
at most once and never waits (`ParkedOnce`), and it has a timer, is in the table of the
reconciler, or its resumption is on some stack (`ParkHasWakeSource`).

| theorem | states, given `[]SuspendsNoSleeper /\ []DeliversFirst` |
|---|---|
| `ParkInvariantHolds` | `[]ParkInv` |
| `SleepersHaveWakeSource` | `[]ParkHasWakeSource` |

TLC checked `ParkInv` before, with both hypotheses as constraints, on three threads that sleep, suspend, join, cancel and
exit, with a callback that resumes (203,999 states).

### Alarms and callbacks

`PumpIsServer` is the refinement of CallbackServer, for any threads, alarms, callbacks and limits, without
hypotheses; `InterruptsAreNotLeft` and `AlarmsFireInOrder` are `[]InterruptsRunToEnd` and `AlarmsInOrder`.
The invariant is `StackInv` with the types and the order of the alarm queue. Of one
stack it says which frame can be on top of which (`Shape`), of all stacks together that the loop of the
alarms and that of the callbacks are on one of them at most, with the guard held (`Guarded`), that the
disable count is the number of frames that disable (`Disables`), and that no fiber but the executing one is inside an
alarm handler or a deferred batch, which disable the scheduler. A retrace does not, and a resumption in it may switch:
for it there is the guard only, so one fiber at most is in a retrace, and the theorem names the call that leaves
it. Unless the code idles, the running thread is the one that executes (`Executes`). The guards make the refinement work: a callback is started by the only drain there is, so that the
oldest one is the next.

### Deferred network requests

`WokenFindAnswers`, `PeersAreOwn` and `AbandonedAreNotAnswered` are `[]WokenHasAnswer`, `[]PeerIsOfThisSocket`
and `AnswersOnlyWaiters`, for any threads, descriptors, requests and sockets. A pump that answers checks only
that a cookie in guest memory equals the token of the request. The invariant says
why that suffices: tokens are never reused (`TokensAreOld`), no two threads ask with the same one
(`AskingApart`), and the frame of a waiting thread holds the token of its own request (`FrameIsOwn`), so that
an answer to an abandoned request meets no frame, whatever thread lies at the same address by then.

### Message queues

`MessageQueueIsFifo` is the refinement `MessageSpec => ImplementsQueue`, `MessageTypesHold` the
types, for any threads, messages and capacity, without `Disciplined`: what the scheduler does is irrelevant
to the ring, which only `MsgQueueOp` and the initialisation change. The invariant is `MessageTypeOK`, whose
content is that `first` and `used` stay in range. The lemmas say what
enqueue, jam and dequeue do to `Items`: the arithmetic of indices modulo the capacity.

That nobody is blocked without need does depend on the scheduler. `SchedulerHoldsWithMessages` is
`MessageSpec => [](IInv /\ WaitInv)`: the invariants of the threads hold with the frames
of OSMessage on their stacks, for guest code that is `Disciplined` and callbacks that
do not block on a message queue (`MessagesDisciplined`). `BlockedAreWoken` is
`MessageSpec /\ []OnlyQueueSleeps => []BlockedOnlyByQueue`, where `OnlyQueueSleeps` says that guest code does not
call OSSleepThread itself on the two thread queues of a message queue. Its invariant `BlockedKept` adds that a thread about to sleep
in a message call still has the reason to: nothing executes between the test of the ring and
the sleep (`DecidingNext`), and each message or place that becomes available is followed by a wakeup
of all the other side, which is on some stack until the last of them has been woken.

### Saved files

`SavesAreAtomic` is the refinement of SaveFiles, `ShadowsStayAlone` the invariant it rests on.
The inductive invariant adds to `ShadowsAreAlone` the types, `NamesApart` (no inode of the host has
two names, be they of files or of scratch files) and `IosInPlace` (IOS makes no shadows, so closing
through IOS publishes nothing). Without `NamesApart` a rename or a stale scratch file could put the
inode of one handle under the name of another. Each action maps to one
step of SaveFiles or a stutter.

### The translator's calls

`WorklistExact` needs no hypothesis: the invariant is that every function outside of `pending` has
the contract an analysis would give it now, since an analysis depends on the contracts of callees only.
`FrameTypesHold` needs none either. The other theorems are about the behaviours in which

    Counted == phase = "run" => PathsCounted(code, contract)

holds: what some path of a function reads before it writes is in the contract's reads, and what some path does
not write is not in its definite writes, paths going along all the edges of the code. That the
contract analysis misses the edges into blocks that are fallen into is what `ContractReads` shows to
break the contracts, and `Counted` is what is lost there, function by function, with the
callees taken at their contracts' word; that contracts are then true of executions, with
their chains of calls and interfaces, is what the theorems add. It is not a restriction to programs without joins:
`JoinsCount` derives it from `JoinsBelieved`, which asks, at each missed edge alone, that
what the analysis believes to be written at its end is written when control takes it. The join after an `if`
without `else` qualifies, whose analysed predecessor is the branch itself; the join of two
branches does if the one that falls in writes what the one that jumps in does, and a loop that is
fallen into if what it always writes has been written before it. The call graph is any,
recursion included, as are the number of registers and the choice of interfaces.
`IInv` is `AbiInv` (types, and the invariant above, so that in phase "run" the contracts are a fixed
point) and `StackInv`: the innermost frame holds good values of all that is live for what its caller
wants (`Running`), every other frame of all that is live after its call and its callee may not
write (`Waiting`), and what each frame has read and written agrees with its contract and with
what every path has written by then (`Accounted`, `Certain`).
The argument for a call is that liveness is a fixed point and that each interface covers
what is live at the entry for the outputs wanted; for a return, that what the callee wrote and did not
return is not live in the caller. The theorems: `ContractsHold`, `NothingStale`, `NothingDropped`.

### Only model-checked

Every invariant and every action property that a passing run checks is proved, the three refinements
included. Some theorems say less than the run does, since they speak of less guest code, and more, since
they speak of every size: those on threads need `Disciplined` and the hypotheses named above, each of
which is there because TLC shows, or the code at the line given does, that the property fails without it
in general. The run `Timers` goes beyond `Disciplined`: its threads return from their entry functions
(on an instance in which `ParkHasWakeSource` and `HighestRuns` hold all the same).

Liveness (`CallsEnd`, `TickSleepsEnd`, `AlarmsFire`, `CallbacksDelivered`, `RequestsEnd`,
`RoundsEnd`), and anything that needs ENABLED, is outside the prover's reach and is checked by TLC only; so is
induction over data, such as the length of a chain of owners.

## 6. Mutants

Each property of each passing run has a mutant: an operator, marked "Mutant" in the module,
that stands for a mapped definition with a bug it could plausibly have (a
forgotten unlink, a suspended thread that counts as ready, an off-by-one in the comparison
of priorities, a pending bit that stays, only the first waiter woken). Under the run's own
configuration TLC finds the property violated when the definition is replaced.

## 7. What is not modelled

See `components` in `PROJECT.json`. In short:

* for good, because there is no protocol between actors to model, only
  conversion of data or platform calls: graphics, input, guest memory, DVD and mod files,
  SSL and the socket options, start-up and settings, the launcher, the vendored
  renderer, and most of the translator. They are by far the larger part of the repository, so the
  map covers a small share of all its lines, and most of those of the threads,
  message queues, alarms and deferred requests;
* the audio tick (`hle/audio/audio.cpp`): numeric bookkeeping of one fiber, whose callback is an
  ordinary idle-loop callback for the scheduler;
* host stacks of fibers: a fiber that ends on its own stack is queued for deletion, and a purge that
  runs on that very fiber forgets it. The leak is of host memory only and no model shows it.

## 8. Plan

The order is that of importance to the behaviour of the whole.

1. Done: queues, scheduler, sleep, mutexes, lifecycle, fibers; `IInv` and its theorems.
2. Done: message queues as a refinement of a bounded FIFO, proved.
3. Done: deferred network requests with workers, timeouts and reused stacks and sockets.
4. Done: saved files with failures and crashes, refinement proved.
5. Done: alarms, callbacks and retraces with the guards they share.
6. Done: the contracts and call interfaces of the translator, proved sound wherever the edges
   that the contract analysis misses make no difference.
7. Done: the theorems on `DeferredNetwork` and `CallbackPump`, with the refinement of CallbackServer.
8. Done: sorted queues, mutex waiters, ownership, inheritance, joiners of OSThreads; preemption,
   the highest priority, tick sleeps, and blocked senders and receivers.
9. `FiberStacks`: creation, termination, the pending-delete list and its purge.
