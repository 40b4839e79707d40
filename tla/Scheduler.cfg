SPECIFICATION FairSpec
CONSTANTS
  Null = Null
  IdleContext = IdleContext
  Main = Main
  a = a
  b = b
  c = c
  Thread <- Three
  BasePriority <- OneHigher
  GuestCalls <- SchedulerCalls
  CallbackCalls = {"OSWakeupThread", "OSResumeThread"}
  WaitQueue = {q1}
  Mutex = {}
  Detached = {}
  LowestPriority = 1
  MaxSuspend = 2
  MaxLock = 1
  MessageCall = {}
  MaxFrames = 3
INVARIANTS
  TypeOK
  PendingMaskExact
  LinkedOnce
  StateSaysWhere
  GuestRunsUnsuspended
  PreemptionNotLost
PROPERTIES
  UnlinksOnlyLinked
  DispatchedOnSwitch
  TickSleepsEnd
CHECK_DEADLOCK FALSE
