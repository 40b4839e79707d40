SPECIFICATION Spec
CONSTANTS
  Null = Null
  IdleContext = IdleContext
  Main = Main
  a = a
  b = b
  c = c
  Thread <- Three
  BasePriority <- OneHigher
  GuestCalls <- SchedulerCalls
  CallbackCalls = {"OSSleepThread"}
  WaitQueue = {q1}
  Mutex = {}
  Detached = {}
  LowestPriority = 1
  MaxSuspend = 1
  MaxLock = 1
  MessageCall = {}
  MaxFrames = 3
PROPERTIES
  RefusedSleepLeavesRunning
CHECK_DEADLOCK FALSE
