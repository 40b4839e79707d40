SPECIFICATION Spec
CONSTANTS
  Null = Null
  IdleContext = IdleContext
  Main = Main
  a = a
  b = b
  c = c
  Thread <- Three
  BasePriority <- OneHigher
  GuestCalls <- StaleTimerCalls
  CallbackCalls = {}
  WaitQueue = {}
  Mutex = {}
  Detached = {}
  LowestPriority = 1
  MaxSuspend = 1
  MaxLock = 1
  MessageCall = {}
  MaxFrames = 3
PROPERTIES
  TimersEndTickSleeps
CHECK_DEADLOCK FALSE
