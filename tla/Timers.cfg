SPECIFICATION Spec
CONSTANTS
  Null = Null
  IdleContext = IdleContext
  Main = Main
  a = a
  b = b
  c = c
  Thread <- Three
  BasePriority <- MainHighest
  GuestCalls <- TimerCalls
  CallbackCalls = {}
  WaitQueue = {}
  Mutex = {}
  Detached = {b}
  LowestPriority = 1
  MaxSuspend = 1
  MaxLock = 1
  MessageCall = {}
  MaxFrames = 3
INVARIANTS
  PendingMaskExact
  ParkHasWakeSource
  HighestRuns
CHECK_DEADLOCK FALSE
