SPECIFICATION Spec
CONSTANTS
  Null = Null
  IdleContext = IdleContext
  Main = Main
  a = a
  b = b
  c = c
  Thread <- Four
  BasePriority <- TwoHigher
  GuestCalls <- SleeperCalls
  CallbackCalls = {}
  WaitQueue = {}
  Mutex = {}
  Detached = {a, b}
  LowestPriority = 1
  MaxSuspend = 1
  MaxLock = 1
  MessageCall = {}
  MaxFrames = 3
INVARIANTS
  ParkHasWakeSource
CHECK_DEADLOCK FALSE
