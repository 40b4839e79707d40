SPECIFICATION Spec
CONSTANTS
  Null = Null
  IdleContext = IdleContext
  Main = Main
  a = a
  b = b
  c = c
  Thread <- Three
  BasePriority <- OneHigher
  GuestCalls <- OwnerExitCalls
  CallbackCalls = {}
  WaitQueue = {}
  Mutex = {m1}
  Detached = {}
  LowestPriority = 1
  MaxSuspend = 1
  MaxLock = 1
  MessageCall = {}
  MaxFrames = 3
INVARIANTS
  JoinersWoken
CHECK_DEADLOCK FALSE
