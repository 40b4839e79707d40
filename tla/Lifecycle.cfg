SPECIFICATION Spec
CONSTANTS
  Null = Null
  IdleContext = IdleContext
  Main = Main
  a = a
  b = b
  c = c
  Thread <- Three
  BasePriority <- OneHigher
  GuestCalls <- LifeCalls
  CallbackCalls = {}
  WaitQueue = {}
  Mutex = {m1}
  Detached = {b}
  LowestPriority = 1
  MaxSuspend = 1
  MaxLock = 1
  MessageCall = {}
  MaxFrames = 3
INVARIANTS
  LinkedOnce
  JoinersWoken
  DeadOwnNothing
CHECK_DEADLOCK FALSE
