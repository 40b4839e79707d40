SPECIFICATION Spec
CONSTANTS
  Null = Null
  IdleContext = IdleContext
  Main = Main
  a = a
  b = b
  c = c
  Thread <- Three
  BasePriority <- MainHighest
  GuestCalls <- ReturnCalls
  CallbackCalls = {}
  WaitQueue = {q1}
  Mutex = {}
  Detached = {b}
  LowestPriority = 1
  MaxSuspend = 1
  MaxLock = 1
  MessageCall = {}
  MaxFrames = 3
PROPERTIES
  DispatchedOnSwitch
CHECK_DEADLOCK FALSE
