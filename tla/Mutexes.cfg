SPECIFICATION FairSpec
CONSTANTS
  Null = Null
  IdleContext = IdleContext
  Main = Main
  a = a
  b = b
  c = c
  Thread <- Three
  BasePriority <- AllDifferent
  GuestCalls <- MutexCalls
  CallbackCalls = {}
  WaitQueue = {}
  Mutex = {m1, m2}
  Detached = {}
  LowestPriority = 2
  MaxSuspend = 1
  MaxLock = 2
  MessageCall = {}
  MaxFrames = 3
INVARIANTS
  OwnershipAgrees
  MutexWaitersWoken
  PriorityInherited
  WaitQueuesSorted
PROPERTIES
  CallsEnd
CHECK_DEADLOCK FALSE
