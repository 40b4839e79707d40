SPECIFICATION FairMessageSpec
CONSTANTS
  Null = Null
  IdleContext = IdleContext
  NoMessage = NoMessage
  Main = Main
  a = a
  b = b
  x = x
  y = y
  sendq = sendq
  recvq = recvq
  Thread <- Three
  BasePriority <- ReceiverFirst
  GuestCalls <- OtherCalls
  CallbackCalls = {"OSResumeThread"}
  WaitQueue = {sendq, recvq}
  Mutex = {}
  Detached = {a}
  LowestPriority = 1
  MaxSuspend = 1
  MaxLock = 1
  MessageCall <- Request
  MaxFrames = 3
  Message = {x, y}
  Capacity = 2
  SendQueue = sendq
  RecvQueue = recvq
  ThreadRequests <- Requests
  CallbackRequests <- FromCallbacks
INVARIANTS
  MessageTypeOK
  BlockedOnlyByQueue
PROPERTIES
  ImplementsQueue
  CallsEnd
CHECK_DEADLOCK FALSE
