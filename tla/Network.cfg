SPECIFICATION FairSpec
CONSTANTS
  Thread = {a, b}
  Socket = {s}
  NoThread = NoThread
  NoSocket = NoSocket
  MaxToken = 2
  MaxGeneration = 2
INVARIANTS
  WokenHasAnswer
  PeerIsOfThisSocket
PROPERTIES
  AnswersOnlyWaiters
  RequestsEnd
CHECK_DEADLOCK FALSE
